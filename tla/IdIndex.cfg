SPECIFICATION IndexSpec
CONSTANTS
    NodeIds = {i1, i2, i3, i4}
    Slots = {0, 1}
    Size = 4
    Capacity = 3
    Hashes <- AllHashes
    Empty = Empty
    None = None
INVARIANTS Finds
