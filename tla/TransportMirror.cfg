SPECIFICATION Spec
CONSTANTS
    Transports = {t1, t2}
    GroupIds = {g1}
    Places = {p1}
    Start = Start
    None = None
    Loops = {l1}
    Given = {"fade", "defined"}
    Born = {g1}
    FifoSize = 3
    Bounds <- Some
SYMMETRY Alike
INVARIANTS Agree OneTransport NoneLeftFrozen
