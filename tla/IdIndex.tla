------------------------------- MODULE IdIndex -------------------------------
(***************************************************************************)
(* The node tree's table from node ids to slots (src/src/node/index.rs):    *)
(* open addressing with linear probing, and removal by backward shift, which *)
(* leaves no tombstone.  A removal is one step for each turn of its loop;    *)
(* nothing else happens meanwhile, since the audio thread owns the table.    *)
(***************************************************************************)
EXTENDS Integers, FiniteSets

CONSTANTS
    NodeIds,                    \* node ids
    Slots,                      \* places in the slab: numbers from 0
    Size,                       \* cells of the table, a power of two in the code
    Capacity,                   \* nodes the slab holds
    Hashes,                     \* the hashes to consider: [NodeIds -> 0 .. Size - 1]
    Empty,                      \* EMPTY, a key no node has
    None                        \* no slot

Cells == 0 .. Size - 1

ASSUME IndexAssumption ==
    /\ Capacity \in Nat /\ Size \in Nat \ {0}
    /\ Capacity < Size          \* the code takes twice the slab
    /\ Hashes \subseteq [NodeIds -> Cells]
    /\ 0 \in Slots
    /\ Empty \notin NodeIds /\ None \notin NodeIds \cup Slots

VARIABLES
    home,                       \* the hash in use
    keys, slots,                \* the table
    leaving,                    \* the id being removed, or None
    hole, scan,                 \* locals of the removal
    known                       \* history: what was recorded of each id

indexVars == <<home, keys, slots, leaving, hole, scan, known>>

Held == {id \in NodeIds : known[id] # None}

-----------------------------------------------------------------------------

\* Steps a probe takes from cell a to cell b.
Ahead(a, b) == IF a <= b THEN b - a ELSE b - a + Size

NextCell(c) == IF c + 1 = Size THEN 0 ELSE c + 1

\* The probe for id stops on c: the first cell from its home that is empty or
\* holds it.
StopsAt(id, c) ==
    /\ keys[c] \in {Empty, id}
    /\ \A d \in Cells :
            Ahead(home[id], d) < Ahead(home[id], c) => keys[d] \notin {Empty, id}

Lookup(id) ==
    LET c == CHOOSE d \in Cells : StopsAt(id, d)
    IN  IF keys[c] = Empty THEN None ELSE slots[c]

\* Mutant: the wrapped table is treated as a straight one.
StaysStraight(c) == hole < home[keys[c]] /\ home[keys[c]] <= c

\* An entry at cell c stays where it is unless the hole is on its path.
Stays(c) ==
    IF hole <= c
    THEN hole < home[keys[c]] /\ home[keys[c]] <= c
    ELSE hole < home[keys[c]] \/ home[keys[c]] <= c

-----------------------------------------------------------------------------

Idle == leaving = None

\* The slab has a slot left for the node.
Room(id) == Cardinality(Held \cup {id}) <= Capacity

InsertKey(id, s) ==
    /\ Idle
    /\ Room(id)
    /\ \E c \in Cells :
          /\ StopsAt(id, c)
          /\ keys' = [keys EXCEPT ![c] = id]
          /\ slots' = [slots EXCEPT ![c] = s]
    /\ known' = [known EXCEPT ![id] = s]
    /\ UNCHANGED <<home, leaving, hole, scan>>

\* An id the table does not hold is left at that, on the first empty cell.
RemoveKey(id) ==
    /\ Idle
    /\ \E c \in Cells :
          /\ StopsAt(id, c)
          /\ keys[c] = id
          /\ hole' = c
          /\ scan' = c
    /\ leaving' = id
    /\ known' = [known EXCEPT ![id] = None]
    /\ UNCHANGED <<home, keys, slots>>

\* One turn of the loop over a cell in use: its entry moves back into the hole,
\* or stays.
Shift ==
    /\ ~ Idle
    /\ LET c == NextCell(scan) IN
          /\ keys[c] # Empty
          /\ scan' = c
          /\ \/ Stays(c) /\ UNCHANGED <<keys, slots, hole>>
             \/ /\ ~ Stays(c)
                /\ keys' = [keys EXCEPT ![hole] = keys[c]]
                /\ slots' = [slots EXCEPT ![hole] = slots[c]]
                /\ hole' = c
    /\ UNCHANGED <<home, leaving, known>>

Close ==
    /\ ~ Idle
    /\ keys[NextCell(scan)] = Empty
    /\ keys' = [keys EXCEPT ![hole] = Empty]
    /\ leaving' = None
    /\ hole' = 0 /\ scan' = 0
    /\ UNCHANGED <<home, slots, known>>

IndexInit ==
    /\ home \in Hashes
    /\ keys = [c \in Cells |-> Empty]
    /\ slots = [c \in Cells |-> 0]
    /\ leaving = None
    /\ hole = 0 /\ scan = 0
    /\ known = [id \in NodeIds |-> None]

IndexNext ==
    \/ \E id \in NodeIds, s \in Slots : InsertKey(id, s)
    \/ \E id \in NodeIds : RemoveKey(id)
    \/ Shift
    \/ Close

IndexSpec == IndexInit /\ [][IndexNext]_indexVars

-----------------------------------------------------------------------------

\* The table's types; while an id is being removed it is one of the ids.
IndexTypes ==
    /\ home \in Hashes
    /\ keys \in [Cells -> NodeIds \cup {Empty}]
    /\ slots \in [Cells -> Slots]
    /\ leaving \in NodeIds \cup {None}
    /\ hole \in Cells /\ scan \in Cells
    /\ known \in [NodeIds -> Slots \cup {None}]

\* Between operations every id is found in the slot last recorded for it, and
\* one that was removed is not found, whatever was inserted and removed since.
Finds == Idle => \A id \in NodeIds : Lookup(id) = known[id]
=============================================================================
