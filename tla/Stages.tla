-------------------------------- MODULE Stages --------------------------------
(***************************************************************************)
(* A parallel group's walk over one slice (NodeTree::process_parallel in     *)
(* src/src/node/mod.rs): its children are cut into stages by the buses they  *)
(* use, and a stage of two or more is handed to the pool, which promises     *)
(* ForkJoin and no order among the members.                                  *)
(*                                                                           *)
(* A child, a synth or a whole subgroup, is the sequence of accesses its own *)
(* walk makes to buses; a paused one makes none.  A cell holds the list of the writes *)
(* made to it, since buses are sums and a sum of floats depends on its order.*)
(***************************************************************************)
EXTENDS Integers, Sequences

CONSTANTS
    Groups,                     \* the groups a slice may find: sequences of Child
    StageLanes                  \* STAGE_LANES: buses fold into this many lanes

Access == [op : {"read", "write"},
           kind : {"audio", "control"},
           index : Nat]

Child == [acts : Seq(Access),
          dynamic : BOOLEAN]    \* some access is on a bus a signal chooses

ASSUME StagesAssumption ==
    /\ StageLanes \in Nat \ {0}
    /\ Groups \subseteq Seq(Child)

VARIABLES
    group,                      \* children in order
    lo, hi,                     \* the stage under way is lo .. hi - 1
    made,                       \* accesses each child has made
    cells,                      \* what each cell holds: the writes made to it
    heard,                      \* what each child has read, with the access that did
    phase, left                 \* the pool, as ForkJoin sees it

walk == <<group, lo, hi>>
memory == <<made, cells, heard>>
pool == <<phase, left>>
stagesVars == <<group, lo, hi, made, cells, heard, phase, left>>

Pool == INSTANCE ForkJoin WITH Sizes <- Nat

Members == 1 .. Len(group)
Acts(c) == group[c].acts
Cell(a) == <<a.kind, a.index>>
Ahead(c) == Acts(c)[made[c] + 1]
Finished(c) == made[c] = Len(Acts(c))

-----------------------------------------------------------------------------
(* What the engine knows of a child: lanes of the buses it reads and writes.*)

Lane(a) == a.index % StageLanes

Lanes(c, op) ==
    IF group[c].dynamic
    THEN {}
    ELSE {Lane(Acts(c)[k]) : k \in {l \in 1 .. Len(Acts(c)) : Acts(c)[l].op = op}}

\* Mutant: only writers are kept apart.
WritersApart(c, d) == Lanes(c, "write") \cap Lanes(d, "write") # {}

\* A child closes the stage when it writes what the stage reads or writes, or
\* reads what it writes.
Conflict(c, d) ==
    \/ Lanes(c, "write") \cap (Lanes(d, "read") \cup Lanes(d, "write")) # {}
    \/ Lanes(c, "read") \cap Lanes(d, "write") # {}

\* Mutant: a child is only held against the one before it.
JoinsNeighbour(i, c) ==
    ~ group[c].dynamic /\ ~ Conflict(c, c - 1)

Joins(i, c) ==
    /\ ~ group[c].dynamic
    /\ \A d \in i .. c - 1 : ~ Conflict(c, d)

\* Where the stage that opens at child i ends: the first child that cannot join
\* it; one that is dynamic is a stage of its own.
StageEnd(i) ==
    IF group[i].dynamic
    THEN i + 1
    ELSE CHOOSE j \in i + 1 .. Len(group) + 1 :
             /\ \A c \in i + 1 .. j - 1 : Joins(i, c)
             /\ j \in Members => ~ Joins(i, j)

-----------------------------------------------------------------------------

\* The cells a group's children use, and nothing written to them yet.  A cell
\* lists the writes of this slice only: what it held before is the same for all.
Unwritten(g) ==
    LET acts == UNION {{g[c].acts[k] : k \in 1 .. Len(g[c].acts)} : c \in 1 .. Len(g)}
    IN [x \in {Cell(a) : a \in acts} |-> <<>>]

StagesInit ==
    /\ group \in Groups
    /\ lo = 1 /\ hi = 1
    /\ made = [c \in Members |-> 0]
    /\ cells = Unwritten(group)
    /\ heard = [c \in Members |-> <<>>]
    /\ Pool!Init

\* The next stage: two or more go to the pool, one is walked in place.
Open ==
    /\ lo = hi /\ lo \in Members
    /\ hi' = StageEnd(lo)
    /\ IF hi' - lo >= 2 THEN Pool!Begin(hi' - lo) ELSE UNCHANGED pool
    /\ UNCHANGED <<group, lo, memory>>

\* A member of the stage makes its next access: which one moves is open.
Touch(c) ==
    LET a == Ahead(c) IN
    /\ c \in lo .. hi - 1 /\ ~ Finished(c)
    /\ made' = [made EXCEPT ![c] = @ + 1]
    /\ IF a.op = "read"
       THEN /\ heard' = [heard EXCEPT ![c] = Append(@, <<made[c] + 1, cells[Cell(a)]>>)]
            /\ UNCHANGED cells
       ELSE /\ cells' = [cells EXCEPT ![Cell(a)] = Append(@, <<c, made[c] + 1>>)]
            /\ UNCHANGED heard
    /\ UNCHANGED <<walk, pool>>

\* A visitor of the pool has walked a member of the stage to its end.
Visited(c) ==
    /\ c \in lo .. hi - 1 /\ Finished(c)
    /\ Pool!Process(c - lo)
    /\ UNCHANGED <<walk, memory>>

\* run_stage returns, or the one child walked in place is finished.
Close ==
    /\ lo < hi
    /\ IF hi - lo >= 2 THEN Pool!Return ELSE Finished(lo) /\ UNCHANGED pool
    /\ lo' = hi
    /\ UNCHANGED <<group, hi, memory>>

\* The walk is over; commands may have changed the group by the next slice.
NextSlice ==
    /\ lo = hi /\ lo \notin Members
    /\ group' \in Groups
    /\ lo' = 1 /\ hi' = 1
    /\ made' = [c \in 1 .. Len(group') |-> 0]
    /\ cells' = Unwritten(group')
    /\ heard' = [c \in 1 .. Len(group') |-> <<>>]
    /\ UNCHANGED pool

StagesNext ==
    \/ Open
    \/ \E c \in Members : Touch(c) \/ Visited(c)
    \/ Close
    \/ NextSlice

StagesSpec == StagesInit /\ [][StagesNext]_stagesVars

-----------------------------------------------------------------------------
(* Properties. *)

\* Two accesses the order of which can be heard.
Ordered(a, b) ==
    Cell(a) = Cell(b) /\ "write" \in {a.op, b.op}

\* Buses are used in child order: by the time a child uses one, every earlier
\* child has made each access to that bus that comes before it in a sequential
\* walk.  This is what the safety of the unsynchronised bus cells rests on.
BusesInOrder ==
    \A c, d \in Members : c < d =>
        \A k \in 1 .. Len(Acts(c)), l \in 1 .. made[d] :
            Ordered(Acts(c)[k], Acts(d)[l]) => k <= made[c]

\* The accesses a sequential walk makes, as <<child, place>>, and their order.
Accesses == UNION {{<<c, k>> : k \in 1 .. Len(Acts(c))} : c \in Members}
AccessAt(p) == Acts(p[1])[p[2]]
Earlier(p, q) == p[1] < q[1] \/ (p[1] = q[1] /\ p[2] < q[2])

\* The writes that a sequential walk makes to the bus of access p before it.
WrittenBefore(p) ==
    {q \in Accesses : /\ Earlier(q, p)
                      /\ AccessAt(q).op = "write" /\ Cell(AccessAt(q)) = Cell(AccessAt(p))}

InWalkOrder(s) == \A m, n \in DOMAIN s : m < n => Earlier(s[m], s[n])

\* Whatever the interleaving, a child reads exactly what it would read in a
\* sequential walk, and the writes to a cell come in the order of one: parallel
\* rendering is bit-identical to sequential rendering (NodeTree::process_parallel).
SameAsSequential ==
    /\ \A c \in Members : \A n \in DOMAIN heard[c] :
           LET writes == heard[c][n][2]
           IN  /\ {writes[m] : m \in DOMAIN writes} = WrittenBefore(<<c, heard[c][n][1]>>)
               /\ InWalkOrder(writes)
    /\ \A x \in DOMAIN cells : InWalkOrder(cells[x])
=============================================================================
