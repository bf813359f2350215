-------------------------------- MODULE Trees --------------------------------
(***************************************************************************)
(* The operations of the node tree (src/src/node/mod.rs), as functions from  *)
(* trees to trees.  A tree gives each live node its parent and each live      *)
(* group its children in order; nodes are named by their ids, the slab slot   *)
(* behind an id being IdIndex's matter.                                       *)
(*                                                                           *)
(* Operations that free nodes work on a tree with the deaths reported so far: *)
(* one <<id, parent>> for each node, as the sink receives them.               *)
(***************************************************************************)
EXTENDS Integers, SequencesExt

CONSTANTS
    Root,                       \* ROOT_NODE_ID
    NoNode,                     \* no id
    SynthIds, GroupIds,         \* the ids to be given to synths and to groups
    MaxNodes,                   \* the slab's size, the root included
    MaxChildren                 \* children a group's list is allocated for

ASSUME TreesAssumption ==
    /\ MaxNodes \in Nat \ {0} /\ MaxChildren \in Nat
    /\ Root # NoNode /\ {Root, NoNode} \cap (SynthIds \cup GroupIds) = {}
    /\ SynthIds \cap GroupIds = {}

Ids == SynthIds \cup GroupIds

Places == {"head", "tail", "before", "after"}
AddActions == Places \cup {"replace"}

Live(t) == DOMAIN t.parent
Groups(t) == DOMAIN t.kids
Synths(t) == Live(t) \ Groups(t)

\* A tree before an operation that may free.
Start(t) == [tree |-> t, deaths |-> << >>]

RootOnly ==
    [parent |-> [n \in {Root} |-> NoNode], kids |-> [g \in {Root} |-> << >>], paused |-> {}]

\* Links agree and no node is its own ancestor: a child is listed once, by its
\* parent, and every set of nodes has one whose parent is outside it.
IsForest(t) ==
    /\ \A g \in Groups(t) :
          /\ \A i, j \in DOMAIN t.kids[g] : t.kids[g][i] = t.kids[g][j] => i = j
          /\ ToSet(t.kids[g]) = {n \in Live(t) : t.parent[n] = g}
    /\ \A S \in SUBSET (Live(t) \ {Root}) :
          S # {} => \E n \in S : t.parent[n] \in Live(t) \ S

\* A node's place in its group's list.
At(t, n) == SelectInSeq(t.kids[t.parent[n]], LAMBDA m : m = n)

\* A node and its ancestors.
Above(t, n) ==
    LET up[m \in Live(t)] == {m} \cup (IF m = Root THEN {} ELSE up[t.parent[m]])
    IN  up[n]

\* The node beside n in its group, if there is one.
Sibling(t, n, delta) ==
    IF n \notin Live(t) \ {Root} THEN NoNode
    ELSE LET row == t.kids[t.parent[n]]
             at == At(t, n) + delta
         IN  IF at \in DOMAIN row THEN row[at] ELSE NoNode

-----------------------------------------------------------------------------
(* Freeing                                                                   *)

Unlink(t, n) == [t EXCEPT !.kids[t.parent[n]] = RemoveAt(@, At(t, n))]

Without(t, gone) ==
    [parent |-> Restrict(t.parent, Live(t) \ gone),
     kids |-> Restrict(t.kids, Groups(t) \ gone),
     paused |-> t.paused \ gone]

\* Mutant: a group is visited once its children are.
ByStackLast(t, n) ==
    LET walk[m \in Live(t)] ==
            IF m \notin Groups(t) THEN <<m>>
            ELSE Append(FlattenSeq([i \in DOMAIN t.kids[m] |-> walk[t.kids[m][i]]]), m)
    IN  walk[n]

\* One turn of the stack of nodes to visit: the last is popped, and a group's
\* children are pushed in order.
Turn(t, s) ==
    IF s.stack = << >> THEN s
    ELSE LET m == Last(s.stack)
         IN  [stack |-> Front(s.stack) \o (IF m \in Groups(t) THEN t.kids[m] ELSE << >>),
              order |-> Append(s.order, m)]

\* The order the stack gives: it is empty after a turn for each node.
ByStack(t, n) ==
    LET after[k \in 0 .. Cardinality(Live(t))] ==
            IF k = 0 THEN [stack |-> <<n>>, order |-> << >>] ELSE Turn(t, after[k - 1])
    IN  after[Cardinality(Live(t))].order

Free(x, n) ==
    IF n \notin Live(x.tree) \ {Root} THEN x
    ELSE LET t == x.tree
             order == ByStack(t, n)
         IN  [tree |-> Without(Unlink(t, n), ToSet(order)),
              deaths |-> x.deaths \o [i \in DOMAIN order |->
                                        <<order[i], t.parent[order[i]]>>]]

\* Each of a row is freed but those spared.
FreeEach(x, row, spared) ==
    LET after[k \in 0 .. Len(row)] ==
            IF k = 0 THEN x
            ELSE IF row[k] \in spared THEN after[k - 1] ELSE Free(after[k - 1], row[k])
    IN  after[Len(row)]

\* Children leave from the last to the first.
FreeAll(x, g) ==
    IF g \notin Groups(x.tree) THEN x
    ELSE FreeEach(x, Reverse(x.tree.kids[g]), {})

\* Synths at any depth, those of a group after those of the groups about it; the
\* groups stay.
DeepFree(x, g) ==
    IF g \notin Groups(x.tree) THEN x
    ELSE LET t == x.tree
             order == ByStack(t, g)
             after[k \in 0 .. Len(order)] ==
                 IF k = 0 THEN x
                 ELSE IF order[k] \notin Groups(t) THEN after[k - 1]
                 ELSE FreeEach(after[k - 1], t.kids[order[k]], Groups(t))
         IN  after[Len(order)]

FreeEnclosing(x, n) ==
    IF n \notin Live(x.tree) \ {Root} THEN x
    ELSE IF x.tree.parent[n] = Root THEN Free(x, n)
    ELSE Free(x, x.tree.parent[n])

-----------------------------------------------------------------------------
(* Adding and moving                                                         *)

\* The group a node is placed in.
Destination(t, target, action) ==
    IF action \in {"head", "tail"} THEN target ELSE t.parent[target]

HasRoom(t, g) == g = Root \/ Len(t.kids[g]) < MaxChildren

\* What both sides check of a target.
IsPlace(t, target, action) ==
    /\ target \in Live(t)
    /\ IF action \in {"head", "tail"} THEN target \in Groups(t) ELSE target # Root

MayInsert(t, n, target, action) ==
    n \notin Live(t) /\ IsPlace(t, target, action)

\* What only the engine checks.
FitsInsert(t, target, action) ==
    /\ Cardinality(Live(t)) < MaxNodes
    /\ action = "replace" \/ HasRoom(t, Destination(t, target, action))

Position(t, g, target, action) ==
    CASE action = "head" -> 1
      [] action = "tail" -> Len(t.kids[g]) + 1
      [] action \in {"before", "replace"} -> At(t, target)
      [] action = "after" -> At(t, target) + 1

\* A map with one more entry.
With(f, n, e) == [m \in DOMAIN f \cup {n} |-> IF m = n THEN e ELSE f[m]]

\* The tree with n in g, at a place of its row.
Placed(t, n, g, at, isGroup) ==
    LET kids == [t.kids EXCEPT ![g] = InsertAt(@, at, n)]
    IN  [t EXCEPT !.parent = With(@, n, g),
                  !.kids = IF isGroup THEN With(kids, n, << >>) ELSE kids]

Insert(x, n, isGroup, target, action) ==
    LET g == Destination(x.tree, target, action)
        at == Position(x.tree, g, target, action)
        y == IF action = "replace" THEN Free(x, target) ELSE x
    IN  [y EXCEPT !.tree = Placed(@, n, g, at, isGroup)]

\* Mutant: a group may be moved under itself.
MayMoveAnywhere(t, n, target, place) ==
    /\ n # Root /\ n # target
    /\ n \in Live(t)
    /\ IsPlace(t, target, place)

MayMove(t, n, target, place) ==
    /\ n # Root /\ n # target
    /\ n \in Live(t)
    /\ IsPlace(t, target, place)
    /\ n \notin Above(t, Destination(t, target, place))

FitsMove(t, n, target, place) ==
    LET g == Destination(t, target, place) IN g # t.parent[n] => HasRoom(t, g)

Move(t, n, target, place) ==
    LET g == Destination(t, target, place)
        u == Unlink(t, n)
        at == Position(u, g, target, place)
    IN  [u EXCEPT !.kids[g] = InsertAt(@, at, n), !.parent[n] = g]

SetPaused(t, n, paused) ==
    IF n \notin Live(t) THEN t
    ELSE [t EXCEPT !.paused = IF paused THEN @ \cup {n} ELSE @ \ {n}]

-----------------------------------------------------------------------------
(* Done actions                                                              *)

\* Mutant: the neighbour is looked for once the node is gone.
NeighbourAfter(x, n, delta) == Sibling(Free(x, n).tree, n, delta)

\* The neighbour a done action of n is about: resolved before n is freed.
Neighbour(x, n, delta) == Sibling(x.tree, n, delta)

\* Frees n's neighbours on one side, the nearest first.
FreeSide(x, n, delta) ==
    LET row == x.tree.kids[x.tree.parent[n]]
        at == At(x.tree, n)
        side == IF delta < 0 THEN Reverse(SubSeq(row, 1, at - 1))
                ELSE SubSeq(row, at + 1, Len(row))
    IN  FreeEach(x, side, {})

FreeOrFreeAll(x, n) == IF n \in Groups(x.tree) THEN FreeAll(x, n) ELSE Free(x, n)
FreeOrDeepFree(x, n) == IF n \in Groups(x.tree) THEN DeepFree(x, n) ELSE Free(x, n)
Pause(x, n, paused) == [x EXCEPT !.tree = SetPaused(@, n, paused)]

\* The freeing done actions by their names; a node already gone has none of its
\* neighbours left either.
Apply(x, n, action) ==
    LET prev == Neighbour(x, n, -1)
        next == Neighbour(x, n, 1)
        freed == Free(x, n)
    IN  IF n \notin Live(x.tree) THEN x
        ELSE CASE action = "FreeSelf" -> freed
               [] action = "FreeSelfAndPrev" -> Free(freed, prev)
               [] action = "FreeSelfAndNext" -> Free(freed, next)
               [] action = "FreeSelfAndFreeAllInPrev" -> FreeOrFreeAll(freed, prev)
               [] action = "FreeSelfAndFreeAllInNext" -> FreeOrFreeAll(freed, next)
               [] action = "FreeSelfToHead" -> Free(FreeSide(x, n, -1), n)
               [] action = "FreeSelfToTail" -> Free(FreeSide(x, n, 1), n)
               [] action = "FreeSelfPausePrev" -> Pause(freed, prev, TRUE)
               [] action = "FreeSelfPauseNext" -> Pause(freed, next, TRUE)
               [] action = "FreeSelfResumeNext" -> Pause(freed, next, FALSE)
               [] action = "FreeSelfAndDeepFreePrev" -> FreeOrDeepFree(freed, prev)
               [] action = "FreeSelfAndDeepFreeNext" -> FreeOrDeepFree(freed, next)
               [] action = "FreeAllInGroup" -> FreeAll(x, x.tree.parent[n])
               [] action = "FreeGroup" -> FreeEnclosing(x, n)

Freeing ==
    {"FreeSelf", "FreeSelfAndPrev", "FreeSelfAndNext", "FreeSelfAndFreeAllInPrev",
     "FreeSelfAndFreeAllInNext", "FreeSelfToHead", "FreeSelfToTail",
     "FreeSelfPausePrev", "FreeSelfPauseNext", "FreeSelfResumeNext",
     "FreeSelfAndDeepFreePrev", "FreeSelfAndDeepFreeNext", "FreeAllInGroup",
     "FreeGroup"}
=============================================================================
