------------------------------- MODULE NodeTree -------------------------------
(***************************************************************************)
(* The node tree of the audio thread (src/src/node/mod.rs): commands change   *)
(* it between the slices of a block; in a slice the synths run, and those     *)
(* that have finished queue their done action, or pause themselves; at the    *)
(* block's end the queue is applied, one entry for each step, by node id.     *)
(***************************************************************************)
EXTENDS Trees, FiniteSets

CONSTANTS
    Parallel,                   \* the groups whose children run at once
    Endings,                    \* done actions to consider: functions on SynthIds
    MaxSlices,                  \* bound: slices of a block
    MaxPaused                   \* bound: nodes paused by command at once

ASSUME NodeTreeAssumption ==
    /\ Parallel \subseteq GroupIds \cup {Root}
    /\ Endings \subseteq [SynthIds -> Freeing \cup {"PauseSelf"}]
    /\ MaxSlices \in Nat \ {0} /\ MaxPaused \in Nat

VARIABLES
    ending,                     \* a synth's done action
    tree,
    finished,                   \* synths whose done action is up
    queue,                      \* done_nodes: the ids whose action is due
    slices,                     \* slices of this block so far
    draining                    \* the block is over, its queue being applied

vars == <<ending, tree, finished, queue, slices, draining>>

-----------------------------------------------------------------------------
(* Commands                                                                  *)

Now == Start(tree)

Command(x) ==
    /\ ~ draining
    /\ tree' = x.tree
    /\ finished' = finished \cap Live(x.tree)
    /\ UNCHANGED <<ending, queue, slices, draining>>

\* A node takes an id as soon as no node of the tree has it, one whose done action
\* is still queued included: the action will then be applied to the new node.
Add(n, target, action) ==
    /\ MayInsert(tree, n, target, action)
    /\ FitsInsert(tree, target, action)
    /\ Command(Insert(Now, n, n \in GroupIds, target, action))

FreeNode(n) == n \in Live(tree) \ {Root} /\ Command(Free(Now, n))
FreeAllIn(g) == g \in Groups(tree) /\ Command(FreeAll(Now, g))
DeepFreeIn(g) == g \in Groups(tree) /\ Command(DeepFree(Now, g))

MoveNode(n, target, place) ==
    /\ MayMove(tree, n, target, place)
    /\ FitsMove(tree, n, target, place)
    /\ Command([Now EXCEPT !.tree = Move(@, n, target, place)])

RunNode(n, run) ==
    /\ n \in Live(tree)
    /\ run \/ Cardinality(tree.paused) < MaxPaused
    /\ Command(Pause(Now, n, ~ run))

-----------------------------------------------------------------------------
(* A block                                                                   *)

Runs(n) == n \in Synths(tree) /\ Above(tree, n) \cap tree.paused = {}

\* One synth runs before another unless they are under children of a parallel
\* group that run at once.
Before(m, n) ==
    LET a == Above(tree, m)
        b == Above(tree, n)
        fork == CHOOSE g \in a \cap b : \A h \in a \cap b : h \in Above(tree, g)
        place(up) == At(tree, CHOOSE c \in up : tree.parent[c] = fork)
    IN  fork \notin Parallel /\ place(a) < place(b)

\* Mutant: the count of entries wraps round instead of stopping.
KeptModulo(s) == SubSeq(s, 1, Len(s) % MaxNodes)

\* Entries beyond the queue's size are dropped.
Kept(s) == SubSeq(s, 1, IF Len(s) < MaxNodes THEN Len(s) ELSE MaxNodes)

\* The synths of F, of those that run, have their done action up in this slice.
Slice(F) ==
    /\ ~ draining /\ slices < MaxSlices
    /\ finished' = {n \in finished : ~ Runs(n)} \cup F
    /\ tree' = [tree EXCEPT !.paused = @ \cup {n \in F : ending[n] = "PauseSelf"}]
    /\ \E s \in SetToSeqs({n \in F : ending[n] # "PauseSelf"}) :
          /\ \A i, j \in DOMAIN s : i < j => ~ Before(s[j], s[i])
          /\ queue' = Kept(queue \o s)
    /\ slices' = slices + 1
    /\ UNCHANGED <<ending, draining>>

EndBlock ==
    /\ ~ draining /\ slices > 0
    /\ slices' = 0
    /\ draining' = (queue # << >>)
    /\ UNCHANGED <<ending, tree, finished, queue>>

Drain ==
    /\ draining
    /\ tree' = Apply(Now, Head(queue), ending[Head(queue)]).tree
    /\ finished' = finished \cap Live(tree')
    /\ queue' = Tail(queue)
    /\ draining' = (queue' # << >>)
    /\ UNCHANGED <<ending, slices>>

-----------------------------------------------------------------------------

Init ==
    /\ ending \in Endings
    /\ tree = RootOnly
    /\ finished = {}
    /\ queue = << >>
    /\ slices = 0
    /\ draining = FALSE

Next ==
    \/ \E n \in Ids, target \in Live(tree), action \in AddActions : Add(n, target, action)
    \/ \E n \in Live(tree) : FreeNode(n) \/ FreeAllIn(n) \/ DeepFreeIn(n)
    \/ \E n, target \in Live(tree), place \in Places : MoveNode(n, target, place)
    \/ \E n \in Live(tree), run \in BOOLEAN : RunNode(n, run)
    \/ \E F \in SUBSET {n \in Synths(tree) : Runs(n)} : Slice(F)
    \/ EndBlock
    \/ Drain

\* The audio thread processes block after block: weak fairness of its slices, block
\* ends and drains, written out, with when each can be taken and what it alone does.
Fairness ==
    /\ []<>(draining \/ slices = MaxSlices) \/ []<><<slices' = slices + 1>>_slices
    /\ []<>(draining \/ slices = 0) \/ []<><<slices' = 0>>_slices
    /\ []<>~draining \/ []<><<draining /\ queue' = Tail(queue)>>_queue

Spec == Init /\ [][Next]_vars /\ Fairness

-----------------------------------------------------------------------------

\* The tree is one whatever is added, freed and moved, and nothing overflows: the
\* slab and the lists of children hold what they were allocated for.
Forest ==
    /\ IsForest(tree)
    /\ tree.paused \subseteq Live(tree)
    /\ Cardinality(Live(tree)) <= MaxNodes
    /\ \A g \in Groups(tree) \ {Root} : Len(tree.kids[g]) <= MaxChildren

\* Whatever operation comes next reports exactly the nodes that leave the tree,
\* once each, with the parent they had, a group before what was in it.
Operations ==
    {Free(Now, n) : n \in Live(tree)}
    \cup {FreeAll(Now, g) : g \in Groups(tree)}
    \cup {DeepFree(Now, g) : g \in Groups(tree)}
    \cup {Apply(Now, n, action) : n \in Synths(tree), action \in Freeing}

ReportsDeaths ==
    \A x \in Operations :
        LET n == [i \in DOMAIN x.deaths |-> x.deaths[i][1]] IN
          /\ ToSet(n) = Live(tree) \ Live(x.tree)
          /\ \A i \in DOMAIN n : x.deaths[i][2] = tree.parent[n[i]]
          /\ \A i, j \in DOMAIN n : i < j => n[i] # n[j] /\ tree.parent[n[i]] # n[j]

\* What a done action frees, by its description (the DoneAction enum): the node
\* and whole subtrees about it, or the synths of one.
Under(t, S) == {m \in Live(t) : Above(t, m) \cap S # {}}

Doomed(t, n, action) ==
    LET row == t.kids[t.parent[n]]
        prev == Sibling(t, n, -1)
        next == Sibling(t, n, 1)
        before == {m \in ToSet(row) : At(t, m) < At(t, n)}
        after == {m \in ToSet(row) : At(t, m) > At(t, n)}
        emptied(m) == IF m \in Groups(t) THEN Under(t, {m}) \ {m} ELSE {m}
    IN  CASE action = "FreeSelfAndPrev" -> Under(t, {n, prev})
          [] action = "FreeSelfAndNext" -> Under(t, {n, next})
          [] action = "FreeSelfToHead" -> Under(t, {n} \cup before)
          [] action = "FreeSelfToTail" -> Under(t, {n} \cup after)
          [] action = "FreeSelfAndFreeAllInPrev" -> {n} \cup (emptied(prev) \cap Live(t))
          [] action = "FreeSelfAndFreeAllInNext" -> {n} \cup (emptied(next) \cap Live(t))
          [] action = "FreeSelfAndDeepFreePrev" -> {n} \cup (Under(t, {prev}) \cap Synths(t))
          [] action = "FreeSelfAndDeepFreeNext" -> {n} \cup (Under(t, {next}) \cap Synths(t))
          [] action = "FreeAllInGroup" -> Under(t, ToSet(row))
          [] action = "FreeGroup" /\ t.parent[n] # Root -> Under(t, {t.parent[n]})
          [] OTHER -> {n}

\* The nodes a done action leaves paused: it may pause or resume a neighbour.
StillPaused(t, n, action) ==
    LET doomed == Doomed(t, n, action)
        beside(delta) == {Sibling(t, n, delta)} \ {NoNode}
    IN  CASE action = "FreeSelfPausePrev" -> (t.paused \ doomed) \cup beside(-1)
          [] action = "FreeSelfPauseNext" -> (t.paused \ doomed) \cup beside(1)
          [] action = "FreeSelfResumeNext" -> t.paused \ (doomed \cup beside(1))
          [] OTHER -> t.paused \ doomed

\* A done action frees what its description says of the tree it meets, pauses or
\* resumes the neighbour it names, and leaves the rest where and in the order it was.
DoneActionAsDescribed ==
    \A n \in Synths(tree), action \in Freeing :
        LET t == Apply(Now, n, action).tree
            doomed == Doomed(tree, n, action)
        IN  /\ IsForest(t)
            /\ Live(t) = Live(tree) \ doomed /\ Groups(t) = Groups(tree) \ doomed
            /\ \A m \in Live(t) : t.parent[m] = tree.parent[m]
            /\ \A m, k \in Live(t) \ {Root} :
                  t.parent[m] = t.parent[k] =>
                      (At(t, m) < At(t, k) <=> At(tree, m) < At(tree, k))
            /\ t.paused = StillPaused(tree, n, action)

\* No synth runs for ever with its done action up: it is freed, is paused, or
\* takes its action back, even when a block's queue has no place for all.
FinishedGo ==
    \A n \in SynthIds : []<>(n \notin finished \/ ~ Runs(n))
=============================================================================
