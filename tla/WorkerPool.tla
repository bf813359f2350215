------------------------------ MODULE WorkerPool ------------------------------
(***************************************************************************)
(* The fork-join pool that runs the stages of a parallel group               *)
(* (src/src/server/workers.rs).  The conductor, which is the audio thread,   *)
(* publishes one job at a time behind an epoch that is odd while the job is  *)
(* being rewritten; workers notice a new even epoch, register, validate it,  *)
(* and then take items off the stage beside the conductor until none is left *)
(* -- or park when nothing comes for a while.  Dropping the pool shuts it    *)
(* down and joins the workers.                                               *)
(*                                                                          *)
(* A step is one atomic operation on the shared words, or the work of one    *)
(* item.  A worker may park after any number of polls.  A worker's store to  *)
(* its own state is Relaxed, and the load of the epoch after it may be       *)
(* answered first: Lands is that store reaching the other threads, at the    *)
(* latest with the worker's next read-modify-write.  A park may return with  *)
(* no reason, as std's does.  The meters are left out.                       *)
(***************************************************************************)
EXTENDS Naturals, FiniteSets

CONSTANTS
    Workers,        \* the pool's threads
    Conductor,      \* the thread that calls run_stage
    Sizes,          \* sizes of the stages it is handed
    MaxStages,      \* bound: stages in a behaviour
    NoJob,          \* Job::EMPTY
    NoItem

Threads == Workers \union {Conductor}

ASSUME PoolAssumption ==
    /\ IsFiniteSet(Workers) /\ Conductor \notin Workers
    /\ Sizes \subseteq Nat /\ MaxStages \in Nat
    /\ NoItem \notin Nat /\ NoJob \notin [stage: Nat, len: Nat]

VARIABLES
    epoch, job, cursor, remaining, active, shutdown,    \* Shared
    states,         \* Shared::states, as the other threads see it
    stored,         \* the state a worker stored last
    token,          \* thread::unpark's token
    pc,
    seen,           \* worker: the epoch of the last stage it joined
    got,            \* worker: the even epoch it polled
    mine,           \* the job a thread is working through
    item,           \* the item it holds
    turn,           \* conductor: workers it has still to look at
    begun,          \* stages begun
    done            \* history: items processed, as <<stage, item>>

shared == <<epoch, job, cursor, remaining, active, shutdown>>
parking == <<states, stored, token>>
own == <<seen, got, mine, item>>
vars == <<shared, parking, pc, own, turn, begun, done>>

Goto(t, label) == pc' = [pc EXCEPT ![t] = label]
-----------------------------------------------------------------------------
(* The grab loop, the same for the conductor and a worker. *)

\* Mutant: the last index is one short of the stage.
TakeOneLess(t, k) == k + 1 < mine[t].len
InStage(t, k) == k < mine[t].len

Grab(t) ==
    /\ pc[t] = "grab"
    /\ cursor' = cursor + 1
    /\ IF InStage(t, cursor)
       THEN item' = [item EXCEPT ![t] = cursor] /\ Goto(t, "work")
       ELSE Goto(t, IF t = Conductor THEN "finish" ELSE "leave")
            /\ UNCHANGED item
    /\ UNCHANGED <<epoch, job, remaining, active, shutdown, parking, seen, got,
                   mine, turn, begun, done>>

Work(t) ==                              \* NodeTree::process_index_seq
    /\ pc[t] = "work"
    /\ done' = done \union {<<mine[t].stage, item[t]>>}
    /\ Goto(t, "count")
    /\ UNCHANGED <<shared, parking, own, turn, begun>>

Count(t) ==
    /\ pc[t] = "count"
    /\ remaining' = remaining - 1
    /\ item' = [item EXCEPT ![t] = NoItem]
    /\ Goto(t, "grab")
    /\ UNCHANGED <<epoch, job, cursor, active, shutdown, parking, seen, got,
                   mine, turn, begun, done>>
-----------------------------------------------------------------------------
(* The conductor: WorkerPool::run_stage and Drop. *)

At(label) == pc[Conductor] = label

Begin(n) ==                             \* the odd epoch
    /\ At("idle") /\ begun < MaxStages
    /\ epoch' = epoch + 1
    /\ mine' = [mine EXCEPT ![Conductor] = [stage |-> begun, len |-> n]]
    /\ begun' = begun + 1
    /\ Goto(Conductor, "drain")
    /\ UNCHANGED <<job, cursor, remaining, active, shutdown, parking, seen, got,
                   item, turn, done>>

\* Mutant: the workers inside are not waited for.
NotAwaited == TRUE
Quiet == active = 0

Drained ==
    /\ At("drain") /\ Quiet
    /\ Goto(Conductor, "write")
    /\ UNCHANGED <<shared, parking, own, turn, begun, done>>

WriteJob ==
    /\ At("write")
    /\ job' = mine[Conductor]
    /\ Goto(Conductor, "rewind")
    /\ UNCHANGED <<epoch, cursor, remaining, active, shutdown, parking, own,
                   turn, begun, done>>

Rewind ==
    /\ At("rewind")
    /\ cursor' = 0
    /\ Goto(Conductor, "arm")
    /\ UNCHANGED <<epoch, job, remaining, active, shutdown, parking, own, turn,
                   begun, done>>

Arm ==
    /\ At("arm")
    /\ remaining' = mine[Conductor].len
    /\ Goto(Conductor, "publish")
    /\ UNCHANGED <<epoch, job, cursor, active, shutdown, parking, own, turn,
                   begun, done>>

Publish ==                              \* the even epoch
    /\ At("publish")
    /\ epoch' = epoch + 1
    /\ turn' = Workers
    /\ Goto(Conductor, "wake")
    /\ UNCHANGED <<job, cursor, remaining, active, shutdown, parking, own, begun,
                   done>>

Unpark(w) ==
    /\ At("wake") /\ w \in turn
    /\ turn' = turn \ {w}
    /\ token' = IF states[w] = "parked" THEN [token EXCEPT ![w] = TRUE] ELSE token
    /\ UNCHANGED <<shared, states, stored, pc, own, begun, done>>

Woken ==
    /\ At("wake") /\ turn = {}
    /\ Goto(Conductor, "grab")
    /\ UNCHANGED <<shared, parking, own, turn, begun, done>>

Finish ==
    /\ At("finish") /\ remaining = 0
    /\ Goto(Conductor, "settle")
    /\ UNCHANGED <<shared, parking, own, turn, begun, done>>

Return ==
    /\ At("settle") /\ Quiet
    /\ Goto(Conductor, "idle")
    /\ UNCHANGED <<shared, parking, own, turn, begun, done>>

Drop ==
    /\ At("idle")
    /\ shutdown' = TRUE
    /\ Goto(Conductor, "close")
    /\ UNCHANGED <<epoch, job, cursor, remaining, active, parking, own, turn,
                   begun, done>>

DropEpoch ==
    /\ At("close")
    /\ epoch' = epoch + 1
    /\ turn' = Workers
    /\ Goto(Conductor, "unpark")
    /\ UNCHANGED <<job, cursor, remaining, active, shutdown, parking, own, begun,
                   done>>

\* Mutant: only the ones it sees parked.
IfParked(w) == states[w] = "parked"
Always(w) == TRUE
DropUnpark(w) ==
    /\ At("unpark") /\ w \in turn
    /\ turn' = turn \ {w}
    /\ token' = [token EXCEPT ![w] = @ \/ Always(w)]
    /\ UNCHANGED <<shared, states, stored, pc, own, begun, done>>

Join ==
    /\ At("unpark") /\ turn = {}
    /\ \A w \in Workers : pc[w] = "gone"
    /\ Goto(Conductor, "dropped")
    /\ UNCHANGED <<shared, parking, own, turn, begun, done>>
-----------------------------------------------------------------------------
(* A worker: worker_main. *)

Fresh(w) == epoch # seen[w] /\ epoch % 2 = 0

\* A poll that finds a stage to join, or the pool shut down, or -- after a
\* while -- neither.
Poll(w) ==
    /\ pc[w] = "wait" /\ Fresh(w)
    /\ got' = [got EXCEPT ![w] = epoch]
    /\ Goto(w, "found")
    /\ UNCHANGED <<shared, parking, seen, mine, item, turn, begun, done>>

Quit(w) ==
    /\ \/ pc[w] = "wait" /\ ~Fresh(w)
       \/ pc[w] = "found"
    /\ shutdown
    /\ Goto(w, "gone")
    /\ UNCHANGED <<shared, parking, own, turn, begun, done>>

Flag(w) ==
    /\ pc[w] = "wait" /\ ~Fresh(w) /\ ~shutdown
    /\ stored' = [stored EXCEPT ![w] = "parked"]
    /\ Goto(w, "flagged")
    /\ UNCHANGED <<shared, states, token, own, turn, begun, done>>

Lands(w) ==
    /\ states[w] # stored[w]
    /\ states' = [states EXCEPT ![w] = stored[w]]
    /\ UNCHANGED <<shared, stored, token, pc, own, turn, begun, done>>

\* Re-check after flagging; then thread::park, which takes the token or sleeps.
StillIdle(w) == epoch = seen[w] /\ ~shutdown
Recheck(w) ==
    /\ pc[w] = "flagged"
    /\ Goto(w, IF StillIdle(w) THEN "parked" ELSE "awake")
    /\ UNCHANGED <<shared, parking, own, turn, begun, done>>

Wake(w) ==
    /\ pc[w] = "parked" /\ states[w] = stored[w] /\ token[w]
    /\ token' = [token EXCEPT ![w] = FALSE]
    /\ Goto(w, "awake")
    /\ UNCHANGED <<shared, states, stored, own, turn, begun, done>>

WakeForNothing(w) ==
    /\ pc[w] = "parked" /\ states[w] = stored[w] /\ ~token[w]
    /\ Goto(w, "awake")
    /\ UNCHANGED <<shared, parking, own, turn, begun, done>>

Unflag(w) ==
    /\ pc[w] = "awake"
    /\ stored' = [stored EXCEPT ![w] = "hot"]
    /\ Goto(w, "wait")
    /\ UNCHANGED <<shared, states, token, own, turn, begun, done>>

Register(w) ==
    /\ pc[w] = "found" /\ ~shutdown /\ states[w] = stored[w]
    /\ active' = active + 1
    /\ Goto(w, "registered")
    /\ UNCHANGED <<epoch, job, cursor, remaining, shutdown, parking, own, turn,
                   begun, done>>

\* Mutant: the epoch it polled is taken for granted.
TakenForGranted(w) == TRUE
Unchanged(w) == epoch = got[w]

Validate(w) ==
    /\ pc[w] = "registered"
    /\ IF Unchanged(w)
       THEN seen' = [seen EXCEPT ![w] = got[w]] /\ Goto(w, "read")
       ELSE Goto(w, "leave") /\ UNCHANGED seen
    /\ UNCHANGED <<shared, parking, got, mine, item, turn, begun, done>>

Read(w) ==
    /\ pc[w] = "read"
    /\ mine' = [mine EXCEPT ![w] = job]
    /\ Goto(w, IF job = NoJob THEN "leave" ELSE "grab")
    /\ UNCHANGED <<shared, parking, seen, got, item, turn, begun, done>>

Leave(w) ==
    /\ pc[w] = "leave"
    /\ active' = active - 1
    /\ Goto(w, "wait")
    /\ UNCHANGED <<epoch, job, cursor, remaining, shutdown, parking, own, turn,
                   begun, done>>
-----------------------------------------------------------------------------
Loop(t) == Grab(t) \/ Work(t) \/ Count(t)

Worker(w) ==
    \/ Poll(w) \/ Quit(w) \/ Recheck(w) \/ Wake(w) \/ Unflag(w)
    \/ Register(w) \/ Validate(w) \/ Read(w) \/ Leave(w) \/ Loop(w)

\* What the conductor does once run_stage or Drop is called.
Conducts ==
    \/ Drained \/ WriteJob \/ Rewind \/ Arm \/ Publish \/ Woken
    \/ Finish \/ Return \/ DropEpoch \/ Join \/ Loop(Conductor)
    \/ \E w \in Workers : Unpark(w) \/ DropUnpark(w)

Next ==
    \/ \E n \in Sizes : Begin(n)
    \/ Drop
    \/ Conducts
    \/ \E w \in Workers : Worker(w) \/ Flag(w) \/ WakeForNothing(w) \/ Lands(w)

Init ==
    /\ epoch = 0 /\ job = NoJob
    /\ cursor = 0 /\ remaining = 0 /\ active = 0 /\ shutdown = FALSE
    /\ states = [w \in Workers |-> "hot"]
    /\ stored = [w \in Workers |-> "hot"]
    /\ token = [w \in Workers |-> FALSE]
    /\ pc = [t \in Threads |-> IF t = Conductor THEN "idle" ELSE "wait"]
    /\ seen = [w \in Workers |-> 0]
    /\ got = [w \in Workers |-> 0]
    /\ mine = [t \in Threads |-> NoJob]
    /\ item = [t \in Threads |-> NoItem]
    /\ turn = {} /\ begun = 0 /\ done = {}

Safety == Init /\ [][Next]_vars

\* Every thread is scheduled, a store reaches memory, and the conductor's calls
\* run on; nothing obliges a caller to begin a stage or drop the pool, a worker
\* to park, or a park to end early.
Fairness ==
    /\ WF_vars(Conducts)
    /\ \A w \in Workers : WF_vars(Worker(w)) /\ WF_vars(Lands(w))

Spec == Safety /\ Fairness
-----------------------------------------------------------------------------
(* Properties. *)

Job == [stage: Nat, len: Nat]

Inside == {"read", "grab", "work", "count"}      \* a worker past its validation
Holding == {"work", "count"}
Rewriting == {"write", "rewind", "arm", "publish"}

\* Every variable holds a value of its type.
TypeOK ==
    /\ epoch \in Nat /\ job \in Job \union {NoJob}
    /\ cursor \in Nat /\ remaining \in Nat /\ active \in Nat
    /\ shutdown \in BOOLEAN
    /\ states \in [Workers -> {"hot", "parked"}]
    /\ stored \in [Workers -> {"hot", "parked"}]
    /\ token \in [Workers -> BOOLEAN]
    /\ pc \in [Threads -> {"idle", "drain", "write", "rewind", "arm", "publish",
                           "wake", "grab", "work", "count", "finish", "settle",
                           "close", "unpark", "dropped", "wait", "found",
                           "flagged", "parked", "awake", "registered", "read", "leave", "gone"}]
    /\ seen \in [Workers -> Nat] /\ got \in [Workers -> Nat]
    /\ mine \in [Threads -> Job \union {NoJob}]
    /\ item \in [Threads -> Nat \union {NoItem}]
    /\ turn \subseteq Workers
    /\ begun \in 0 .. MaxStages
    /\ done \subseteq Nat \X Nat

\* A worker past its validation reads the job while nobody rewrites it, and
\* the job it works through is the one in force: a late waker never joins a
\* stage over another stage's pointers (the module comment on publishing
\* seqlock-style).
JobPinned ==
    \A w \in Workers :
        /\ pc[w] \in Inside => pc[Conductor] \notin Rewriting
        /\ pc[w] = "read" => job # NoJob
        /\ pc[w] \in {"grab", "work", "count"} => mine[w] = job

\* The cursor hands each item to exactly one thread: no two hold the same one,
\* and one that is being processed has not been processed before.
OneVisitor ==
    /\ \A t, u \in Threads :
         t # u /\ pc[t] \in Holding /\ pc[u] \in Holding => item[t] # item[u]
    /\ \A t \in Threads : pc[t] = "work" => <<mine[t].stage, item[t]>> \notin done

\* The stage as its caller sees it: begun, worked off item by item, returned
\* from.
Called == {"drain", "wake", "grab", "work", "count", "finish", "settle"}
              \union Rewriting
Phase ==
    IF pc[Conductor] \in Called THEN "running"
    ELSE IF pc[Conductor] = "idle" THEN "idle" ELSE "closed"
Items == IF mine[Conductor] = NoJob THEN {} ELSE 0 .. mine[Conductor].len - 1
Left == {i \in Items : <<mine[Conductor].stage, i>> \notin done}

Abstract == INSTANCE ForkJoin WITH phase <- Phase, left <- Left

\* The pool implements what it promises: no item is processed twice or outside
\* a call, and run_stage returns only when the whole stage is processed.
ForkJoinSafety == Abstract!Safety

\* And every call returns, whatever the workers were doing when it came.
ForkJoinLiveness == Abstract!Liveness

\* Dropping the pool joins every worker, wherever the drop finds it: polling,
\* about to park, parked, or backing off (the comment on the window the
\* re-check closes).
DropJoins == shutdown ~> pc[Conductor] = "dropped"

=============================================================================
