----------------------------- MODULE ParallelProofs ----------------------------
(***************************************************************************)
(* Proofs about parallel rendering: the pool of WorkerPool, for any number   *)
(* of workers, stages and items, and the walk of a parallel group over it,   *)
(* for any groups and any number of lanes.                                   *)
(*                                                                          *)
(* The pool keeps JobPinned and OneVisitor and implements the safety part of *)
(* ForkJoin.  Its inductive invariant says who may be past the validation    *)
(* and when (Epochs, Inwards), what the published job is and who works       *)
(* through it (Jobs), what the two counters count (Counted), and, at the     *)
(* heart of it, that an item below the cursor is processed or in exactly one *)
(* thread's hands while one above it is neither (Handed).                    *)
(*                                                                          *)
(* The walk rests on ForkJoin alone.  A stage's members are pairwise without *)
(* conflict (MembersApart), the children before it are finished and those    *)
(* after it have not begun (Walked); the first half of Walked needs that the *)
(* pool returns only when every member has been walked to its end            *)
(* (HandedOver).  What the buses hold is then what a sequential walk would   *)
(* have put there (Summed), and so is what a child reads.                    *)
(***************************************************************************)
EXTENDS WorkerPool, Stages, FiniteSetTheorems, WellFoundedInduction, TLAPS

Odd == {"drain", "write", "rewind", "arm", "publish", "unpark", "dropped"}
Registered == {"registered", "leave"} \union Inside
OnJob == {"grab", "work", "count"}
Staging == {"wake", "grab", "work", "count", "finish"}   \* items change hands
Conductors == {"idle", "close", "unpark", "dropped"} \union Called
WorkersPc == {"wait", "found", "flagged", "parked", "awake", "gone"}
                \union Registered

In(labels) == {w \in Workers : pc[w] \in labels}
Uncounted ==
    {i \in 0 .. job.len - 1 :
        \/ <<job.stage, i>> \notin done
        \/ \E t \in Threads : pc[t] = "count" /\ item[t] = i}

\* The conductor's labels and the workers', and the epoch's parity.
Epochs ==
    /\ pc[Conductor] \in Conductors
    /\ \A w \in Workers : pc[w] \in WorkersPc
    /\ pc[Conductor] \in Odd <=> epoch % 2 = 1
    /\ \A w \in Workers :
         /\ seen[w] <= epoch /\ got[w] <= epoch /\ got[w] % 2 = 0
         /\ pc[w] \in {"found", "registered"} => got[w] # 0

\* Nobody is past the validation while the job is rewritten.
Inwards ==
    \A w \in Workers :
        /\ pc[w] \in Inside => pc[Conductor] \notin Rewriting
        /\ pc[w] \in Inside => job # NoJob

\* The job in force, and who works through it.
Jobs ==
    /\ epoch >= 2 \/ pc[Conductor] \in {"rewind", "arm", "publish"} => job # NoJob
    /\ pc[Conductor] \in Called => mine[Conductor] # NoJob
    /\ pc[Conductor] \notin {"drain", "write"} => mine[Conductor] = job
    /\ mine[Conductor] # NoJob => mine[Conductor].stage + 1 = begun
    /\ job # NoJob => job.stage < begun
    /\ pc[Conductor] \in {"drain", "write"} /\ job # NoJob
         => job.stage < mine[Conductor].stage
    /\ \A w \in Workers : pc[w] \in OnJob => mine[w] = job
    /\ \A d \in done : d[1] < begun
    /\ pc[Conductor] \in {"drain"} \union Rewriting
         => \A d \in done : d[1] < mine[Conductor].stage

\* An item in a thread's hands is one of the job's, below the cursor, and
\* processed once its holder is about to count it.
Held ==
    \A t \in Threads : pc[t] \in Holding =>
        /\ item[t] \in Nat /\ job # NoJob /\ mine[t] = job
        /\ item[t] < job.len /\ item[t] < cursor
        /\ pc[t] = "work" => <<job.stage, item[t]>> \notin done
        /\ pc[t] = "count" => <<job.stage, item[t]>> \in done

\* No two threads hold one item, and between stages no worker holds any.
Apart ==
    /\ \A t, u \in Threads :
         t # u /\ pc[t] \in Holding /\ pc[u] \in Holding => item[t] # item[u]
    /\ pc[Conductor] \notin Staging => \A w \in Workers : pc[w] \notin Holding

\* An item at or above the cursor is not processed; one below it is, or is in
\* somebody's hands.
Frontier ==
    job # NoJob /\ pc[Conductor] # "rewind" =>
        \A i \in 0 .. job.len - 1 :
            /\ i >= cursor => <<job.stage, i>> \notin done
            /\ i < cursor => \/ <<job.stage, i>> \in done
                             \/ \E t \in Threads : pc[t] = "work" /\ item[t] = i

\* Once the conductor has left the grab loop nothing is left to take.
Exhausted ==
    /\ job # NoJob /\ pc[Conductor] \notin {"rewind", "arm", "publish", "wake",
                                            "grab", "work", "count"}
         => cursor >= job.len
    /\ pc[Conductor] \in {"arm", "publish"} => cursor = 0

Handed == Held /\ Apart /\ Frontier /\ Exhausted

\* What the counters count.
Counted ==
    /\ active = Cardinality(In(Registered))
    /\ job # NoJob /\ pc[Conductor] \notin {"rewind", "arm"}
         => remaining = Cardinality(Uncounted)

IInv == TypeOK /\ Epochs /\ Inwards /\ Jobs /\ Handed /\ Counted
-----------------------------------------------------------------------------
(* Cardinalities. *)

\* A set of workers is finite, and empty just when it has no member.
LEMMA WorkersFinite ==
    ASSUME NEW S \in SUBSET Workers
    PROVE  /\ IsFiniteSet(S) /\ Cardinality(S) \in Nat
           /\ Cardinality(S) = 0 <=> S = {}
  BY PoolAssumption, FS_Subset, FS_CardinalityType, FS_EmptySet

\* So is a set of items of one stage.
LEMMA ItemsFinite ==
    ASSUME NEW n \in Nat, NEW S \in SUBSET (0 .. n - 1)
    PROVE  /\ IsFiniteSet(S) /\ Cardinality(S) \in Nat
           /\ Cardinality(S) = 0 <=> S = {}
  <1>1. IsFiniteSet(0 .. n - 1)
    BY FS_Interval
  <1> QED
    BY <1>1, FS_Subset, FS_CardinalityType, FS_EmptySet

LEMMA StageSize ==
    ASSUME NEW n \in Nat
    PROVE  Cardinality(0 .. n - 1) = n
  <1> DEFINE m == n - 1
  <1>1. m \in Int /\ 0 \in Int
    OBVIOUS
  <1>2. Cardinality(0 .. m) = IF 0 > m THEN 0 ELSE m - 0 + 1
    <2> HIDE DEF m
    <2> QED
      BY <1>1, FS_Interval
  <1> QED
    BY <1>2

\* A worker that holds an item of the stage keeps remaining above zero.
LEMMA CountPositive ==
    ASSUME IInv, NEW t \in Threads, pc[t] \in Holding
    PROVE  remaining \in Nat \ {0}
  <1>1. job # NoJob /\ job.len \in Nat /\ item[t] \in Uncounted
    BY DEF IInv, TypeOK, Job, Handed, Held, Uncounted, Holding
  <1>2. pc[Conductor] \notin {"rewind", "arm"}
    BY DEF IInv, Handed, Apart, Holding, Staging, Threads
  <1>3. remaining = Cardinality(Uncounted)
    BY <1>1, <1>2 DEF IInv, Counted
  <1>4. Uncounted \in SUBSET (0 .. job.len - 1)
    BY DEF Uncounted
  <1> QED
    BY <1>1, <1>3, <1>4, ItemsFinite

\* A registered worker keeps active above zero.
LEMMA ActivePositive ==
    ASSUME IInv, NEW w \in Workers, pc[w] \in Registered
    PROVE  active \in Nat \ {0}
  <1>1. w \in In(Registered) /\ In(Registered) \in SUBSET Workers
    BY DEF In
  <1> QED
    BY <1>1, WorkersFinite DEF IInv, Counted

\* And when active is zero nobody is registered.
LEMMA QuietMeansNone ==
    ASSUME IInv, Quiet
    PROVE  \A w \in Workers : pc[w] \notin Registered
  <1>1. In(Registered) \in SUBSET Workers /\ Cardinality(In(Registered)) = 0
    BY DEF In, IInv, Counted, Quiet
  <1> QED
    BY <1>1, WorkersFinite DEF In
-----------------------------------------------------------------------------
(* The invariant holds initially, and every step preserves each part of it. *)

LEMMA Starts == Init => IInv
  <1> SUFFICES ASSUME Init PROVE IInv
    OBVIOUS
  <1> USE PoolAssumption DEF Init, Threads
  <1>1. TypeOK
    <2>1. token \in [Workers -> BOOLEAN]
      OBVIOUS
    <2>2. pc \in [Threads -> Conductors \union WorkersPc]
      BY DEF Conductors, WorkersPc, Called
    <2>3. begun \in 0 .. MaxStages
      BY DEF PoolAssumption
    <2> QED
      BY <2>1, <2>2, <2>3
         DEF TypeOK, Conductors, WorkersPc, Called, Registered, Inside, Rewriting
  <1>2. Epochs
    BY DEF Epochs, Conductors, WorkersPc, Odd, Called
  <1>3. Inwards /\ Jobs /\ Handed
    BY DEF Inwards, Jobs, Handed, Held, Apart, Frontier, Exhausted, Inside, Called, OnJob, Holding, Rewriting
  <1>4. Counted
    <2>1. In(Registered) = {}
      BY DEF In, Registered, Inside
    <2> QED
      BY <2>1, FS_EmptySet DEF Counted
  <1> QED
    BY <1>1, <1>2, <1>3, <1>4 DEF IInv

LEMMA TypeStep ==
    ASSUME IInv, [Next]_vars
    PROVE  TypeOK'
  <1> USE PoolAssumption DEF TypeOK, Goto, Threads
  <1> TypeOK
    BY DEF IInv
  <1>1. ASSUME NEW n \in Sizes, Begin(n) PROVE TypeOK'
    BY <1>1 DEF Begin, At, Job, parking
  <1>2. CASE Drop
    BY <1>2 DEF Drop, At, parking, own
  <1>3. CASE Drained \/ WriteJob \/ Rewind \/ Publish \/ Woken
    BY <1>3 DEF Drained, WriteJob, Rewind, Publish, Woken, At, shared, parking, own
  <1>4. CASE Arm
    BY <1>4 DEF Arm, At, parking, own, IInv, Jobs, Called, Rewriting, Job
  <1>5. CASE Finish \/ Return \/ DropEpoch \/ Join
    BY <1>5 DEF Finish, Return, DropEpoch, Join, At, shared, parking, own
  <1>6. ASSUME NEW w \in Workers, Unpark(w) \/ DropUnpark(w) PROVE TypeOK'
    BY <1>6, ZenonT(30) DEF Unpark, DropUnpark, Always, At, shared, own
  <1>7. ASSUME NEW t \in Threads, Grab(t) PROVE TypeOK'
    BY <1>7 DEF Grab, InStage, parking
  <1>71. ASSUME NEW t \in Threads, Work(t) PROVE TypeOK'
    <2>1. mine[t].stage \in Nat /\ item[t] \in Nat
      BY <1>71 DEF Work, IInv, Handed, Held, Holding, Job
    <2> QED
      BY <1>71, <2>1 DEF Work, shared, parking, own
  <1>8. ASSUME NEW t \in Threads, Count(t) PROVE TypeOK'
    BY <1>8, CountPositive DEF Count, Holding, parking
  <1>9. ASSUME NEW w \in Workers, Poll(w) \/ Quit(w) \/ Recheck(w)
                                   \/ Unflag(w) \/ Flag(w) \/ WakeForNothing(w)
        PROVE TypeOK'
    BY <1>9 DEF Poll, Quit, Recheck, Unflag, Flag, WakeForNothing, shared, parking, own
  <1>91. ASSUME NEW w \in Workers, Wake(w) PROVE TypeOK'
    BY <1>91 DEF Wake, shared, own
  <1>92. ASSUME NEW w \in Workers, Lands(w) PROVE TypeOK'
    BY <1>92 DEF Lands, shared, own
  <1>10. ASSUME NEW w \in Workers, Register(w) \/ Validate(w) \/ Read(w)
         PROVE TypeOK'
    BY <1>10 DEF Register, Validate, Read, shared, parking, own
  <1>11. ASSUME NEW w \in Workers, Leave(w) PROVE TypeOK'
    BY <1>11, ActivePositive DEF Leave, Registered, parking, own
  <1>12. CASE UNCHANGED vars
    BY <1>12 DEF vars, shared, parking, own
  <1> QED
    BY <1>1, <1>2, <1>3, <1>4, <1>5, <1>6, <1>7, <1>71, <1>8, <1>9, <1>91, <1>92, <1>10, <1>11, <1>12
       DEF Next, Conducts, Worker, Loop
LEMMA EpochsStep ==
    ASSUME IInv, [Next]_vars
    PROVE  Epochs'
  <1> USE PoolAssumption DEF PoolAssumption, TypeOK, Goto, Threads, Epochs
  <1> TypeOK /\ Epochs
    BY DEF IInv
  <1> USE DEF Conductors, WorkersPc, Odd, Called, Rewriting, Registered, Inside
  <1>1. ASSUME NEW n \in Sizes, Begin(n) PROVE Epochs'
    BY <1>1 DEF Begin, At
  <1>2. CASE Drop
    BY <1>2 DEF Drop, At, own
  <1>3. CASE Drained \/ WriteJob \/ Rewind \/ Arm \/ Woken \/ Finish \/ Return
             \/ Join
    BY <1>3 DEF Drained, WriteJob, Rewind, Arm, Woken, Finish, Return, Join, At,
                shared, own
  <1>4. CASE Publish \/ DropEpoch
    BY <1>4 DEF Publish, DropEpoch, At, own
  <1>5. ASSUME NEW w \in Workers, Unpark(w) \/ DropUnpark(w) PROVE Epochs'
    BY <1>5 DEF Unpark, DropUnpark, shared, own
  <1>6. ASSUME NEW t \in Threads, Loop(t) PROVE Epochs'
    BY <1>6 DEF Loop, Grab, Work, Count, shared, own
  <1>7. ASSUME NEW w \in Workers, Poll(w) PROVE Epochs'
    BY <1>7 DEF Poll, Fresh, shared
  <1>8. ASSUME NEW w \in Workers, Quit(w) \/ Recheck(w) \/ Wake(w) \/ Unflag(w)
                                   \/ Flag(w) \/ Lands(w) \/ WakeForNothing(w)
        PROVE Epochs'
    BY <1>8 DEF Quit, Recheck, Wake, Unflag, Flag, Lands, WakeForNothing, shared, own
  <1>9. ASSUME NEW w \in Workers, Register(w) \/ Validate(w) \/ Read(w) \/ Leave(w)
        PROVE Epochs'
    BY <1>9 DEF Register, Validate, Read, Leave, shared, own
  <1>10. CASE UNCHANGED vars
    BY <1>10 DEF vars, shared, own
  <1> QED
    BY <1>1, <1>2, <1>3, <1>4, <1>5, <1>6, <1>7, <1>8, <1>9, <1>10
       DEF Next, Conducts, Worker

LEMMA InwardsStep ==
    ASSUME IInv, [Next]_vars
    PROVE  Inwards'
  <1> USE PoolAssumption DEF PoolAssumption, TypeOK, Goto, Threads, Inwards
  <1> TypeOK /\ Inwards
    BY DEF IInv
  <1> USE DEF Rewriting, Inside
  <1>1. ASSUME NEW n \in Sizes, Begin(n) PROVE Inwards'
    BY <1>1 DEF Begin, At
  <1>2. CASE Drained
    BY <1>2, QuietMeansNone DEF Drained, At, Registered, shared
  <1>3. CASE WriteJob
    BY <1>3 DEF WriteJob, At
  <1>4. CASE Rewind \/ Arm \/ Publish \/ Woken \/ Finish \/ Return
             \/ Join \/ Drop \/ DropEpoch
    BY <1>4 DEF Rewind, Arm, Publish, Woken, Finish, Return, Join, Drop, DropEpoch,
                At, shared
  <1>5. ASSUME NEW w \in Workers, Unpark(w) \/ DropUnpark(w) PROVE Inwards'
    BY <1>5 DEF Unpark, DropUnpark, shared
  <1>6. ASSUME NEW t \in Threads, Loop(t) PROVE Inwards'
    BY <1>6 DEF Loop, Grab, Work, Count, shared
  <1>7. ASSUME NEW w \in Workers, Poll(w) \/ Quit(w) \/ Recheck(w) \/ Wake(w)
                                   \/ Unflag(w) \/ Flag(w) \/ Lands(w)
                                   \/ WakeForNothing(w)
        PROVE Inwards'
    BY <1>7 DEF Poll, Quit, Recheck, Wake, Unflag, Flag, Lands, WakeForNothing, shared
  <1>8. ASSUME NEW w \in Workers, Register(w) \/ Read(w) \/ Leave(w)
        PROVE Inwards'
    BY <1>8 DEF Register, Read, Leave, shared
  <1>9. ASSUME NEW w \in Workers, Validate(w) PROVE Inwards'
    <2>1. CASE Unchanged(w)
      <3>1. epoch % 2 = 0 /\ epoch >= 2
        BY <1>9, <2>1, SMTT(30) DEF Validate, Unchanged, IInv, Epochs
      <3>2. job # NoJob /\ pc[Conductor] \notin Rewriting
        BY <3>1 DEF IInv, Jobs, Epochs, Odd
      <3> QED
        BY <1>9, <3>2 DEF Validate, shared
    <2>2. CASE ~Unchanged(w)
      BY <1>9, <2>2 DEF Validate, shared
    <2> QED
      BY <2>1, <2>2
  <1>10. CASE UNCHANGED vars
    BY <1>10 DEF vars, shared
  <1> QED
    BY <1>1, <1>2, <1>3, <1>4, <1>5, <1>6, <1>7, <1>8, <1>9, <1>10
       DEF Next, Conducts, Worker

LEMMA JobsStep ==
    ASSUME IInv, [Next]_vars
    PROVE  Jobs'
  <1> USE PoolAssumption DEF PoolAssumption, TypeOK, Goto, Threads, Jobs, Job
  <1> TypeOK /\ Jobs
    BY DEF IInv
  <1> USE DEF Called, Rewriting, OnJob
  <1>1. ASSUME NEW n \in Sizes, Begin(n) PROVE Jobs'
    <2>1. epoch' >= 2 => job' # NoJob
      <3>1. epoch \in Nat /\ epoch' = epoch + 1 /\ job' = job
        BY <1>1 DEF Begin
      <3>2. epoch # 1
        BY <1>1 DEF Begin, At, IInv, Epochs, Odd
      <3> QED
        BY <3>1, <3>2
    <2>2. pc'[Conductor] = "drain" /\ mine'[Conductor] = [stage |-> begun, len |-> n]
      BY <1>1 DEF Begin
    <2>3. \A w \in Workers : pc'[w] = pc[w] /\ mine'[w] = mine[w]
      BY <1>1 DEF Begin
    <2>5. [stage |-> begun, len |-> n] \in [stage: Nat, len: Nat]
      OBVIOUS
    <2>6. mine'[Conductor] # NoJob /\ mine'[Conductor].stage = begun
      BY <2>2, <2>5
    <2>4. \A d \in done : d[1] < begun /\ d[1] \in Nat
      OBVIOUS
    <2> QED
      BY <1>1, <2>1, <2>2, <2>3, <2>4, <2>6 DEF Begin
  <1>2. CASE WriteJob
    BY <1>2 DEF WriteJob, At, own, IInv, Inwards, Inside
  <1>3. CASE Drained \/ Rewind \/ Arm \/ Publish \/ Woken \/ Finish \/ Return
             \/ Join \/ Drop
    BY <1>3 DEF Drained, Rewind, Arm, Publish, Woken, Finish, Return, Join, Drop,
                At, shared, own
  <1>4. CASE DropEpoch
    BY <1>4, SMTT(30) DEF DropEpoch, At, own, IInv, Epochs, Odd
  <1>5. ASSUME NEW w \in Workers, Unpark(w) \/ DropUnpark(w) PROVE Jobs'
    BY <1>5 DEF Unpark, DropUnpark, shared, own
  <1>6. ASSUME NEW t \in Threads, Grab(t) \/ Count(t) PROVE Jobs'
    BY <1>6 DEF Grab, Count
  <1>7. ASSUME NEW t \in Threads, Work(t) PROVE Jobs'
    <2>1. mine[t] = job /\ job # NoJob /\ pc[Conductor] \notin {"drain"} \union Rewriting
      BY <1>7 DEF Work, IInv, Handed, Held, Apart, Holding, Staging
    <2> QED
      BY <1>7, <2>1 DEF Work, shared, own
  <1>8. ASSUME NEW w \in Workers, Poll(w) \/ Quit(w) \/ Recheck(w) \/ Wake(w)
                                   \/ Unflag(w) \/ Flag(w) \/ Lands(w)
                                   \/ WakeForNothing(w)
        PROVE Jobs'
    BY <1>8 DEF Poll, Quit, Recheck, Wake, Unflag, Flag, Lands, WakeForNothing,
                shared, own
  <1>9. ASSUME NEW w \in Workers, Register(w) \/ Validate(w) \/ Read(w) \/ Leave(w)
        PROVE Jobs'
    BY <1>9 DEF Register, Validate, Read, Leave, shared, own
  <1>10. CASE UNCHANGED vars
    BY <1>10 DEF vars, shared, own
  <1> QED
    BY <1>1, <1>2, <1>3, <1>4, <1>5, <1>6, <1>7, <1>8, <1>9, <1>10
       DEF Next, Conducts, Worker, Loop

\* A thread in the grab loop works through the job in force, and the conductor
\* is in a stage, or the cursor is past its end.
LEMMA AtTheCursor ==
    ASSUME IInv, NEW t \in Threads, pc[t] \in OnJob
    PROVE  /\ mine[t] = job /\ job # NoJob /\ job \in Job
           /\ pc[Conductor] \notin Rewriting
           /\ cursor < job.len => pc[Conductor] \in Staging
  <1> USE PoolAssumption DEF PoolAssumption, IInv, TypeOK, OnJob, Rewriting, Threads
  <1>1. CASE t = Conductor
    BY <1>1 DEF Jobs, Called, Staging
  <1>2. CASE t \in Workers
    BY <1>2 DEF Jobs, Inwards, Inside, Handed, Exhausted, Staging, Epochs,
                Conductors, Called, Job
  <1> QED
    BY <1>1, <1>2

LEMMA GrabHanded ==
    ASSUME IInv, NEW t \in Threads, Grab(t)
    PROVE  Handed'
  <1> USE PoolAssumption DEF PoolAssumption, TypeOK, Goto, Threads
  <1>1. /\ mine[t] = job /\ job # NoJob /\ job \in Job
        /\ pc[Conductor] \notin Rewriting
        /\ cursor < job.len => pc[Conductor] \in Staging
    BY AtTheCursor DEF Grab, OnJob
  <1>2. /\ job' = job /\ done' = done /\ mine' = mine /\ cursor' = cursor + 1
        /\ cursor \in Nat /\ TypeOK
    BY DEF Grab, IInv
  <1>3. CASE cursor < job.len
    <2>1. /\ item' = [item EXCEPT ![t] = cursor]
          /\ pc' = [pc EXCEPT ![t] = "work"] /\ pc[t] = "grab"
      BY <1>1, <1>3 DEF Grab, InStage
    <2>2. <<job.stage, cursor>> \notin done
      BY <1>1, <1>2, <1>3 DEF IInv, Handed, Frontier, Rewriting, Job
    <2>3. Held'
      BY <1>1, <1>2, <1>3, <2>1, <2>2 DEF IInv, Handed, Held, Holding
    <2>4. Apart'
      <3>1. pc'[Conductor] \in Staging
        BY <1>1, <1>2, <1>3, <2>1 DEF Staging
      <3>2. \A u \in Threads \ {t} : pc'[u] = pc[u] /\ item'[u] = item[u]
        BY <1>2, <2>1
      <3>3. \A u \in Threads \ {t} : pc'[u] \in Holding => item'[u] < cursor
        BY <3>2 DEF IInv, Handed, Held
      <3>4. item'[t] = cursor
        BY <1>2, <2>1
      <3>5. \A u \in Threads \ {t} : pc'[u] \in Holding => item'[u] # item'[t]
        BY <1>2, <3>3, <3>4
      <3> QED
        BY <3>1, <3>2, <3>5 DEF IInv, Handed, Apart
    <2>5. Frontier'
      <3> SUFFICES ASSUME NEW i \in 0 .. job.len - 1
                   PROVE  /\ i >= cursor' => <<job.stage, i>> \notin done
                          /\ i < cursor' =>
                               \/ <<job.stage, i>> \in done
                               \/ \E u \in Threads : pc'[u] = "work" /\ item'[u] = i
        BY <1>2 DEF Frontier
      <3>1. CASE i = cursor
        BY <1>2, <2>1, <3>1
      <3>2. CASE i # cursor
        <4>1. i < cursor' => i < cursor
          BY <1>1, <1>2, <3>2 DEF Job
        <4>2. /\ i >= cursor => <<job.stage, i>> \notin done
              /\ i < cursor => \/ <<job.stage, i>> \in done
                               \/ \E u \in Threads : pc[u] = "work" /\ item[u] = i
          BY <1>1 DEF IInv, Handed, Frontier, Rewriting
        <4> QED
          BY <1>1, <1>2, <2>1, <4>1, <4>2 DEF Job
      <3> QED
        BY <3>1, <3>2
    <2>6. Exhausted'
      BY <1>1, <1>2, <1>3, <2>1 DEF Exhausted, Rewriting, Staging, IInv, Handed, Job
    <2> QED
      BY <2>3, <2>4, <2>5, <2>6 DEF Handed
  <1>4. CASE ~(cursor < job.len)
    <2>1. /\ item' = item
          /\ pc' = [pc EXCEPT ![t] = IF t = Conductor THEN "finish" ELSE "leave"]
          /\ pc[t] = "grab"
      BY <1>1, <1>4 DEF Grab, InStage
    <2>2. Held' /\ Apart'
      BY <1>1, <1>2, <2>1 DEF IInv, Handed, Held, Apart, Holding, Staging
    <2>3. Frontier'
      BY <1>1, <1>2, <1>4, <2>1 DEF IInv, Handed, Frontier, Rewriting, Job
    <2>4. Exhausted'
      BY <1>1, <1>2, <1>4, <2>1 DEF Exhausted, Rewriting, IInv, Handed, Job
    <2> QED
      BY <2>2, <2>3, <2>4 DEF Handed
  <1> QED
    BY <1>3, <1>4

LEMMA WorkHanded ==
    ASSUME IInv, NEW t \in Threads, Work(t)
    PROVE  Handed'
  <1> USE PoolAssumption DEF PoolAssumption, TypeOK, Goto, Threads
  <1> DEFINE it == <<job.stage, item[t]>>
  <1>1. /\ pc[t] = "work" /\ pc' = [pc EXCEPT ![t] = "count"]
        /\ job' = job /\ item' = item /\ mine' = mine /\ cursor' = cursor
        /\ TypeOK
    BY DEF Work, IInv, shared, own
  <1>2. /\ mine[t] = job /\ job # NoJob /\ job \in Job
        /\ item[t] \in Nat /\ item[t] < job.len /\ item[t] < cursor
    BY <1>1 DEF IInv, Handed, Held, Holding
  <1>3. done' = done \union {it}
    BY <1>2 DEF Work
  <1>4. \A u \in Threads : u # t /\ pc[u] \in Holding => item[u] # item[t]
    BY <1>1 DEF IInv, Handed, Apart, Holding
  <1>5. Held'
    BY <1>1, <1>2, <1>3, <1>4 DEF IInv, Handed, Held, Holding
  <1>6. Apart'
    BY <1>1 DEF IInv, Handed, Apart, Holding, Staging
  <1>7. Frontier'
    BY <1>1, <1>2, <1>3 DEF IInv, Handed, Frontier
  <1>8. Exhausted'
    BY <1>1 DEF IInv, Handed, Exhausted
  <1> QED
    BY <1>5, <1>6, <1>7, <1>8 DEF Handed

LEMMA CountHanded ==
    ASSUME IInv, NEW t \in Threads, Count(t)
    PROVE  Handed'
  <1> USE PoolAssumption DEF PoolAssumption, TypeOK, Goto, Threads
  <1>1. /\ pc[t] = "count" /\ pc' = [pc EXCEPT ![t] = "grab"]
        /\ item' = [item EXCEPT ![t] = NoItem]
        /\ job' = job /\ done' = done /\ mine' = mine /\ cursor' = cursor
        /\ TypeOK
    BY DEF Count, IInv
  <1>2. Held' /\ Apart'
    BY <1>1 DEF IInv, Handed, Held, Apart, Holding, Staging
  <1>3. Frontier'
    BY <1>1 DEF IInv, Handed, Frontier
  <1>4. Exhausted'
    BY <1>1 DEF IInv, Handed, Exhausted
  <1> QED
    BY <1>2, <1>3, <1>4 DEF Handed

\* Once remaining is zero no item is in anybody's hands.
LEMMA FinishMeansNone ==
    ASSUME IInv, Finish
    PROVE  \A t \in Threads : pc[t] \notin Holding
  <1> SUFFICES ASSUME NEW t \in Threads, pc[t] \in Holding PROVE FALSE
    OBVIOUS
  <1> QED
    BY CountPositive DEF Finish

LEMMA HandedStep ==
    ASSUME IInv, [Next]_vars
    PROVE  Handed'
  <1> USE PoolAssumption DEF PoolAssumption, TypeOK, Goto, Threads
  <1> TypeOK /\ Handed
    BY DEF IInv
  <1> USE DEF Handed, Held, Apart, Frontier, Exhausted, Holding, Staging
  <1>1. ASSUME NEW n \in Sizes, Begin(n) PROVE Handed'
    BY <1>1 DEF Begin, At
  <1>2. CASE Drained
    BY <1>2 DEF Drained, At, shared, own
  <1>3. CASE WriteJob
    BY <1>3 DEF WriteJob, At, own
  <1>4. CASE Rewind
    <2>1. \A d \in done : d[1] < job.stage /\ job.stage \in Nat
      BY <1>4 DEF Rewind, At, IInv, Jobs, Rewriting, Called, Job
    <2>2. pc[Conductor] = "rewind" /\ pc' = [pc EXCEPT ![Conductor] = "arm"]
          /\ cursor' = 0 /\ job' = job /\ done' = done
      BY <1>4 DEF Rewind, At
    <2>3. Held' /\ Apart' /\ Exhausted'
      BY <2>2
    <2>4. Frontier'
      <3>1. \A i \in Nat : <<job.stage, i>> \notin done
        BY <2>1
      <3> QED
        BY <2>2, <3>1
    <2> QED
      BY <2>3, <2>4
  <1>5. CASE Arm \/ Publish \/ Woken
    BY <1>5 DEF Arm, Publish, Woken, At, shared, own
  <1>6. CASE Finish
    <2>1. \A w \in Workers : pc[w] \notin Holding
      BY <1>6, FinishMeansNone
    <2> QED
      BY <1>6, <2>1 DEF Finish, At, shared, own
  <1>7. CASE Return \/ Drop \/ DropEpoch \/ Join
    BY <1>7 DEF Return, Drop, DropEpoch, Join, At, shared, own
  <1>8. ASSUME NEW w \in Workers, Unpark(w) \/ DropUnpark(w) PROVE Handed'
    BY <1>8 DEF Unpark, DropUnpark, shared, own
  <1>9. ASSUME NEW t \in Threads, Loop(t) PROVE Handed'
    BY <1>9, GrabHanded, WorkHanded, CountHanded DEF Loop
  <1>10. ASSUME NEW w \in Workers, Poll(w) \/ Quit(w) \/ Recheck(w) \/ Wake(w)
                                    \/ Unflag(w) \/ Flag(w) \/ Lands(w)
                                    \/ WakeForNothing(w)
         PROVE Handed'
    BY <1>10, SMTT(30) DEF Poll, Quit, Recheck, Wake, Unflag, Flag, Lands, WakeForNothing,
                 shared, own
  <1>11. ASSUME NEW w \in Workers, Register(w) \/ Validate(w) \/ Leave(w)
         PROVE Handed'
    BY <1>11 DEF Register, Validate, Leave, shared, own
  <1>12. ASSUME NEW w \in Workers, Read(w) PROVE Handed'
    BY <1>12 DEF Read, shared
  <1>13. CASE UNCHANGED vars
    BY <1>13 DEF vars, shared, own
  <1> QED
    BY <1>1, <1>2, <1>3, <1>4, <1>5, <1>6, <1>7, <1>8, <1>9, <1>10, <1>11, <1>12,
       <1>13 DEF Next, Conducts, Worker

\* active counts the registered workers.
LEMMA ActiveStep ==
    ASSUME IInv, [Next]_vars
    PROVE  active' = Cardinality(In(Registered)')
  <1> USE PoolAssumption DEF PoolAssumption, TypeOK, Goto, Threads, Registered, Inside
  <1> TypeOK /\ active = Cardinality(In(Registered))
    BY DEF IInv, Counted
  <1>1. In(Registered) \in SUBSET Workers /\ IsFiniteSet(In(Registered))
    BY WorkersFinite DEF In
  <1>2. ASSUME NEW w \in Workers, Register(w)
        PROVE active' = Cardinality(In(Registered)')
    <2>1. In(Registered)' = In(Registered) \union {w} /\ w \notin In(Registered)
      BY <1>2 DEF Register, In
    <2> QED
      BY <1>1, <1>2, <2>1, FS_AddElement DEF Register
  <1>3. ASSUME NEW w \in Workers, Leave(w)
        PROVE active' = Cardinality(In(Registered)')
    <2>1. In(Registered)' = In(Registered) \ {w} /\ w \in In(Registered)
      BY <1>3 DEF Leave, In
    <2> QED
      BY <1>1, <1>3, <2>1, FS_RemoveElement DEF Leave
  <1>4. ASSUME active' = active,
               \A w \in Workers : pc'[w] \in Registered <=> pc[w] \in Registered
        PROVE active' = Cardinality(In(Registered)')
    BY <1>4 DEF In
  <1>5. ASSUME NEW t \in Threads, Loop(t)
        PROVE active' = Cardinality(In(Registered)')
    BY <1>4, <1>5 DEF Loop, Grab, Work, Count, shared
  <1>6. ASSUME NEW w \in Workers, Poll(w) \/ Quit(w) \/ Recheck(w) \/ Wake(w)
                                   \/ Unflag(w) \/ Flag(w) \/ Lands(w)
                                   \/ WakeForNothing(w)
        PROVE active' = Cardinality(In(Registered)')
    BY <1>4, <1>6 DEF Poll, Quit, Recheck, Wake, Unflag, Flag, Lands,
                      WakeForNothing, shared
  <1>7. ASSUME NEW w \in Workers, Validate(w) \/ Read(w)
        PROVE active' = Cardinality(In(Registered)')
    BY <1>4, <1>7 DEF Validate, Read, shared
  <1>8. ASSUME NEW w \in Workers, Unpark(w) \/ DropUnpark(w)
        PROVE active' = Cardinality(In(Registered)')
    BY <1>4, <1>8 DEF Unpark, DropUnpark, shared
  <1>9. ASSUME NEW n \in Sizes, Begin(n)
        PROVE active' = Cardinality(In(Registered)')
    BY <1>4, <1>9 DEF Begin
  <1>10. CASE Drained \/ WriteJob \/ Rewind \/ Arm \/ Publish \/ Woken \/ Finish
              \/ Return \/ Drop \/ DropEpoch \/ Join
    BY <1>4, <1>10 DEF Drained, WriteJob, Rewind, Arm, Publish, Woken, Finish,
                       Return, Drop, DropEpoch, Join, shared
  <1>11. CASE UNCHANGED vars
    BY <1>4, <1>11 DEF vars, shared
  <1> QED
    BY <1>2, <1>3, <1>5, <1>6, <1>7, <1>8, <1>9, <1>10, <1>11
       DEF Next, Conducts, Worker

\* remaining counts the items of the job nobody has counted.
Remains ==
    job # NoJob /\ pc[Conductor] \notin {"rewind", "arm"}
        => remaining = Cardinality(Uncounted)

LEMMA RemainsStep ==
    ASSUME IInv, [Next]_vars
    PROVE  Remains'
  <1> USE PoolAssumption DEF PoolAssumption, TypeOK, Goto, Threads
  <1> TypeOK /\ Remains
    BY DEF IInv, Counted, Remains
  <1>1. ASSUME job' = job, remaining' = remaining, done' = done, item' = item,
               \A t \in Threads : pc'[t] = "count" <=> pc[t] = "count",
               pc[Conductor] \in {"rewind", "arm"}
                 => pc'[Conductor] \in {"rewind", "arm"}
        PROVE Remains'
    <2>1. Uncounted' = Uncounted
      BY <1>1 DEF Uncounted
    <2> QED
      BY <1>1, <2>1 DEF Remains
  <1>2. ASSUME NEW t \in Threads, Grab(t) PROVE Remains'
    <2>1. \A u \in Threads : pc'[u] = "count" => pc[u] = "count" /\ u # t
      BY <1>2 DEF Grab
    <2>2. \A u \in Threads : pc[u] = "count" =>
            pc'[u] = "count" /\ item'[u] = item[u] /\ u # t
      BY <1>2 DEF Grab
    <2>3. job' = job /\ done' = done /\ remaining' = remaining
          /\ \A u \in Threads \ {t} : item'[u] = item[u]
      BY <1>2 DEF Grab
    <2>4. Uncounted' = Uncounted
      BY <2>1, <2>2, <2>3 DEF Uncounted
    <2>5. pc[Conductor] \in {"rewind", "arm"} => pc'[Conductor] = pc[Conductor]
      BY <1>2 DEF Grab
    <2> QED
      BY <2>3, <2>4, <2>5 DEF Remains
  <1>3. ASSUME NEW t \in Threads, Work(t) PROVE Remains'
    <2>1. /\ pc[t] = "work" /\ pc' = [pc EXCEPT ![t] = "count"]
          /\ job' = job /\ item' = item /\ remaining' = remaining
      BY <1>3 DEF Work, shared, own
    <2>2. /\ mine[t] = job /\ job \in Job /\ job # NoJob
          /\ item[t] \in 0 .. job.len - 1
          /\ <<job.stage, item[t]>> \notin done
      BY <2>1 DEF IInv, Handed, Held, Holding, Job
    <2>3. done' = done \union {<<job.stage, item[t]>>}
      BY <1>3, <2>2 DEF Work
    <2>4. Uncounted' = Uncounted
      BY <2>1, <2>2, <2>3 DEF Uncounted
    <2> QED
      BY <2>1, <2>4 DEF Remains
  <1>4. ASSUME NEW t \in Threads, Count(t) PROVE Remains'
    <2>1. /\ pc[t] = "count" /\ pc' = [pc EXCEPT ![t] = "grab"]
          /\ item' = [item EXCEPT ![t] = NoItem]
          /\ job' = job /\ done' = done /\ remaining' = remaining - 1
      BY <1>4 DEF Count
    <2>2. /\ job \in Job /\ job # NoJob /\ item[t] \in 0 .. job.len - 1
          /\ <<job.stage, item[t]>> \in done
      BY <2>1 DEF IInv, Handed, Held, Holding, Job
    <2>3. \A u \in Threads : u # t /\ pc[u] = "count" => item[u] # item[t]
      BY <2>1 DEF IInv, Handed, Apart, Holding
    <2>4. Uncounted' = Uncounted \ {item[t]} /\ item[t] \in Uncounted
      BY <2>1, <2>2, <2>3 DEF Uncounted
    <2>5. pc[Conductor] \notin {"rewind", "arm"}
      BY <2>1 DEF IInv, Handed, Apart, Holding, Staging
    <2>6. IsFiniteSet(Uncounted)
      BY <2>2, ItemsFinite DEF Uncounted, Job
    <2>7. Cardinality(Uncounted \ {item[t]}) = Cardinality(Uncounted) - 1
      BY <2>4, <2>6, FS_RemoveElement, ZenonT(30)
    <2>8. remaining = Cardinality(Uncounted)
      BY <2>2, <2>5 DEF Remains
    <2> QED
      BY <2>1, <2>4, <2>7, <2>8 DEF Remains
  <1>5. CASE WriteJob \/ Rewind
    BY <1>5 DEF WriteJob, Rewind, Remains
  <1>6. CASE Arm
    <2>1. /\ pc[Conductor] = "arm" /\ job' = job /\ done' = done /\ item' = item
          /\ pc' = [pc EXCEPT ![Conductor] = "publish"]
          /\ remaining' = mine[Conductor].len
      BY <1>6 DEF Arm, At, own
    <2>2. job # NoJob /\ job \in Job /\ mine[Conductor] = job /\ cursor = 0
      BY <2>1 DEF IInv, Jobs, Handed, Exhausted
    <2>3. \A i \in 0 .. job.len - 1 : <<job.stage, i>> \notin done
      BY <2>1, <2>2 DEF IInv, Handed, Frontier, Job
    <2>4. Uncounted' = 0 .. job.len - 1
      BY <2>1, <2>3 DEF Uncounted
    <2>5. Cardinality(0 .. job.len - 1) = job.len
      BY <2>2, StageSize DEF Job
    <2> QED
      BY <2>1, <2>2, <2>4, <2>5 DEF Remains
  <1>7. ASSUME NEW w \in Workers, Poll(w) \/ Quit(w) \/ Recheck(w) \/ Wake(w)
                                   \/ Unflag(w) \/ Flag(w) \/ Lands(w)
                                   \/ WakeForNothing(w)
        PROVE Remains'
    BY <1>1, <1>7 DEF Poll, Quit, Recheck, Wake, Unflag, Flag, Lands,
                      WakeForNothing, shared, own
  <1>8. ASSUME NEW w \in Workers, Register(w) \/ Validate(w) \/ Read(w) \/ Leave(w)
        PROVE Remains'
    BY <1>1, <1>8 DEF Register, Validate, Read, Leave, shared, own
  <1>9. ASSUME NEW w \in Workers, Unpark(w) \/ DropUnpark(w) PROVE Remains'
    BY <1>1, <1>9 DEF Unpark, DropUnpark, shared, own
  <1>10. ASSUME NEW n \in Sizes, Begin(n) PROVE Remains'
    BY <1>1, <1>10 DEF Begin, At
  <1>11. CASE Drained \/ Publish \/ Woken \/ Finish \/ Return \/ Drop
              \/ DropEpoch \/ Join
    BY <1>1, <1>11 DEF Drained, Publish, Woken, Finish, Return, Drop, DropEpoch,
                       Join, At, shared, own
  <1>12. CASE UNCHANGED vars
    BY <1>1, <1>12 DEF vars, shared, own
  <1> QED
    BY <1>2, <1>3, <1>4, <1>5, <1>6, <1>7, <1>8, <1>9, <1>10, <1>11, <1>12
       DEF Next, Conducts, Worker, Loop
-----------------------------------------------------------------------------
THEOREM Invariant == Safety => []IInv
  <1>1. Init => IInv
    BY Starts
  <1>2. IInv /\ [Next]_vars => IInv'
    <2> SUFFICES ASSUME IInv, [Next]_vars PROVE IInv'
      OBVIOUS
    <2>1. Counted'
      BY ActiveStep, RemainsStep DEF Counted, Remains
    <2> QED
      BY <2>1, TypeStep, EpochsStep, InwardsStep, JobsStep, HandedStep DEF IInv
  <1> QED
    BY <1>1, <1>2, PTL DEF Safety

\* No value leaves its type: no counter of the pool goes below zero, whatever
\* the number of workers.
THEOREM TypeCorrect == Safety => []TypeOK
  <1>1. IInv => TypeOK
    BY DEF IInv
  <1> QED
    BY <1>1, Invariant, PTL

\* A worker past its validation works through the job in force, which nobody
\* is rewriting.
THEOREM JobIsPinned == Safety => []JobPinned
  <1>1. IInv => JobPinned
    BY DEF IInv, Inwards, Jobs, JobPinned, Inside, OnJob
  <1> QED
    BY <1>1, Invariant, PTL

\* Each item is in one thread's hands at a time and is processed once.
THEOREM EachItemOneVisitor == Safety => []OneVisitor
  <1>1. IInv => OneVisitor
    <2> SUFFICES ASSUME IInv PROVE OneVisitor
      OBVIOUS
    <2>1. \A t \in Threads : pc[t] = "work" => <<mine[t].stage, item[t]>> \notin done
      BY DEF IInv, Handed, Held, Holding
    <2> QED
      BY <2>1 DEF IInv, Handed, Apart, OneVisitor
  <1> QED
    BY <1>1, Invariant, PTL
-----------------------------------------------------------------------------
(* The refinement: every step of the pool is a step of ForkJoin or changes    *)
(* neither the phase nor what is left.                                        *)

LEMMA InitRefines == Init => Abstract!Init
  BY DEF Init, Abstract!Init, Phase, Left, Items, Called, Rewriting, Threads

\* A step inside a call that touches neither the stage nor what is done.
LEMMA Stutters ==
    ASSUME mine'[Conductor] = mine[Conductor], done' = done, Phase' = Phase
    PROVE  UNCHANGED <<Phase, Left>>
  BY DEF Left, Items

LEMMA BeginRefines ==
    ASSUME IInv, NEW n \in Sizes, Begin(n)
    PROVE  Abstract!Begin(n)
  <1> USE PoolAssumption DEF PoolAssumption, TypeOK, Goto, Threads, IInv
  <1>1. /\ pc[Conductor] = "idle" /\ pc'[Conductor] = "drain"
        /\ mine'[Conductor] = [stage |-> begun, len |-> n] /\ done' = done
    BY DEF Begin, At
  <1>2. Phase = "idle" /\ Phase' = "running"
    BY <1>1 DEF Phase, Called, Rewriting
  <1>3. [stage |-> begun, len |-> n] \in [stage: Nat, len: Nat]
    OBVIOUS
  <1>4. mine'[Conductor] # NoJob /\ mine'[Conductor].stage = begun
        /\ mine'[Conductor].len = n
    BY <1>1, <1>3
  <1>5. \A i \in Nat : <<begun, i>> \notin done
    BY DEF Jobs
  <1>6. Left' = 0 .. n - 1
    BY <1>1, <1>4, <1>5 DEF Left, Items
  <1> QED
    BY <1>2, <1>6 DEF Abstract!Begin

LEMMA WorkRefines ==
    ASSUME IInv, NEW t \in Threads, Work(t)
    PROVE  \E i \in Left : Abstract!Process(i)
  <1> USE PoolAssumption DEF PoolAssumption, TypeOK, Goto, Threads, IInv
  <1>1. /\ pc[t] = "work" /\ pc' = [pc EXCEPT ![t] = "count"] /\ mine' = mine
    BY DEF Work, own
  <1>2. /\ mine[t] = job /\ job # NoJob /\ job \in Job
        /\ item[t] \in 0 .. job.len - 1 /\ <<job.stage, item[t]>> \notin done
    BY <1>1 DEF Handed, Held, Holding, Job
  <1>3. pc[Conductor] \in Staging
    BY <1>1 DEF Handed, Apart, Staging, Holding
  <1>4. mine[Conductor] = job
    BY <1>3 DEF Jobs, Staging
  <1>5. done' = done \union {<<job.stage, item[t]>>}
    BY <1>2 DEF Work
  <1>6. item[t] \in Left /\ Left' = Left \ {item[t]}
    BY <1>1, <1>2, <1>4, <1>5 DEF Left, Items
  <1>7. Phase = "running" /\ Phase' = "running"
    BY <1>1, <1>3 DEF Phase, Staging, Called, Rewriting
  <1> QED
    BY <1>6, <1>7 DEF Abstract!Process

LEMMA ReturnRefines ==
    ASSUME IInv, Return
    PROVE  Abstract!Return
  <1> USE PoolAssumption DEF PoolAssumption, TypeOK, Goto, Threads, IInv
  <1>1. /\ pc[Conductor] = "settle" /\ pc'[Conductor] = "idle"
        /\ mine' = mine /\ done' = done
    BY DEF Return, At, own
  <1>2. job # NoJob /\ job \in Job /\ mine[Conductor] = job /\ cursor >= job.len
    BY <1>1 DEF Jobs, Called, Handed, Exhausted
  <1>3. \A t \in Threads : pc[t] # "work"
    BY <1>1 DEF Handed, Apart, Holding, Staging
  <1>4. \A i \in 0 .. job.len - 1 : <<job.stage, i>> \in done
    BY <1>1, <1>2, <1>3 DEF Handed, Frontier, Job
  <1>5. Left = {} /\ Left' = Left
    BY <1>1, <1>2, <1>4 DEF Left, Items
  <1>6. Phase = "running" /\ Phase' = "idle"
    BY <1>1 DEF Phase, Called, Rewriting
  <1> QED
    BY <1>5, <1>6 DEF Abstract!Return

LEMMA StepRefines ==
    ASSUME IInv, [Next]_vars
    PROVE  [Abstract!Next]_<<Phase, Left>>
  <1> USE PoolAssumption DEF PoolAssumption, TypeOK, Goto, Threads
  <1> TypeOK
    BY DEF IInv
  <1> USE DEF Called, Rewriting
  <1>1. ASSUME NEW n \in Sizes, Begin(n) PROVE Abstract!Next
    BY <1>1, BeginRefines DEF Abstract!Next
  <1>2. ASSUME NEW t \in Threads, Work(t) PROVE Abstract!Next
    BY <1>2, WorkRefines DEF Abstract!Next, Abstract!Work
  <1>3. CASE Return
    BY <1>3, ReturnRefines DEF Abstract!Next, Abstract!Work
  <1>4. CASE Drop
    <2>1. Phase = "idle" /\ Phase' = "closed" /\ Left' = Left
      BY <1>4 DEF Drop, At, Phase, Left, Items, own
    <2> QED
      BY <2>1 DEF Abstract!Next, Abstract!Close
  <1>5. ASSUME NEW t \in Threads, Grab(t) \/ Count(t)
        PROVE  UNCHANGED <<Phase, Left>>
    BY <1>5, Stutters DEF Grab, Count, Phase
  <1>6. CASE Drained \/ WriteJob \/ Rewind \/ Arm \/ Publish \/ Woken \/ Finish
             \/ DropEpoch \/ Join
    BY <1>6, Stutters DEF Drained, WriteJob, Rewind, Arm, Publish, Woken, Finish,
                          DropEpoch, Join, At, Phase, own
  <1>7. ASSUME NEW w \in Workers, Unpark(w) \/ DropUnpark(w)
        PROVE  UNCHANGED <<Phase, Left>>
    BY <1>7, Stutters DEF Unpark, DropUnpark, Phase, own
  <1>8. ASSUME NEW w \in Workers, Poll(w) \/ Quit(w) \/ Recheck(w) \/ Wake(w)
                                   \/ Unflag(w) \/ Flag(w) \/ Lands(w)
                                   \/ WakeForNothing(w)
        PROVE  UNCHANGED <<Phase, Left>>
    BY <1>8, Stutters DEF Poll, Quit, Recheck, Wake, Unflag, Flag, Lands,
                          WakeForNothing, Phase, own
  <1>9. ASSUME NEW w \in Workers, Register(w) \/ Validate(w) \/ Read(w) \/ Leave(w)
        PROVE  UNCHANGED <<Phase, Left>>
    BY <1>9, Stutters DEF Register, Validate, Read, Leave, Phase, own
  <1>10. CASE UNCHANGED vars
    BY <1>10, Stutters DEF vars, Phase, own
  <1> QED
    BY <1>1, <1>2, <1>3, <1>4, <1>5, <1>6, <1>7, <1>8, <1>9, <1>10
       DEF Next, Conducts, Worker, Loop

\* run_stage keeps its promise for any number of workers, stages and items: it
\* returns only when the whole stage is processed, each item once.
THEOREM PoolForksAndJoins == Safety => ForkJoinSafety
  <1>1. Init => Abstract!Init
    BY InitRefines
  <1>2. IInv /\ [Next]_vars => [Abstract!Next]_<<Phase, Left>>
    BY StepRefines
  <1> QED
    BY <1>1, <1>2, Invariant, PTL DEF Safety, ForkJoinSafety, Abstract!Safety

-----------------------------------------------------------------------------
(* The walk of a parallel group over a pool that is ForkJoin.                 *)

StageTypes ==
    /\ group \in Groups
    /\ lo \in 1 .. Len(group) + 1
    /\ hi \in lo .. Len(group) + 1
    /\ made \in [Members -> Nat]

Walked ==
    \A c \in Members :
        /\ made[c] <= Len(Acts(c))
        /\ c < lo => Finished(c)
        /\ c >= hi => made[c] = 0

MembersApart ==
    \A c, d \in lo .. hi - 1 : c < d =>
        ~ group[c].dynamic /\ ~ group[d].dynamic /\ ~ Conflict(d, c)

HandedOver ==
    /\ phase = "running" <=> hi - lo >= 2
    /\ phase = "running" => \A c \in lo .. hi - 1 : c - lo \in left \/ Finished(c)

StagesInv == StageTypes /\ Walked /\ MembersApart /\ HandedOver

-----------------------------------------------------------------------------

\* A member of a group is a child, and its accesses are a sequence.
LEMMA ChildType ==
    ASSUME group \in Groups, NEW c \in Members
    PROVE  /\ Len(group) \in Nat
           /\ group[c] \in Child
           /\ Acts(c) \in Seq(Access)
           /\ Len(Acts(c)) \in Nat
           /\ \A k \in 1 .. Len(Acts(c)) : Acts(c)[k] \in Access
<1>1. group \in Seq(Child)
    BY StagesAssumption
<1>2. group[c] \in Child /\ Len(group) \in Nat
    BY <1>1 DEF Members
<1>3. Acts(c) \in Seq(Access)
    BY <1>2 DEF Acts, Child
<1> QED
    BY <1>2, <1>3

\* A stage has at least the child it opens with, ends within the group, and no
\* two of its members conflict (the loop of NodeTree::process_parallel).
LEMMA StageApart ==
    ASSUME group \in Groups, NEW i \in Members
    PROVE  /\ StageEnd(i) \in i + 1 .. Len(group) + 1
           /\ \A c, d \in i .. StageEnd(i) - 1 : c < d =>
                ~ group[c].dynamic /\ ~ group[d].dynamic /\ ~ Conflict(d, c)
<1>0. Len(group) \in Nat /\ i \in Nat /\ i <= Len(group)
    BY ChildType DEF Members
<1>1. CASE group[i].dynamic
    BY <1>0, <1>1 DEF StageEnd
<1>2. CASE ~ group[i].dynamic
    <2> DEFINE Stop == {j \in i + 1 .. Len(group) + 1 : j \in Members => ~ Joins(i, j)}
               R == OpToRel(<, Nat)
               Ends(j) == /\ \A c \in i + 1 .. j - 1 : Joins(i, c)
                          /\ j \in Members => ~ Joins(i, j)
    <2>1. Stop \subseteq Nat /\ Len(group) + 1 \in Stop
        BY <1>0 DEF Members
    <2>2. PICK j \in Stop : \A y \in Stop : ~ (<<y, j>> \in R)
        <3> HIDE DEF Stop, R
        <3> QED BY <2>1, WFMin, NatLessThanWellFounded DEF R
    <2>3. \A y \in Stop : ~ (y < j)
        BY <2>1, <2>2 DEF OpToRel
    <2>4. \A c \in i + 1 .. j - 1 : Joins(i, c)
        BY <1>0, <2>1, <2>3 DEF Members
    <2>5. \E e \in i + 1 .. Len(group) + 1 : Ends(e)
        BY <2>4
    <2>6. StageEnd(i) = CHOOSE e \in i + 1 .. Len(group) + 1 : Ends(e)
        BY <1>2 DEF StageEnd
    <2>7. StageEnd(i) \in i + 1 .. Len(group) + 1 /\ Ends(StageEnd(i))
        <3> HIDE DEF Ends
        <3> QED BY <2>5, <2>6
    <2>8. ASSUME NEW c \in i .. StageEnd(i) - 1, NEW d \in i .. StageEnd(i) - 1, c < d
          PROVE  ~ group[c].dynamic /\ ~ group[d].dynamic /\ ~ Conflict(d, c)
        <3>1. Joins(i, d)
            BY <1>0, <2>7, <2>8
        <3>2. c = i \/ Joins(i, c)
            BY <1>0, <2>7, <2>8
        <3>3. c \in i .. d - 1
            BY <1>0, <2>7, <2>8
        <3> QED BY <1>2, <3>1, <3>2, <3>3 DEF Joins
    <2> QED BY <2>7, <2>8
<1> QED BY <1>1, <1>2

\* The invariant says that buses are used in child order.
LEMMA StagesInOrder == StagesInv => BusesInOrder
<1> SUFFICES ASSUME StagesInv, NEW c \in Members, NEW d \in Members, c < d,
                    NEW k \in 1 .. Len(Acts(c)), NEW l \in 1 .. made[d],
                    Ordered(Acts(c)[k], Acts(d)[l])
             PROVE  k <= made[c]
    BY DEF BusesInOrder
<1> DEFINE a == Acts(c)[k]
           b == Acts(d)[l]
<1>1. /\ Len(group) \in Nat /\ Len(Acts(c)) \in Nat /\ Len(Acts(d)) \in Nat
      /\ lo \in Nat /\ hi \in Nat /\ made[c] \in Nat /\ made[d] \in Nat
    <2>1. group \in Groups
        BY DEF StagesInv, StageTypes
    <2>2. Len(group) \in Nat /\ Len(Acts(c)) \in Nat /\ Len(Acts(d)) \in Nat
        BY <2>1, ChildType
    <2> QED BY <2>2 DEF StagesInv, StageTypes
<1>2. l \in 1 .. Len(Acts(d)) /\ d < hi
    BY <1>1 DEF StagesInv, Walked, Members
<1>3. a \in Access /\ b \in Access
    BY <1>2, ChildType DEF StagesInv, StageTypes
<1>4. CASE c < lo
    BY <1>1, <1>4 DEF StagesInv, Walked, Finished
<1>5. CASE c >= lo
    <2>1. ~ group[c].dynamic /\ ~ group[d].dynamic /\ ~ Conflict(d, c)
        <3>1. c \in lo .. hi - 1 /\ d \in lo .. hi - 1
            BY <1>1, <1>2, <1>5 DEF Members
        <3> QED BY <3>1 DEF StagesInv, MembersApart
    <2>2. Lane(a) = Lane(b)
        BY DEF Ordered, Cell, Lane
    <2>3. Lane(a) \in Lanes(c, a.op)
        BY <2>1 DEF Lanes
    <2>4. Lane(b) \in Lanes(d, b.op)
        BY <1>2, <2>1, <2>2 DEF Lanes
    <2>5. a.op \in {"read", "write"} /\ b.op \in {"read", "write"}
        BY <1>3 DEF Access
    <2>6. "write" \in {a.op, b.op}
        BY DEF Ordered
    <2> HIDE DEF a, b
    <2>7. Conflict(d, c)
        BY <2>2, <2>3, <2>4, <2>5, <2>6 DEF Conflict
    <2> QED BY <2>1, <2>7
<1> QED
    <2>1. c \in Int /\ lo \in Int
        BY <1>1 DEF Members
    <2> QED BY <1>4, <1>5, <2>1

-----------------------------------------------------------------------------

\* Whether two children conflict depends on the group alone.
LEMMA SameConflicts ==
    ASSUME group' = group
    PROVE  \A c, d : Conflict(d, c)' = Conflict(d, c)
<1>1. \A c : Acts(c)' = Acts(c)
    BY DEF Acts
<1>2. \A c, op : Lanes(c, op)' = Lanes(c, op)
    BY <1>1 DEF Lanes
<1> QED BY <1>2 DEF Conflict

LEMMA StagesInitInv == StagesInit => StagesInv
<1> SUFFICES ASSUME StagesInit PROVE StagesInv
    OBVIOUS
<1>1. group \in Groups /\ Len(group) \in Nat
    BY StagesAssumption DEF StagesInit
<1>2. \A c \in Members : Len(Acts(c)) \in Nat
    BY <1>1, ChildType
<1>3. StageTypes
    BY <1>1 DEF StagesInit, StageTypes, Members
<1>4. Walked
    BY <1>1, <1>2 DEF StagesInit, Walked, Members, Finished
<1>5. MembersApart /\ HandedOver
    BY <1>1 DEF StagesInit, MembersApart, HandedOver, Pool!Init
<1> QED BY <1>3, <1>4, <1>5 DEF StagesInv

LEMMA StagesNextInv == StagesInv /\ [StagesNext]_stagesVars => StagesInv'
<1> SUFFICES ASSUME StagesInv, [StagesNext]_stagesVars PROVE StagesInv'
    OBVIOUS
<1>0. /\ group \in Groups /\ Len(group) \in Nat
      /\ lo \in Nat /\ hi \in Nat /\ lo <= hi /\ 1 <= lo /\ hi <= Len(group) + 1
      /\ \A c \in Members : Len(Acts(c)) \in Nat /\ made[c] \in Nat
    BY StagesAssumption, ChildType DEF StagesInv, StageTypes
<1>1. CASE Open
    <2>1. /\ lo = hi /\ lo \in Members /\ hi' = StageEnd(lo)
          /\ group' = group /\ lo' = lo /\ made' = made
        BY <1>1 DEF Open, memory
    <2>2. /\ hi' \in lo + 1 .. Len(group) + 1
          /\ \A c, d \in lo .. hi' - 1 : c < d =>
               ~ group[c].dynamic /\ ~ group[d].dynamic /\ ~ Conflict(d, c)
        BY <1>0, <2>1, StageApart
    <2>3. StageTypes'
        BY <1>0, <2>1, <2>2 DEF StagesInv, StageTypes, Members
    <2>4. Walked'
        BY <1>0, <2>1, <2>2 DEF StagesInv, Walked, Members, Finished, Acts
    <2>5. MembersApart'
        BY <2>1, <2>2, SameConflicts DEF MembersApart
    <2>6. HandedOver'
        <3>1. CASE hi' - lo >= 2
            BY <1>0, <1>1, <2>1, <2>2, <3>1 DEF Open, HandedOver, Pool!Begin
        <3>2. CASE ~ (hi' - lo >= 2)
            BY <1>0, <1>1, <2>1, <2>2, <3>2 DEF Open, HandedOver, StagesInv, pool
        <3> QED BY <3>1, <3>2
    <2> QED BY <2>3, <2>4, <2>5, <2>6 DEF StagesInv
<1>2. ASSUME NEW c \in Members, Touch(c) PROVE StagesInv'
    <2>1. /\ c \in lo .. hi - 1 /\ made[c] # Len(Acts(c))
          /\ made' = [made EXCEPT ![c] = @ + 1]
          /\ UNCHANGED <<group, lo, hi, phase, left>>
        BY <1>2 DEF Touch, Finished, walk, pool
    <2>2. made \in [Members -> Nat]
        BY DEF StagesInv, StageTypes
    <2>3. StageTypes'
        BY <2>1, <2>2 DEF StagesInv, StageTypes, Members
    <2>4. Walked'
        BY <1>0, <2>1, <2>2 DEF StagesInv, Walked, Members, Finished, Acts
    <2>5. MembersApart'
        BY <2>1, SameConflicts DEF StagesInv, MembersApart
    <2>6. HandedOver'
        BY <1>0, <2>1, <2>2 DEF StagesInv, HandedOver, Members, Finished, Acts
    <2> QED BY <2>3, <2>4, <2>5, <2>6 DEF StagesInv
<1>3. ASSUME NEW c \in Members, Visited(c) PROVE StagesInv'
    <2>1. /\ c \in lo .. hi - 1 /\ Finished(c)
          /\ phase' = phase /\ left' = left \ {c - lo}
          /\ UNCHANGED <<group, lo, hi, made>>
        BY <1>3 DEF Visited, walk, memory, Pool!Process
    <2>2. StageTypes' /\ Walked'
        BY <2>1 DEF StagesInv, StageTypes, Walked, Members, Finished, Acts
    <2>3. MembersApart'
        BY <2>1, SameConflicts DEF StagesInv, MembersApart
    <2>4. HandedOver'
        BY <1>0, <2>1 DEF StagesInv, HandedOver, Finished, Acts
    <2> QED BY <2>2, <2>3, <2>4 DEF StagesInv
<1>4. CASE Close
    <2>1. lo < hi /\ lo' = hi /\ UNCHANGED <<group, hi, made>>
        BY <1>4 DEF Close, memory
    <2>2. \A c \in lo .. hi - 1 : Finished(c)
        <3>1. CASE hi - lo >= 2
            BY <1>4, <3>1 DEF Close, Pool!Return, StagesInv, HandedOver
        <3>2. CASE ~ (hi - lo >= 2)
            BY <1>0, <1>4, <2>1, <3>2 DEF Close
        <3> QED BY <3>1, <3>2
    <2>3. StageTypes'
        BY <1>0, <2>1 DEF StagesInv, StageTypes, Members
    <2>4. Walked'
        BY <1>0, <2>1, <2>2 DEF StagesInv, Walked, Members, Finished, Acts
    <2>5. MembersApart'
        BY <1>0, <2>1 DEF MembersApart
    <2>6. HandedOver'
        <3>1. CASE hi - lo >= 2
            BY <1>0, <1>4, <2>1, <3>1 DEF Close, Pool!Return, HandedOver
        <3>2. CASE ~ (hi - lo >= 2)
            BY <1>0, <1>4, <2>1, <3>2 DEF Close, HandedOver, StagesInv, pool
        <3> QED BY <3>1, <3>2
    <2> QED BY <2>3, <2>4, <2>5, <2>6 DEF StagesInv
<1>5. CASE NextSlice
    <2>1. /\ group' \in Groups /\ lo' = 1 /\ hi' = 1 /\ lo = hi
          /\ made' = [c \in 1 .. Len(group') |-> 0]
          /\ UNCHANGED <<phase, left>>
        BY <1>5 DEF NextSlice, pool
    <2>2. group' \in Seq(Child) /\ Len(group') \in Nat
        BY <2>1, StagesAssumption
    <2>3. \A c \in Members' : Len(Acts(c)') \in Nat
        BY <2>2 DEF Members, Acts, Child
    <2>4. StageTypes'
        BY <2>1, <2>2 DEF StageTypes, Members
    <2>5. Walked'
        BY <2>1, <2>2, <2>3 DEF Walked, Members, Finished
    <2>6. MembersApart' /\ HandedOver'
        BY <1>0, <2>1, <2>2 DEF MembersApart, HandedOver, StagesInv
    <2> QED BY <2>4, <2>5, <2>6 DEF StagesInv
<1>6. CASE UNCHANGED stagesVars
    <2>1. UNCHANGED <<group, lo, hi, made, phase, left>>
        BY <1>6 DEF stagesVars
    <2>2. StageTypes' /\ Walked' /\ HandedOver'
        BY <2>1 DEF StagesInv, StageTypes, Walked, HandedOver, Members, Finished, Acts
    <2>3. MembersApart'
        BY <2>1, SameConflicts DEF StagesInv, MembersApart
    <2> QED BY <2>2, <2>3 DEF StagesInv
<1> QED BY <1>1, <1>2, <1>3, <1>4, <1>5, <1>6 DEF StagesNext

\* A parallel group uses its buses in child order whatever the pool's workers do
\* (the claim of NodeTree::process_parallel and of server/workers.rs), for any
\* groups of children and any number of lanes.
THEOREM InOrder == StagesSpec => []BusesInOrder
<1>1. StagesSpec => []StagesInv
    BY StagesInitInv, StagesNextInv, PTL DEF StagesSpec
<1> QED BY <1>1, StagesInOrder, PTL

-----------------------------------------------------------------------------
(* What the buses hold, and what is read from them.                           *)

\* The writes made so far to cell x.
WrittenTo(x) ==
    {p \in Accesses : /\ p[2] <= made[p[1]]
                      /\ AccessAt(p).op = "write" /\ Cell(AccessAt(p)) = x}

\* A list of writes has those of S, in the order of a sequential walk.
ListsAll(s, S) ==
    /\ s \in Seq(Nat \X Nat)
    /\ {s[m] : m \in DOMAIN s} = S
    /\ InWalkOrder(s)

Summed ==
    /\ \A c \in Members : \A k \in 1 .. Len(Acts(c)) : Cell(Acts(c)[k]) \in DOMAIN cells
    /\ \A x \in DOMAIN cells : ListsAll(cells[x], WrittenTo(x))

ReadInOrder ==
    /\ heard \in [Members -> Seq(Nat \X Seq(Nat \X Nat))]
    /\ \A c \in Members : \A n \in DOMAIN heard[c] :
          ListsAll(heard[c][n][2], WrittenBefore(<<c, heard[c][n][1]>>))

WalkInv == StagesInv /\ Summed /\ ReadInOrder

\* An access is a child and a place in its walk.
LEMMA AccessParts ==
    /\ \A c, k : <<c, k>> \in Accesses <=> c \in Members /\ k \in 1 .. Len(Acts(c))
    /\ \A p \in Accesses : /\ p = <<p[1], p[2]>>
                           /\ p[1] \in Members /\ p[2] \in 1 .. Len(Acts(p[1]))
<1>1. \A p : p \in Accesses <=> \E c \in Members : \E k \in 1 .. Len(Acts(c)) : p = <<c, k>>
    BY DEF Accesses
<1> QED BY <1>1

\* The walk of a group depends on the group alone.
LEMMA SameWalk ==
    ASSUME group' = group
    PROVE  /\ Accesses' = Accesses /\ Members' = Members
           /\ \A p : AccessAt(p)' = AccessAt(p)
           /\ \A p : WrittenBefore(p)' = WrittenBefore(p)
<1>1. Members' = Members /\ \A c : Acts(c)' = Acts(c)
    BY DEF Acts, Members
<1>2. Accesses' = Accesses /\ \A p : AccessAt(p)' = AccessAt(p)
    BY <1>1 DEF Accesses, AccessAt
<1> QED BY <1>1, <1>2 DEF WrittenBefore, Cell

\* The numbers of a child, and of what it has made.
LEMMA WalkTypes ==
    ASSUME StagesInv
    PROVE  /\ group \in Groups /\ Len(group) \in Nat
           /\ \A c \in Members : /\ c \in Nat /\ made[c] \in Nat
                                 /\ Len(Acts(c)) \in Nat /\ made[c] <= Len(Acts(c))
<1>1. group \in Groups /\ made \in [Members -> Nat]
    BY DEF StagesInv, StageTypes
<1>2. Len(group) \in Nat
    BY <1>1, StagesAssumption
<1>3. \A c \in Members : Len(Acts(c)) \in Nat
    BY <1>1, ChildType
<1> QED BY <1>1, <1>2, <1>3 DEF StagesInv, Walked, Members

\* Every write made to the bus a member is about to use comes before that access
\* in a sequential walk: a later child's would break the child order.
LEMMA MadeIsBefore ==
    ASSUME StagesInv, NEW c \in Members, made[c] < Len(Acts(c)),
           NEW p \in WrittenTo(Cell(Ahead(c)))
    PROVE  p \in WrittenBefore(<<c, made[c] + 1>>)
<1> DEFINE k == made[c] + 1
           d == p[1]
           l == p[2]
<1>1. /\ c \in Nat /\ made[c] \in Nat /\ k \in 1 .. Len(Acts(c))
      /\ Ahead(c) = Acts(c)[k]
    BY WalkTypes DEF Ahead
<1>2. /\ p \in Accesses /\ p = <<d, l>> /\ d \in Members /\ l \in 1 .. Len(Acts(d))
      /\ l <= made[d] /\ Acts(d)[l].op = "write" /\ Cell(Acts(d)[l]) = Cell(Acts(c)[k])
    BY <1>1, AccessParts DEF WrittenTo, AccessAt
<1>3. d \in Nat /\ made[d] \in Nat /\ l \in 1 .. made[d]
    BY <1>2, WalkTypes
<1>4. Ordered(Acts(c)[k], Acts(d)[l])
    BY <1>2 DEF Ordered
<1> HIDE DEF d, l
<1>5. ~ (c < d)
    <2>1. SUFFICES ASSUME c < d PROVE k <= made[c]
        BY <1>1
    <2> HIDE DEF k
    <2> QED BY <1>1, <1>2, <1>3, <1>4, <2>1, StagesInOrder DEF BusesInOrder
<1>6. d < c \/ (d = c /\ l < k)
    BY <1>1, <1>3, <1>5
<1>7. Earlier(p, <<c, k>>)
    BY <1>2, <1>6 DEF Earlier
<1> QED BY <1>2, <1>7 DEF WrittenBefore, AccessAt

\* Every write that comes before the access a member makes has been made.
LEMMA BeforeIsMade ==
    ASSUME StagesInv, StagesInv', NEW c \in Members, Touch(c),
           NEW p \in WrittenBefore(<<c, made[c] + 1>>)
    PROVE  p \in WrittenTo(Cell(Ahead(c)))
<1> DEFINE k == made[c] + 1
           d == p[1]
           l == p[2]
<1>1. /\ group' = group /\ made' = [made EXCEPT ![c] = @ + 1]
      /\ made \in [Members -> Nat] /\ made[c] # Len(Acts(c))
    BY DEF Touch, walk, Finished, StagesInv, StageTypes
<1>2. /\ c \in Nat /\ made[c] \in Nat /\ k \in 1 .. Len(Acts(c)) /\ made'[c] = k
      /\ Ahead(c) = Acts(c)[k]
    BY <1>1, WalkTypes DEF Ahead
<1>3. /\ p \in Accesses /\ p = <<d, l>> /\ d \in Members /\ l \in 1 .. Len(Acts(d))
      /\ Acts(d)[l].op = "write" /\ Cell(Acts(d)[l]) = Cell(Acts(c)[k])
      /\ d < c \/ (d = c /\ l < k)
    BY AccessParts DEF WrittenBefore, AccessAt, Earlier
<1>4. d \in Nat /\ made[d] \in Nat /\ l \in Nat
    BY <1>3, WalkTypes
<1>5. l <= made[d]
    <2>1. CASE d = c
        BY <1>2, <1>3, <1>4, <2>1
    <2>2. CASE d < c
        <3>1. BusesInOrder'
            BY StagesInOrder, PTL
        <3>2. Ordered(Acts(d)[l], Acts(c)[k])
            BY <1>3 DEF Ordered
        <3> HIDE DEF d, l, k
        <3>3. \A x, y \in Members : x < y =>
                 \A m \in 1 .. Len(Acts(x)), n \in 1 .. made'[y] :
                    Ordered(Acts(x)[m], Acts(y)[n]) => m <= made'[x]
            BY <1>1, <3>1, ZenonT(30) DEF BusesInOrder, Ordered, Cell, Acts, Members
        <3>4. k \in 1 .. made'[c]
            BY <1>2
        <3>5. l <= made'[d]
            BY <1>3, <2>2, <3>2, <3>3, <3>4
        <3>6. made'[d] = made[d]
            BY <1>1, <1>2, <1>3, <1>4, <2>2
        <3> QED BY <3>5, <3>6
    <2> QED BY <1>3, <2>1, <2>2
<1> QED BY <1>2, <1>3, <1>5 DEF WrittenTo, AccessAt

\* The writes made, once a member has made its next access.
LEMMA OneMoreMade ==
    ASSUME StagesInv, NEW c \in Members, Touch(c), NEW x
    PROVE  WrittenTo(x)' = IF Ahead(c).op = "write" /\ Cell(Ahead(c)) = x
                           THEN WrittenTo(x) \cup {<<c, made[c] + 1>>}
                           ELSE WrittenTo(x)
<1> DEFINE k == made[c] + 1
<1>1. /\ group' = group /\ made' = [made EXCEPT ![c] = @ + 1]
      /\ made \in [Members -> Nat] /\ made[c] # Len(Acts(c))
    BY DEF Touch, walk, Finished, StagesInv, StageTypes
<1>2. /\ c \in Nat /\ made[c] \in Nat /\ k \in 1 .. Len(Acts(c))
      /\ Ahead(c) = AccessAt(<<c, k>>) /\ <<c, k>> \in Accesses
    <2>1. c \in Nat /\ made[c] \in Nat /\ k \in 1 .. Len(Acts(c))
        BY <1>1, WalkTypes
    <2>2. Ahead(c) = AccessAt(<<c, k>>)
        BY DEF Ahead, AccessAt
    <2> HIDE DEF k
    <2>3. <<c, k>> \in Accesses
        BY <2>1, AccessParts, Zenon
    <2> QED BY <2>1, <2>2, <2>3
<1>3. Accesses' = Accesses /\ \A p : AccessAt(p)' = AccessAt(p)
    BY <1>1, SameWalk
<1>4. ASSUME NEW p \in Accesses
      PROVE  p[2] <= made'[p[1]] <=> p[2] <= made[p[1]] \/ p = <<c, k>>
    <2>1. p = <<p[1], p[2]>> /\ p[1] \in Members /\ p[2] \in Nat /\ made[p[1]] \in Nat
        BY <1>4, AccessParts, WalkTypes
    <2>2. CASE p[1] = c
        <3>1. made'[p[1]] = k
            BY <1>1, <1>2, <2>2
        <3>2. p = <<c, k>> <=> p[2] = k
            BY <2>1, <2>2
        <3> QED BY <1>2, <2>1, <2>2, <3>1, <3>2
    <2>3. CASE p[1] # c
        BY <1>1, <2>1, <2>3
    <2> QED BY <2>2, <2>3
<1> HIDE DEF k
<1>5. WrittenTo(x)' = {p \in Accesses : /\ p[2] <= made[p[1]] \/ p = <<c, k>>
                                        /\ AccessAt(p).op = "write" /\ Cell(AccessAt(p)) = x}
    BY <1>3, <1>4 DEF WrittenTo, Cell
<1>6. WrittenTo(x) = {p \in Accesses : /\ p[2] <= made[p[1]]
                                       /\ AccessAt(p).op = "write" /\ Cell(AccessAt(p)) = x}
    BY DEF WrittenTo
<1> DEFINE Fits(p) == AccessAt(p).op = "write" /\ Cell(AccessAt(p)) = x
           new == <<c, k>>
<1>7. /\ new \in Accesses
      /\ Fits(new) <=> Ahead(c).op = "write" /\ Cell(Ahead(c)) = x
    BY <1>2
<1>8. /\ \A p : p \in WrittenTo(x)' <=>
                  p \in Accesses /\ Fits(p) /\ (p[2] <= made[p[1]] \/ p = new)
      /\ \A p : p \in WrittenTo(x) <=> p \in Accesses /\ Fits(p) /\ p[2] <= made[p[1]]
    BY <1>5, <1>6
<1>9. new = <<c, made[c] + 1>>
    BY DEF k
<1> HIDE DEF Fits, new
<1>10. CASE Fits(new)
    BY <1>7, <1>8, <1>9, <1>10
<1>11. CASE ~ Fits(new)
    BY <1>7, <1>8, <1>9, <1>11
<1> QED BY <1>10, <1>11

\* A list of writes stays one when it is made longer by a write that comes after
\* all of them.
LEMMA ListGrows ==
    ASSUME NEW s, NEW S, ListsAll(s, S), NEW p \in Nat \X Nat,
           \A q \in S : Earlier(q, p)
    PROVE  ListsAll(Append(s, p), S \cup {p})
<1> DEFINE t == Append(s, p)
<1>1. /\ s \in Seq(Nat \X Nat) /\ Len(s) \in Nat
      /\ t \in Seq(Nat \X Nat) /\ Len(t) = Len(s) + 1
      /\ \A m \in 1 .. Len(s) : t[m] = s[m]
      /\ t[Len(s) + 1] = p
    BY DEF ListsAll
<1> DEFINE L == Len(s)
<1>2. /\ L \in Nat /\ DOMAIN s = 1 .. L /\ DOMAIN t = 1 .. L + 1
      /\ \A m \in 1 .. L : t[m] = s[m]
      /\ t[L + 1] = p
    BY <1>1
<1> HIDE DEF t, L
<1>3. \A m \in DOMAIN s : s[m] \in S
    BY DEF ListsAll
<1>4. {t[m] : m \in DOMAIN t} = S \cup {p}
    <2>1. ASSUME NEW m \in DOMAIN t PROVE t[m] \in S \cup {p}
        BY <1>2, <1>3, <2>1
    <2>2. ASSUME NEW q \in S \cup {p} PROVE \E m \in DOMAIN t : t[m] = q
        <3>1. CASE q = p
            BY <1>2, <3>1
        <3>2. CASE q \in S
            <4>1. PICK m \in DOMAIN s : s[m] = q
                BY <3>2 DEF ListsAll
            <4> QED BY <1>2, <4>1
        <3> QED BY <3>1, <3>2
    <2> QED BY <2>1, <2>2
<1>5. ASSUME NEW m \in DOMAIN t, NEW n \in DOMAIN t, m < n
      PROVE  Earlier(t[m], t[n])
    <2>1. m \in DOMAIN s /\ t[m] = s[m]
        BY <1>2, <1>5
    <2>2. CASE n = L + 1
        BY <1>2, <1>3, <2>1, <2>2
    <2>3. CASE n # L + 1
        <3>1. n \in DOMAIN s /\ t[n] = s[n]
            BY <1>2, <2>3
        <3> QED BY <1>5, <2>1, <3>1 DEF ListsAll, InWalkOrder
    <2> QED BY <2>2, <2>3
<1> QED BY <1>1, <1>4, <1>5 DEF ListsAll, InWalkOrder, t

\* A member's access: a read finds the writes a sequential walk would have made
\* to the bus, and a write comes after those made to it.
LEMMA TouchSums ==
    ASSUME WalkInv, StagesInv', NEW c \in Members, Touch(c)
    PROVE  Summed' /\ ReadInOrder'
<1> DEFINE k == made[c] + 1
           x == Cell(Ahead(c))
<1>1. /\ group' = group /\ made' = [made EXCEPT ![c] = @ + 1]
      /\ made \in [Members -> Nat] /\ made[c] # Len(Acts(c))
      /\ StagesInv
    BY DEF Touch, walk, Finished, WalkInv, StagesInv, StageTypes
<1>2. /\ c \in Nat /\ made[c] \in Nat /\ k \in 1 .. Len(Acts(c))
      /\ made[c] < Len(Acts(c)) /\ Ahead(c) = Acts(c)[k]
    BY <1>1, WalkTypes DEF Ahead
<1>3. x \in DOMAIN cells /\ ListsAll(cells[x], WrittenTo(x))
    BY <1>2 DEF WalkInv, Summed
<1>4. \A y : WrittenTo(y)' = IF Ahead(c).op = "write" /\ x = y
                             THEN WrittenTo(y) \cup {<<c, k>>} ELSE WrittenTo(y)
    BY <1>1, OneMoreMade
<1>5. Members' = Members /\ \A p : WrittenBefore(p)' = WrittenBefore(p)
    BY <1>1, SameWalk
<1>6. \A d : Acts(d)' = Acts(d)
    BY <1>1 DEF Acts
<1>7. WrittenTo(x) = WrittenBefore(<<c, k>>)
    <2>1. \A p \in WrittenTo(x) : p \in WrittenBefore(<<c, k>>)
        BY <1>1, <1>2, MadeIsBefore
    <2>2. \A p \in WrittenBefore(<<c, k>>) : p \in WrittenTo(x)
        BY <1>1, BeforeIsMade
    <2> QED BY <2>1, <2>2
<1>8. heard \in [Members -> Seq(Nat \X Seq(Nat \X Nat))]
    BY DEF WalkInv, ReadInOrder
<1> HIDE DEF x
<1>9. CASE Ahead(c).op = "read"
    <2>1. /\ cells' = cells
          /\ heard' = [heard EXCEPT ![c] = Append(@, <<k, cells[x]>>)]
        BY <1>9 DEF Touch, x
    <2>2. \A y : WrittenTo(y)' = WrittenTo(y)
        BY <1>4, <1>9
    <2>3. Summed'
        BY <1>5, <1>6, <2>1, <2>2 DEF WalkInv, Summed, ListsAll, InWalkOrder, Earlier, Cell
    <2>4. cells[x] \in Seq(Nat \X Nat) /\ k \in Nat
        BY <1>2, <1>3 DEF ListsAll
    <2> DEFINE told == <<k, cells[x]>>
    <2>5. told \in Nat \X Seq(Nat \X Nat) /\ told[1] = k /\ told[2] = cells[x]
        BY <2>4
    <2> HIDE DEF told, k
    <2>6. heard' \in [Members -> Seq(Nat \X Seq(Nat \X Nat))]
        BY <1>8, <2>1, <2>5 DEF told
    <2>7. ASSUME NEW d \in Members, NEW n \in DOMAIN heard'[d]
          PROVE  ListsAll(heard'[d][n][2], WrittenBefore(<<d, heard'[d][n][1]>>))
        <3>1. CASE n \in DOMAIN heard[d] /\ heard'[d][n] = heard[d][n]
            BY <3>1 DEF WalkInv, ReadInOrder
        <3>2. CASE d = c /\ heard'[d][n] = told
            BY <1>3, <1>7, <2>5, <3>2
        <3>3. \/ n \in DOMAIN heard[d] /\ heard'[d][n] = heard[d][n]
              \/ d = c /\ heard'[d][n] = told
            <4>1. CASE d # c
                BY <1>8, <2>1, <4>1
            <4>2. CASE d = c
                <5>1. heard'[c] = Append(heard[c], told) /\ heard[c] \in Seq(Nat \X Seq(Nat \X Nat))
                    BY <1>8, <2>1 DEF told
                <5> QED BY <2>5, <4>2, <5>1, SMTT(30)
            <4> QED BY <4>1, <4>2
        <3> QED BY <3>1, <3>2, <3>3
    <2>8. ReadInOrder'
        BY <1>5, <2>6, <2>7 DEF ReadInOrder, ListsAll, InWalkOrder, Earlier
    <2> QED BY <2>3, <2>8
<1>10. CASE Ahead(c).op # "read"
    <2>1. /\ heard' = heard
          /\ cells' = [cells EXCEPT ![x] = Append(@, <<c, k>>)]
        BY <1>10 DEF Touch, x
    <2>2. Ahead(c).op = "write"
        <3>1. Ahead(c) \in Access
            BY <1>1, <1>2, ChildType DEF StagesInv, StageTypes
        <3> QED BY <1>10, <3>1 DEF Access
    <2>3. ListsAll(Append(cells[x], <<c, k>>), WrittenTo(x) \cup {<<c, k>>})
        <3>1. \A q \in WrittenTo(x) : Earlier(q, <<c, k>>)
            BY <1>7 DEF WrittenBefore
        <3>2. <<c, k>> \in Nat \X Nat
            BY <1>2
        <3> HIDE DEF k
        <3> QED BY <1>3, <3>1, <3>2, ListGrows
    <2>4. ASSUME NEW y \in DOMAIN cells PROVE ListsAll(cells'[y], WrittenTo(y)')
        <3>1. CASE y = x
            BY <1>3, <1>4, <2>1, <2>2, <2>3, <3>1
        <3>2. CASE y # x
            BY <1>4, <2>1, <3>2 DEF WalkInv, Summed
        <3> QED BY <3>1, <3>2
    <2>5. DOMAIN cells' = DOMAIN cells
        BY <2>1
    <2>6. Summed'
        BY <1>5, <1>6, <2>4, <2>5 DEF WalkInv, Summed, ListsAll, InWalkOrder, Earlier, Cell
    <2>7. ReadInOrder'
        BY <1>5, <2>1 DEF WalkInv, ReadInOrder, ListsAll, InWalkOrder, Earlier
    <2> QED BY <2>6, <2>7
<1> QED BY <1>9, <1>10

\* Buses begin a slice with nothing written to them, and no child has read.
SliceBegins ==
    /\ group \in Groups
    /\ made = [c \in Members |-> 0] /\ heard = [c \in Members |-> <<>>]
    /\ cells = Unwritten(group)

LEMMA FreshSums == SliceBegins => Summed /\ ReadInOrder
<1> SUFFICES ASSUME SliceBegins PROVE Summed /\ ReadInOrder
    OBVIOUS
<1>1. \A c \in Members : \A k \in 1 .. Len(Acts(c)) : Cell(Acts(c)[k]) \in DOMAIN cells
    <2> DEFINE acts == UNION {{group[c].acts[k] : k \in 1 .. Len(group[c].acts)} :
                                 c \in 1 .. Len(group)}
    <2>1. \A c \in Members : \A k \in 1 .. Len(Acts(c)) : Acts(c)[k] \in acts
        <3> SUFFICES ASSUME NEW c \in Members, NEW k \in 1 .. Len(Acts(c)) PROVE Acts(c)[k] \in acts
            OBVIOUS
        <3>1. Acts(c)[k] \in {group[c].acts[l] : l \in 1 .. Len(group[c].acts)}
            BY DEF Acts
        <3> QED BY <3>1 DEF Members
    <2>2. DOMAIN cells = {Cell(a) : a \in acts}
        BY DEF Unwritten, SliceBegins
    <2> HIDE DEF acts
    <2> QED BY <2>1, <2>2
<1>2. \A x \in DOMAIN cells : cells[x] = <<>>
    BY DEF Unwritten, SliceBegins
<1>3. \A x : WrittenTo(x) = {}
    BY AccessParts DEF WrittenTo, SliceBegins
<1>4. ListsAll(<<>>, {})
    BY DEF ListsAll, InWalkOrder
<1>5. Summed
    BY <1>1, <1>2, <1>3, <1>4 DEF Summed
<1>6. ReadInOrder
    BY DEF ReadInOrder, SliceBegins
<1> QED BY <1>5, <1>6

LEMMA WalkInitInv == StagesInit => WalkInv
<1> SUFFICES ASSUME StagesInit PROVE WalkInv
    OBVIOUS
<1>1. StagesInv
    BY StagesInitInv
<1>2. Summed /\ ReadInOrder
    BY FreshSums DEF StagesInit, SliceBegins
<1> QED BY <1>1, <1>2 DEF WalkInv

LEMMA WalkNextInv == WalkInv /\ StagesInv' /\ [StagesNext]_stagesVars => WalkInv'
<1> SUFFICES ASSUME WalkInv, StagesInv', [StagesNext]_stagesVars PROVE WalkInv'
    OBVIOUS
<1>1. ASSUME group' = group, UNCHANGED memory PROVE WalkInv'
    <2>1. made' = made /\ cells' = cells /\ heard' = heard
        BY <1>1 DEF memory
    <2>2. /\ Accesses' = Accesses /\ Members' = Members /\ \A p : AccessAt(p)' = AccessAt(p)
          /\ \A p : WrittenBefore(p)' = WrittenBefore(p)
        BY <1>1, SameWalk
    <2>3. \A c : Acts(c)' = Acts(c)
        BY <1>1 DEF Acts
    <2>4. \A x : WrittenTo(x)' = WrittenTo(x)
        BY <2>1, <2>2 DEF WrittenTo, Cell
    <2>5. Summed'
        <3>1. \A c \in Members' : \A k \in 1 .. Len(Acts(c)') : Cell(Acts(c)'[k]) \in DOMAIN cells'
            BY <2>1, <2>2, <2>3 DEF WalkInv, Summed
        <3>2. \A x \in DOMAIN cells' : ListsAll(cells'[x], WrittenTo(x)')
            BY <2>1, <2>4 DEF WalkInv, Summed
        <3> QED BY <3>1, <3>2 DEF Summed, ListsAll, InWalkOrder, Earlier, Cell
    <2>6. ReadInOrder'
        BY <2>1, <2>2 DEF WalkInv, ReadInOrder, ListsAll, InWalkOrder, Earlier
    <2> QED BY <2>5, <2>6 DEF WalkInv
<1>2. CASE Open
    BY <1>1, <1>2 DEF Open, memory
<1>3. ASSUME NEW c \in Members, Touch(c) PROVE WalkInv'
    BY <1>3, TouchSums DEF WalkInv
<1>4. ASSUME NEW c \in Members, Visited(c) PROVE WalkInv'
    BY <1>1, <1>4 DEF Visited, walk, memory
<1>5. CASE Close
    BY <1>1, <1>5 DEF Close, memory
<1>6. CASE NextSlice
    <2>1. SliceBegins'
        BY <1>6 DEF NextSlice, Members, SliceBegins, Unwritten, Cell
    <2>2. Summed' /\ ReadInOrder'
        BY <2>1, FreshSums, PTL
    <2> QED BY <2>2 DEF WalkInv
<1>7. CASE UNCHANGED stagesVars
    BY <1>1, <1>7 DEF stagesVars, memory
<1> QED BY <1>2, <1>3, <1>4, <1>5, <1>6, <1>7 DEF StagesNext

\* Parallel rendering is bit-identical to sequential rendering (the claim of
\* NodeTree::process_parallel and of docs/parallel.md): for any groups of children,
\* any number of lanes and whatever the pool's workers do, a child reads from a bus
\* the writes it would find in a sequential walk, in the same order.
THEOREM ParallelIsSequential == StagesSpec => []SameAsSequential
<1>1. WalkInv => SameAsSequential
    BY DEF WalkInv, Summed, ReadInOrder, ListsAll, SameAsSequential
<1>2. StagesSpec => []WalkInv
    BY WalkInitInv, WalkNextInv, StagesInitInv, StagesNextInv, PTL DEF StagesSpec
<1> QED BY <1>1, <1>2, PTL
=============================================================================
