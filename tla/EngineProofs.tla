----------------------------- MODULE EngineProofs -----------------------------
(***************************************************************************)
(* Proofs about Engine, for any number of transports, any block length, any  *)
(* capacities and any commands.  One section per promise of the block loop:  *)
(* the clocks (ClockInv), the types and the bounds of the queues             *)
(* (SafelyTyped), the governed groups (GroupInv), the notes of the lanes     *)
(* (NotesInv), the order and the stamps of the queues (StampInv), the loops  *)
(* (LoopInv) and the end marks (MarkInv).  Each section states the invariant *)
(* it is about, has a lemma for each kind of step that disturbs it, and ends *)
(* with the theorem.  From the types on, every section takes SafelyTyped as  *)
(* proved.                                                                   *)
(***************************************************************************)
EXTENDS Engine, SequenceTheorems, FiniteSetTheorems, WellFoundedInduction, TLAPS

-----------------------------------------------------------------------------
(* The axes of time. *)

\* A device sample a transport's clock has reached survives the round trip.
LEMMA RoundTrip ==
    ASSUME NEW clock \in Nat, NEW frozen \in Nat
    PROVE  ToTransport(ToDevice(clock, frozen), frozen) = clock
  BY DEF ToTransport, ToDevice, SatSub

\* The clock sample PositionAnchor::reaching answers is the one the position
\* stands at what was asked, and it is later than the one it was asked at.
THEOREM ReachesExactly ==
    ASSUME NEW a \in Anchor, NEW p \in Nat, NEW clock \in Nat,
           Ahead(a, p, clock), clock >= a.since
    PROVE  /\ Reaching(a, p, clock) \in Nat
           /\ Reaching(a, p, clock) > clock
           /\ PositionAt(a, Reaching(a, p, clock)) = p
  BY DEF Anchor, Ahead, Reaching, PositionAt, SatSub
-----------------------------------------------------------------------------
(* What is due next is one of the cuts. *)

\* A set of naturals that is not empty has a smallest member.
LEMMA SmallestOf ==
    ASSUME NEW S \in SUBSET Nat, S # {}
    PROVE  \E n \in S : \A m \in S : n <= m
  <1>1. PICK n \in S : \A m \in S : ~(<<m, n>> \in OpToRel(<, Nat))
    BY NatLessThanWellFounded, WFMin, Zenon
  <1>2. ASSUME NEW m \in S PROVE n <= m
    <2>1. n \in Nat /\ m \in Nat /\ <<m, n>> \in Nat \X Nat
      BY <1>1
    <2>2. ~(m < n)
      BY <1>1, <2>1 DEF OpToRel
    <2> QED
      BY <2>1, <2>2
  <1> QED
    BY <1>2

\* A set that is not empty has a member of the least measure.
LEMMA LeastBy ==
    ASSUME NEW S, S # {}, NEW f \in [S -> Nat]
    PROVE  \E x \in S : \A y \in S : f[x] <= f[y]
  <1> DEFINE values == {f[x] : x \in S}
  <1>1. values \in SUBSET Nat /\ values # {}
    OBVIOUS
  <1>2. \E n \in values : \A m \in values : n <= m
    <2> HIDE DEF values
    <2> QED
      BY <1>1, SmallestOf
  <1> QED
    BY <1>2

\* Transport ids are natural, and None is not one of the values it stands for
\* the lack of.
LEMMA GoodConstants ==
    /\ Transports \subseteq Nat
    /\ Block \in Nat /\ Block > 0
    /\ None \notin Nat /\ None \notin Groups
  BY EngineAssumption DEF EngineAssumption

\* What can cut a block names its rank, its sample and its transport.
LEMMA CutTypes ==
    ASSUME NEW c \in Cuts
    PROVE  /\ c.rank \in {0, 1, 2, 3} /\ c.due \in Nat
           /\ c.k \in Nat
           /\ c.rank = 2 => c.k \in Transports
  <1>1. c.due \in Nat
    BY DEF Cuts, InBlock
  <1>2. c \in DeviceCuts => c.rank = 0 /\ c.k = 0
    BY DEF DeviceCuts, Cut
  <1>3. c \in TransportCuts => c.rank = 1 /\ c.k \in Transports
    BY DEF TransportCuts, Cut
  <1>4. c \in EdgeCuts => c.rank = 2 /\ c.k \in Transports
    BY DEF EdgeCuts, Edges, Cut
  <1>5. c \in LaneCuts => c.rank = 3 /\ c.k \in Transports
    BY DEF LaneCuts, Cut
  <1>6. c.k \in Transports => c.k \in Nat
    BY GoodConstants
  <1> QED
    BY <1>1, <1>2, <1>3, <1>4, <1>5, <1>6 DEF Cuts

\* What is due next is one of the cuts, and no other precedes it.
LEMMA DueIsACut ==
    ASSUME Cuts # {}
    PROVE  Due \in Cuts /\ \A d \in Cuts : Precedes(Due, d)
  <1> SUFFICES \E c \in Cuts : \A d \in Cuts : Precedes(c, d)
    BY DEF Due
  <1>1. PICK a \in Cuts : \A d \in Cuts : a.due <= d.due
    <2> DEFINE f == [c \in Cuts |-> c.due]
    <2>1. f \in [Cuts -> Nat]
      BY CutTypes
    <2>2. \E x \in Cuts : \A y \in Cuts : f[x] <= f[y]
      BY <2>1, LeastBy
    <2> QED
      BY <2>2
  <1> DEFINE First == {c \in Cuts : c.due = a.due}
  <1>2. PICK b \in First : \A d \in First : b.rank <= d.rank
    <2> DEFINE f == [c \in First |-> c.rank]
    <2>1. f \in [First -> Nat] /\ First # {}
      BY CutTypes
    <2>2. \E x \in First : \A y \in First : f[x] <= f[y]
      BY <2>1, LeastBy
    <2> QED
      BY <2>2
  <1> DEFINE Top == {c \in First : c.rank = b.rank}
  <1>3. PICK c \in Top : \A d \in Top : c.k <= d.k
    <2> DEFINE f == [e \in Top |-> e.k]
    <2>3. \A e \in Top : e.k \in Nat
      BY CutTypes
    <2>4. Top # {}
      OBVIOUS
    <2>1. f \in [Top -> Nat] /\ Top # {}
      BY <2>3, <2>4
    <2>2. \E x \in Top : \A y \in Top : f[x] <= f[y]
      BY <2>1, LeastBy
    <2> QED
      BY <2>2
  <1>4. ASSUME NEW d \in Cuts PROVE Precedes(c, d)
    <2>1. c.due <= d.due /\ c.due \in Nat /\ d.due \in Nat
      BY <1>1, CutTypes
    <2>2. c.due = d.due => c.rank <= d.rank /\ c.rank \in Nat /\ d.rank \in Nat
      BY <1>2, CutTypes
    <2>3. c.due = d.due /\ c.rank = d.rank => c.k <= d.k
      BY <1>3
    <2> QED
      BY <2>1, <2>2, <2>3 DEF Precedes
  <1> QED
    BY <1>4
-----------------------------------------------------------------------------
(* The clocks.  The invariant adds to CreditedClock that the cursor rests at  *)
(* 0 between blocks and that no frozen run begins ahead of it.                *)

ClockTypes ==
    /\ now \in Nat /\ cursor \in 0 .. Block
    /\ stage \in {"drain", "cut", "bundle"}
    /\ rolling \in [Transports -> BOOLEAN]
    /\ frozenTotal \in [Transports -> Nat]
    /\ frozenFrom \in [Transports -> (0 .. Block) \union {None}]
    /\ rolled \in [Transports -> Nat]
    /\ \A k \in Transports : published[k].clock \in Nat

RunsBehind ==
    /\ stage = "drain" => cursor = 0
    /\ \A k \in Transports : frozenFrom[k] # None => frozenFrom[k] <= cursor

ClockInv == ClockTypes /\ RunsBehind /\ CreditedClock

\* The clocks at boot.
LEMMA ClockStarts == Init => ClockInv
  <1> SUFFICES ASSUME Init PROVE ClockInv
    OBVIOUS
  <1>1. ClockTypes /\ RunsBehind
    BY GoodConstants DEF Init, ClockTypes, RunsBehind
  <1>2. CreditedClock
    BY DEF Init, CreditedClock, InFlight
  <1> QED
    BY <1>1, <1>2 DEF ClockInv

\* A command stops or rolls transports; it moves no clock.
LEMMA ApplyMovesNoClock ==
    ASSUME ClockTypes, NEW c, Apply(c)
    PROVE  /\ frozenTotal' = frozenTotal /\ frozenFrom' = frozenFrom
           /\ rolling' \in [Transports -> BOOLEAN]
  <1> USE DEF ClockTypes
  <1>1. ASSUME NEW k, Play(k) \/ StopNow(k) \/ StopRamp(k) \/ StopAgain(k)
        PROVE  /\ frozenTotal' = frozenTotal /\ frozenFrom' = frozenFrom
               /\ rolling' \in [Transports -> BOOLEAN]
    BY <1>1 DEF Play, StopNow, StopRamp, StopAgain, running
  <1>2. ASSUME NEW k, NEW p, Locate(k, p)
        PROVE  UNCHANGED <<rolling, frozenTotal, frozenFrom>>
    BY <1>2 DEF Locate
  <1>3. ASSUME NEW k, NEW x, SetLoop(k, x) \/ SetEnd(k, x) \/ SetFade(k, x)
                             \/ SetGroup(k, x)
        PROVE  UNCHANGED <<rolling, frozenTotal, frozenFrom>>
    BY <1>3 DEF SetLoop, SetEnd, SetFade, SetGroup, running
  <1>4. ASSUME NEW x, NEW y, Touch \/ ClearSched(x) \/ ClearLane(x, y)
        PROVE  UNCHANGED <<rolling, frozenTotal, frozenFrom>>
    BY <1>4 DEF Touch, ClearSched, ClearLane, running
  <1> QED
    BY <1>1, <1>2, <1>3, <1>4 DEF Apply

\* Commands that arrive touch no clock: a stop or a play only opens or
\* closes a frozen run.
LEMMA ReceiveMovesNoClock ==
    ASSUME ClockInv, Receive
    PROVE  ClockInv'
  <1>1. /\ UNCHANGED <<now, cursor, stage, published, rolled>> /\ stage = "drain"
    BY DEF Receive, block
  <1>2. /\ frozenTotal' = frozenTotal /\ frozenFrom' = frozenFrom
        /\ rolling' \in [Transports -> BOOLEAN]
    <2>1. ASSUME NEW c \in Immediate, Apply(c)
          PROVE  /\ frozenTotal' = frozenTotal /\ frozenFrom' = frozenFrom
                 /\ rolling' \in [Transports -> BOOLEAN]
      BY <2>1, ApplyMovesNoClock DEF ClockInv
    <2>2. ASSUME NEW t, NEW cmds, Schedule(t, cmds)
          PROVE  UNCHANGED <<rolling, frozenTotal, frozenFrom>>
      BY <2>2 DEF Schedule, running
    <2>3. ASSUME NEW spec, FeedLane(spec)
          PROVE  UNCHANGED <<rolling, frozenTotal, frozenFrom>>
      BY <2>3 DEF FeedLane, running
    <2> QED
      BY <2>1, <2>2, <2>3 DEF Receive, ClockInv, ClockTypes
  <1> QED
    BY <1>1, <1>2 DEF ClockInv, ClockTypes, RunsBehind, CreditedClock, InFlight

\* Ramps and readers that are settled before the first slice touch no clock.
LEMMA BeginBlockMovesNoClock ==
    ASSUME ClockInv, BeginBlock
    PROVE  ClockInv'
  <1>1. /\ UNCHANGED <<now, cursor, published, rolled, rolling, frozenTotal>>
        /\ stage = "drain" /\ stage' = "cut" /\ cursor = 0
        /\ frozenFrom' = [k \in Transports |-> IF rolling[k] THEN None ELSE 0]
    BY DEF BeginBlock, ClockInv, RunsBehind
  <1>2. ClockTypes' /\ RunsBehind'
    <2>1. \A k \in Transports : frozenFrom'[k] \in {0, None}
      BY <1>1
    <2>2. frozenFrom' \in [Transports -> (0 .. Block) \union {None}]
      BY <1>1, GoodConstants
    <2>3. ClockTypes'
      BY <1>1, <2>2 DEF ClockInv, ClockTypes
    <2>4. RunsBehind'
      BY <1>1, <2>1 DEF RunsBehind
    <2> QED
      BY <2>3, <2>4
  <1>3. CreditedClock'
    BY <1>1, GoodConstants DEF ClockInv, ClockTypes, CreditedClock, InFlight
  <1> QED
    BY <1>2, <1>3 DEF ClockInv

\* A slice advances the cursor within the block, and with it the samples
\* rolled by what rolls and the frozen run of what does not.
LEMMA SliceStaysInBlock ==
    ASSUME ClockTypes, cursor < SliceEnd
    PROVE  SliceEnd \in 0 .. Block
  <1>1. CASE Cuts = {}
    BY <1>1, GoodConstants DEF SliceEnd
  <1>2. CASE Cuts # {}
    <2>1. Due \in Cuts
      BY <1>2, DueIsACut
    <2>2. Due.due \in Nat /\ Due.due <= now + Block
      BY <2>1, GoodConstants DEF Cuts, InBlock, BlockEnd, ClockTypes
    <2>3. SliceEnd = Due.due - now
      BY <1>2 DEF SliceEnd
    <2> QED
      BY <2>2, <2>3, GoodConstants DEF ClockTypes
  <1> QED
    BY <1>1, <1>2

\* A slice moves the clock of every transport that rolls, and no other.
LEMMA SliceMovesEveryClock ==
    ASSUME ClockInv, Slice
    PROVE  ClockInv'
  <1> DEFINE to == SliceEnd
  <1>1. /\ UNCHANGED <<now, stage, published, rolling, frozenTotal, frozenFrom>>
        /\ stage = "cut" /\ cursor < to /\ cursor' = to
        /\ rolled' = [k \in Transports |->
                        rolled[k] + IF rolling[k] THEN to - cursor ELSE 0]
    BY DEF Slice, running
  <1>2. to \in 0 .. Block /\ cursor \in 0 .. Block
    BY <1>1, SliceStaysInBlock DEF ClockInv, ClockTypes
  <1> HIDE DEF to
  <1>3. ClockTypes' /\ RunsBehind'
    <2>1. rolled' \in [Transports -> Nat]
      BY <1>1, <1>2 DEF ClockInv, ClockTypes
    <2>2. ASSUME NEW k \in Transports, frozenFrom[k] # None
          PROVE  frozenFrom[k] <= to
      <3>1. frozenFrom[k] <= cursor /\ frozenFrom[k] \in 0 .. Block
        BY <2>2 DEF ClockInv, ClockTypes, RunsBehind
      <3> QED
        BY <1>1, <1>2, <3>1, GoodConstants
    <2> QED
      BY <1>1, <1>2, <2>1, <2>2 DEF ClockInv, ClockTypes, RunsBehind
  <1>4. ASSUME NEW k \in Transports
        PROVE  /\ now' + cursor' = frozenTotal'[k] + InFlight(k)' + rolled'[k]
               /\ stage' = "drain" => frozenFrom'[k] = None
               /\ stage' = "cut" => (frozenFrom'[k] = None <=> rolling'[k])
               /\ published'[k].clock <= rolled'[k]
               /\ stage' = "drain" => published'[k].clock = rolled'[k]
    <2>1. CASE rolling[k]
      BY <1>1, <1>2, <2>1, GoodConstants
         DEF ClockInv, ClockTypes, CreditedClock, InFlight
    <2>2. CASE ~rolling[k]
      BY <1>1, <1>2, <2>2, GoodConstants
         DEF ClockInv, ClockTypes, CreditedClock, InFlight
    <2> QED
      BY <2>1, <2>2
  <1> QED
    BY <1>3, <1>4 DEF ClockInv, CreditedClock

\* A frozen run begins inside the block it is counted in.
LEMMA SinceTyped ==
    ASSUME ClockTypes, RunsBehind, NEW k \in Transports
    PROVE  FrozenSince(k) \in 0 .. cursor /\ FrozenSince(k) # None
  <1>1. CASE frozenFrom[k] = None
    BY <1>1, GoodConstants DEF FrozenSince, ClockTypes
  <1>2. CASE frozenFrom[k] # None
    <2>1. frozenFrom[k] \in 0 .. Block /\ frozenFrom[k] <= cursor
      BY <1>2 DEF ClockTypes, RunsBehind
    <2> QED
      BY <1>2, <2>1, GoodConstants DEF FrozenSince, ClockTypes
  <1> QED
    BY <1>1, <1>2

\* Crossing an edge moves no clock: what it freezes begins its frozen run at
\* the cursor.
LEMMA FreezeMovesNoClock ==
    ASSUME ClockInv, stage = "cut", NEW k, NEW back, NEW byMark,
           FreezeHere(k, back, byMark)
    PROVE  ClockInv'
  <1>1. /\ UNCHANGED <<now, cursor, stage, published, rolled, frozenTotal>>
        /\ rolling' = [rolling EXCEPT ![k] = FALSE]
        /\ frozenFrom' = [frozenFrom EXCEPT ![k] = FrozenSince(k)]
    BY DEF FreezeHere, block
  <1>2. k \in Transports => FrozenSince(k) \in 0 .. cursor /\ FrozenSince(k) # None
    BY SinceTyped DEF ClockInv
  <1>3. ClockTypes' /\ RunsBehind'
    <2>1. 0 .. cursor \in SUBSET (0 .. Block)
      BY GoodConstants DEF ClockInv, ClockTypes
    <2>2. frozenFrom' \in [Transports -> (0 .. Block) \union {None}]
      BY <1>1, <1>2, <2>1 DEF ClockInv, ClockTypes
    <2>3. \A j \in Transports : frozenFrom'[j] # None => frozenFrom'[j] <= cursor
      BY <1>1, <1>2 DEF ClockInv, ClockTypes, RunsBehind
    <2> QED
      BY <1>1, <2>2, <2>3 DEF ClockInv, ClockTypes, RunsBehind
  <1>4. ASSUME NEW j \in Transports
        PROVE  /\ now' + cursor' = frozenTotal'[j] + InFlight(j)' + rolled'[j]
               /\ stage' = "cut" => (frozenFrom'[j] = None <=> rolling'[j])
    <2>1. CASE j # k
      BY <1>1, <2>1 DEF ClockInv, ClockTypes, CreditedClock, InFlight
    <2>2. CASE j = k
      <3>1. InFlight(j)' = InFlight(j)
        BY <1>1, <1>2, <2>2, GoodConstants
           DEF ClockInv, ClockTypes, InFlight, FrozenSince
      <3>2. frozenFrom'[j] # None /\ ~rolling'[j]
        BY <1>1, <1>2, <2>2 DEF ClockInv, ClockTypes
      <3> QED
        BY <1>1, <3>1, <3>2 DEF ClockInv, CreditedClock
    <2> QED
      BY <2>1, <2>2
  <1> QED
    BY <1>1, <1>3, <1>4 DEF ClockInv, CreditedClock

\* An edge opens a frozen run or closes one at the sample it is on.
LEMMA EdgeMovesNoClock ==
    ASSUME ClockInv, CrossEdge
    PROVE  ClockInv'
  <1>1. CASE Wrap \/ WrapLanding \/ RampToMark
    <2>1. UNCHANGED <<now, cursor, stage, published, rolled, rolling, frozenTotal,
                      frozenFrom>>
      BY <1>1 DEF Wrap, WrapLanding, RampToMark, block, running, history
    <2> QED
      BY <2>1 DEF ClockInv, ClockTypes, RunsBehind, CreditedClock, InFlight
  <1>2. CASE Freeze \/ StopOnMark
    BY <1>2, FreezeMovesNoClock DEF Freeze, StopOnMark, DueNow
  <1> QED
    BY <1>1, <1>2 DEF CrossEdge

\* So does the command of a bundle, or a lane event.
LEMMA BundleMovesNoClock ==
    ASSUME ClockInv, TakeDevice \/ TakeTransport \/ RunCommand \/ FireLane
    PROVE  ClockInv'
  <1>1. CASE TakeDevice \/ TakeTransport
    <2>1. /\ UNCHANGED <<now, cursor, published, rolled, rolling, frozenTotal,
                         frozenFrom>>
          /\ stage = "cut" /\ stage' = "bundle"
      BY <1>1 DEF TakeDevice, TakeTransport, DueNow, running
    <2> QED
      BY <2>1 DEF ClockInv, ClockTypes, RunsBehind, CreditedClock, InFlight
  <1>2. CASE RunCommand
    <2>1. /\ UNCHANGED <<now, cursor, stage, published, rolled>> /\ stage = "bundle"
          /\ frozenTotal' = frozenTotal /\ frozenFrom' = frozenFrom
          /\ rolling' \in [Transports -> BOOLEAN]
      BY <1>2, ApplyMovesNoClock DEF RunCommand, ClockInv
    <2> QED
      BY <2>1 DEF ClockInv, ClockTypes, RunsBehind, CreditedClock, InFlight
  <1>3. CASE FireLane
    <2>1. UNCHANGED <<now, cursor, stage, published, rolled, rolling, frozenTotal,
                      frozenFrom>>
      BY <1>3 DEF FireLane, block, running, history
    <2> QED
      BY <2>1 DEF ClockInv, ClockTypes, RunsBehind, CreditedClock, InFlight
  <1> QED
    BY <1>1, <1>2, <1>3

\* Closing a bundle moves a frozen run that it ended from in flight to the
\* total, and opens one at the cursor for each transport it stopped.
LEMMA CloseKeepsClocks ==
    ASSUME ClockInv, CloseBundle
    PROVE  ClockInv'
  <1>1. /\ UNCHANGED <<now, cursor, published, rolled, rolling>>
        /\ stage = "bundle" /\ stage' = "cut"
        /\ frozenTotal' = [k \in Transports |-> frozenTotal[k] + Credit(k)]
        /\ frozenFrom' = [k \in Transports |->
                            IF rolling[k] THEN None ELSE FrozenSince(k)]
    BY DEF CloseBundle, history
  <1>2. ASSUME NEW k \in Transports
        PROVE  /\ Credit(k) \in Nat
               /\ FrozenSince(k) \in 0 .. cursor /\ FrozenSince(k) # None
               /\ rolling[k] => Credit(k) = InFlight(k)
               /\ ~rolling[k] => Credit(k) = 0 /\ cursor - FrozenSince(k) = InFlight(k)
    <2>1. CASE frozenFrom[k] = None
      BY <1>1, <2>1, SinceTyped, GoodConstants
         DEF Credit, FrozenSince, InFlight, ClockInv, ClockTypes
    <2>2. CASE frozenFrom[k] # None
      <3>1. frozenFrom[k] \in 0 .. Block /\ frozenFrom[k] <= cursor
        BY <2>2 DEF ClockInv, ClockTypes, RunsBehind
      <3> QED
        BY <1>1, <2>2, <3>1, SinceTyped, GoodConstants
           DEF Credit, FrozenSince, InFlight, ClockInv, ClockTypes
    <2> QED
      BY <2>1, <2>2
  <1>3. ClockTypes' /\ RunsBehind'
    <2>1. frozenTotal' \in [Transports -> Nat]
      BY <1>1, <1>2 DEF ClockInv, ClockTypes
    <2>2. frozenFrom' \in [Transports -> (0 .. Block) \union {None}]
      BY <1>1, <1>2, GoodConstants DEF ClockInv, ClockTypes
    <2>3. \A k \in Transports : frozenFrom'[k] # None => frozenFrom'[k] <= cursor
      BY <1>1, <1>2, GoodConstants DEF ClockInv, ClockTypes
    <2> QED
      BY <1>1, <2>1, <2>2, <2>3 DEF ClockInv, ClockTypes, RunsBehind
  <1>4. ASSUME NEW k \in Transports
        PROVE  /\ now' + cursor' = frozenTotal'[k] + InFlight(k)' + rolled'[k]
               /\ stage' = "cut" => (frozenFrom'[k] = None <=> rolling'[k])
    <2>1. now + cursor = frozenTotal[k] + InFlight(k) + rolled[k]
      BY DEF ClockInv, CreditedClock
    <2>2. CASE rolling[k]
      BY <1>1, <1>2, <2>1, <2>2 DEF InFlight, ClockInv, ClockTypes
    <2>3. CASE ~rolling[k]
      BY <1>1, <1>2, <2>1, <2>3 DEF InFlight, ClockInv, ClockTypes
    <2> QED
      BY <2>2, <2>3
  <1> QED
    BY <1>1, <1>3, <1>4 DEF ClockInv, CreditedClock

\* The block's end credits every frozen run's tail, so the clock it publishes
\* is the count of the samples rolled.
LEMMA EndKeepsClocks ==
    ASSUME ClockInv, EndBlock
    PROVE  ClockInv'
  <1> DEFINE tail(k) == IF frozenFrom[k] # None THEN Block - frozenFrom[k] ELSE 0
             credited == [k \in Transports |-> frozenTotal[k] + tail(k)]
  <1>1. /\ stage = "cut" /\ cursor = Block /\ frozenTotal' = credited
        /\ frozenFrom' = [k \in Transports |-> None]
        /\ now' = now + Block /\ cursor' = 0 /\ stage' = "drain"
        /\ rolling' = rolling /\ rolled' = rolled
        /\ \A k \in Transports :
             published'[k].clock = SatSub(now + Block, credited[k])
    BY DEF EndBlock, BlockEnd, ToTransport, history
  <1>2. ASSUME NEW k \in Transports
        PROVE  /\ tail(k) \in Nat /\ tail(k) = InFlight(k)
               /\ frozenTotal[k] + tail(k) \in Nat
               /\ now + Block = frozenTotal[k] + tail(k) + rolled[k]
    <2>1. tail(k) \in Nat /\ tail(k) = InFlight(k)
      BY <1>1, GoodConstants DEF InFlight, ClockInv, ClockTypes, RunsBehind
    <2>2. now + cursor = frozenTotal[k] + InFlight(k) + rolled[k]
      BY DEF ClockInv, CreditedClock
    <2> QED
      BY <1>1, <2>1, <2>2 DEF ClockInv, ClockTypes
  <1>3. ASSUME NEW k \in Transports
        PROVE  published'[k].clock = rolled[k] /\ credited[k] \in Nat
               /\ now + Block = credited[k] + rolled[k]
    BY <1>1, <1>2, GoodConstants DEF SatSub, ClockInv, ClockTypes
  <1> HIDE DEF tail
  <1>4. ClockTypes' /\ RunsBehind'
    <2>1. credited \in [Transports -> Nat]
      BY <1>3
    <2> QED
      BY <1>1, <1>3, <2>1, GoodConstants DEF ClockInv, ClockTypes, RunsBehind
  <1>5. CreditedClock'
    BY <1>1, <1>3, GoodConstants DEF CreditedClock, InFlight, ClockInv, ClockTypes
  <1> QED
    BY <1>4, <1>5 DEF ClockInv

\* Every step keeps the clocks.
LEMMA ClockStays ==
    ASSUME ClockInv, [Next]_vars
    PROVE  ClockInv'
  <1>1. CASE Receive
    BY <1>1, ReceiveMovesNoClock
  <1>2. CASE BeginBlock
    BY <1>2, BeginBlockMovesNoClock
  <1>3. CASE Slice
    BY <1>3, SliceMovesEveryClock
  <1>4. CASE CrossEdge
    BY <1>4, EdgeMovesNoClock
  <1>5. CASE TakeDevice \/ TakeTransport \/ RunCommand \/ FireLane
    BY <1>5, BundleMovesNoClock
  <1>6. CASE CloseBundle
    BY <1>6, CloseKeepsClocks
  <1>7. CASE EndBlock
    BY <1>7, EndKeepsClocks
  <1>8. CASE UNCHANGED vars
    BY <1>8 DEF vars, block, running, history, ClockInv, ClockTypes, RunsBehind,
                CreditedClock, InFlight
  <1> QED
    BY <1>1, <1>2, <1>3, <1>4, <1>5, <1>6, <1>7, <1>8 DEF Next, Audio, Finished

\* Frozen time is credited at the sample a transport flips: a transport's clock
\* is the count of the samples it rolled, wherever in a block it was stopped
\* and played, and whatever stopped it.
THEOREM ClocksAreCredited == Safety => []CreditedClock
  <1>1. Init => ClockInv
    BY ClockStarts
  <1>2. ClockInv /\ [Next]_vars => ClockInv'
    BY ClockStays
  <1>3. ClockInv => CreditedClock
    BY DEF ClockInv
  <1> QED
    BY <1>1, <1>2, <1>3, PTL DEF Safety
-----------------------------------------------------------------------------
(* Queues. *)

\* Induction over the naturals, by the smallest one left out.
LEMMA Counting ==
    ASSUME NEW S, 0 \in S, \A n \in Nat : n \in S => n + 1 \in S
    PROVE  \A n \in Nat : n \in S
  <1> SUFFICES ASSUME NEW n \in Nat, n \notin S PROVE FALSE
    OBVIOUS
  <1> DEFINE out == {m \in Nat : m \notin S}
  <1>1. out \in SUBSET Nat /\ out # {}
    OBVIOUS
  <1>2. PICK m \in out : \A k \in out : m <= k
    BY <1>1, SmallestOf
  <1>3. m \in Nat /\ m # 0 /\ m - 1 \in Nat /\ m - 1 \notin out
    BY <1>2
  <1> QED  BY <1>2, <1>3

\* r is what is to be kept of the first n of q, in the order it was in.
Places(q, keep, r, n, place) ==
    /\ place \in [1 .. Len(r) -> 1 .. n]
    /\ \A i \in 1 .. Len(r) : r[i] = q[place[i]] /\ q[place[i]] \in keep
    /\ \A i, j \in 1 .. Len(r) : i < j => place[i] < place[j]
    /\ \A m \in 1 .. n : q[m] \in keep => \E i \in 1 .. Len(r) : place[i] = m
Picked(q, keep, r, n) == Len(r) <= n /\ \E place : Places(q, keep, r, n, place)

\* What is kept of one entry more.
LEMMA PickedNext ==
    ASSUME NEW S, NEW q \in Seq(S), NEW keep, NEW r \in Seq(S), NEW n \in Nat, n + 1 <= Len(q),
           Picked(q, keep, r, n)
    PROVE  /\ q[n + 1] \in keep => /\ Append(r, q[n + 1]) \in Seq(S)
                                   /\ Picked(q, keep, Append(r, q[n + 1]), n + 1)
           /\ q[n + 1] \notin keep => Picked(q, keep, r, n + 1)
  <1> DEFINE l == Len(r)
  <1>1. l \in Nat /\ l <= n
    BY DEF Picked
  <1>0. PICK place : Places(q, keep, r, n, place)
    BY DEF Picked
  <1>2. /\ place \in [1 .. l -> 1 .. n]
        /\ \A i \in 1 .. l : r[i] = q[place[i]] /\ q[place[i]] \in keep
        /\ \A i, j \in 1 .. l : i < j => place[i] < place[j]
        /\ \A m \in 1 .. n : q[m] \in keep => \E i \in 1 .. l : place[i] = m
    BY <1>0 DEF Places
  <1>3. ASSUME q[n + 1] \in keep PROVE /\ Append(r, q[n + 1]) \in Seq(S)
                                       /\ Picked(q, keep, Append(r, q[n + 1]), n + 1)
    <2> DEFINE e == q[n + 1]
               s == Append(r, e)
               next == [i \in 1 .. l + 1 |-> IF i = l + 1 THEN n + 1 ELSE place[i]]
    <2>1. e \in S
      BY <1>1
    <2>2. s \in Seq(S) /\ Len(s) = l + 1 /\ s[l + 1] = e /\ \A i \in 1 .. l : s[i] = r[i]
      BY <2>1
    <2>3. next \in [1 .. l + 1 -> 1 .. n + 1]
      BY <1>1, <1>2
    <2>4. next[l + 1] = n + 1 /\ \A i \in 1 .. l : next[i] = place[i] /\ place[i] \in 1 .. n
      BY <1>1, <1>2
    <2>5. 1 .. l + 1 = 1 .. l \cup {l + 1} /\ 1 .. n + 1 = 1 .. n \cup {n + 1}
      BY <1>1
    <2> HIDE DEF e, s, next, l
    <2>6. \A i \in 1 .. l + 1 : s[i] = q[next[i]] /\ q[next[i]] \in keep
      BY <1>2, <1>3, <2>2, <2>4, <2>5 DEF e
    <2>7. \A i, j \in 1 .. l + 1 : i < j => next[i] < next[j]
      <3>1. ASSUME NEW i \in 1 .. l, NEW j \in 1 .. l, i < j PROVE next[i] < next[j]
        BY <1>2, <2>4, <3>1
      <3>2. ASSUME NEW i \in 1 .. l PROVE next[i] < next[l + 1]
        BY <2>4
      <3>3. l \in Nat
        BY <1>1
      <3> SUFFICES ASSUME NEW i \in 1 .. l + 1, NEW j \in 1 .. l + 1, i < j PROVE next[i] < next[j]
        OBVIOUS
      <3>4. i \in 1 .. l /\ (j \in 1 .. l \/ j = l + 1)
        BY <3>3
      <3> QED  BY <3>1, <3>2, <3>4
    <2>8. \A m \in 1 .. n + 1 : q[m] \in keep => \E i \in 1 .. l + 1 : next[i] = m
      BY <1>2, <2>4, <2>5
    <2>9. Places(q, keep, s, n + 1, next)
      BY <2>2, <2>3, <2>6, <2>7, <2>8 DEF Places
    <2>10. Picked(q, keep, s, n + 1)
      BY <1>1, <2>2, <2>9 DEF Picked
    <2> QED  BY <2>2, <2>10 DEF s, e
  <1>4. ASSUME q[n + 1] \notin keep PROVE Picked(q, keep, r, n + 1)
    <2>1. place \in [1 .. l -> 1 .. n + 1]
      BY <1>1, <1>2
    <2>2. \A m \in 1 .. n + 1 : q[m] \in keep => \E i \in 1 .. l : place[i] = m
      BY <1>1, <1>2, <1>4, SMTT(30)
    <2>3. Places(q, keep, r, n + 1, place)
      BY <1>2, <2>1, <2>2 DEF Places
    <2> QED  BY <1>1, <2>3 DEF Picked
  <1> QED  BY <1>3, <1>4

\* Vec::retain leaves of a queue what is to be kept, in the order it was in.
LEMMA Retained ==
    ASSUME NEW S, NEW q \in Seq(S), NEW keep
    PROVE  Retain(q, keep) \in Seq(S) /\ Picked(q, keep, Retain(q, keep), Len(q))
  <1> DEFINE step(f, n) == IF n = 0 THEN << >>
                           ELSE IF q[n] \in keep THEN Append(f[n - 1], q[n]) ELSE f[n - 1]
             builds(f, n) == f = [m \in 0 .. n |-> step(f, m)]
             done == {n \in Nat : \E f : builds(f, n)}
  <1>1. 0 \in done
    <2> DEFINE f == [m \in 0 .. 0 |-> << >>]
    <2>1. f[0] = << >> /\ \A m \in 0 .. 0 : m = 0
      OBVIOUS
    <2>2. builds(f, 0)
      BY <2>1
    <2> HIDE DEF builds, f
    <2> QED  BY <2>2
  <1>2. ASSUME NEW n \in Nat, n \in done PROVE n + 1 \in done
    <2> SUFFICES \E f : builds(f, n + 1)
      BY SMTT(30)
    <2> HIDE DEF builds
    <2>1. PICK f : builds(f, n)
      BY <1>2
    <2> USE DEF builds
    <2> DEFINE last == IF q[n + 1] \in keep THEN Append(f[n], q[n + 1]) ELSE f[n]
               g == [m \in 0 .. n + 1 |-> IF m = n + 1 THEN last ELSE f[m]]
    <2>3. g[n + 1] = last /\ \A m \in 0 .. n : g[m] = f[m]
      OBVIOUS
    <2>4. ASSUME NEW m \in 0 .. n + 1 PROVE g[m] = step(g, m)
      <3>1. CASE m = n + 1
        BY <2>3, <3>1
      <3>2. CASE m \in 0 .. n /\ m # 0
        <4>1. m - 1 \in 0 .. n /\ g[m - 1] = f[m - 1] /\ g[m] = f[m]
          BY <2>3, <3>2
        <4>2. f[m] = step(f, m)
          BY <2>1, <3>2
        <4> HIDE DEF g
        <4> QED  BY <3>2, <4>1, <4>2
      <3>3. CASE m = 0
        <4>1. f[0] = step(f, 0) /\ g[0] = f[0]
          BY <2>1, <2>3
        <4> HIDE DEF g
        <4> QED  BY <3>3, <4>1
      <3> QED  BY <3>1, <3>2, <3>3
    <2>5. builds(g, n + 1)
      <3>1. g = [m \in 0 .. n + 1 |-> g[m]]
        OBVIOUS
      <3> HIDE DEF g
      <3> QED  BY <2>4, <3>1
    <2> HIDE DEF builds, g
    <2> QED  BY <2>5
  <1> DEFINE kept == CHOOSE f : builds(f, Len(q))
  <1>3. builds(kept, Len(q))
    <2> HIDE DEF done
    <2>1. \A n \in Nat : n \in done
      BY <1>1, <1>2, Counting
    <2> USE DEF done
    <2> HIDE DEF builds
    <2>2. Len(q) \in Nat
      OBVIOUS
    <2> QED  BY <2>1, <2>2
  <1>4. Retain(q, keep) = kept[Len(q)]
    BY DEF Retain
  <1> HIDE DEF kept
  <1>5. \A n \in 0 .. Len(q) : kept[n] = step(kept, n)
    BY <1>3
  <1> DEFINE good == {n \in Nat : n <= Len(q) => kept[n] \in Seq(S) /\ Picked(q, keep, kept[n], n)}
  <1>6. 0 \in good
    <2>1. kept[0] = << >>
      BY <1>5
    <2>2. << >> \in Seq(S) /\ Len(<< >>) = 0 /\ 1 .. 0 = {}
      OBVIOUS
    <2>3. [i \in {} |-> 0] \in [1 .. 0 -> 1 .. 0]
      BY <2>2
    <2> DEFINE place == [i \in {} |-> 0]
    <2>4. Places(q, keep, << >>, 0, place)
      BY <2>2, <2>3 DEF Places
    <2> HIDE DEF place
    <2>5. Picked(q, keep, << >>, 0)
      BY <2>2, <2>4 DEF Picked
    <2> QED  BY <2>1, <2>2, <2>5
  <1>7. ASSUME NEW n \in Nat, n \in good PROVE n + 1 \in good
    <2> SUFFICES ASSUME n + 1 <= Len(q)
                 PROVE  kept[n + 1] \in Seq(S) /\ Picked(q, keep, kept[n + 1], n + 1)
      OBVIOUS
    <2>1. kept[n] \in Seq(S) /\ Picked(q, keep, kept[n], n)
      BY <1>7
    <2>2. kept[n + 1] = IF q[n + 1] \in keep THEN Append(kept[n], q[n + 1]) ELSE kept[n]
      <3>1. n + 1 \in 0 .. Len(q) /\ n + 1 # 0 /\ (n + 1) - 1 = n
        OBVIOUS
      <3> QED  BY <1>5, <3>1
    <2> QED  BY <2>1, <2>2, PickedNext
  <1> HIDE DEF good
  <1>8. \A n \in Nat : n \in good
    BY <1>6, <1>7, Counting
  <1> USE DEF good
  <1>9. Len(q) \in Nat
    OBVIOUS
  <1> QED  BY <1>4, <1>8, <1>9

\* Insertion shifts what stood at the place and after it.
LEMMA Inserted ==
    ASSUME NEW S, NEW q \in Seq(S), NEW e \in S, NEW i \in 1 .. Len(q) + 1
    PROVE  /\ InsertAt(q, i, e) \in Seq(S) /\ Len(InsertAt(q, i, e)) = Len(q) + 1
           /\ \A j \in 1 .. Len(q) + 1 :
                InsertAt(q, i, e)[j] = IF j < i THEN q[j] ELSE IF j = i THEN e ELSE q[j - 1]
  <1> DEFINE front == SubSeq(q, 1, i - 1)
             back == SubSeq(q, i, Len(q))
             mid == << e >>
  <1>1. /\ front \in Seq(S) /\ Len(front) = i - 1 /\ \A j \in 1 .. i - 1 : front[j] = q[j]
        /\ back \in Seq(S) /\ Len(back) = Len(q) - i + 1
        /\ \A j \in 1 .. Len(q) - i + 1 : back[j] = q[i + j - 1]
    BY SubSeqProperties
  <1>2. mid \in Seq(S) /\ Len(mid) = 1 /\ mid[1] = e
    OBVIOUS
  <1> HIDE DEF front, back, mid
  <1> DEFINE head == front \o mid
  <1>3. /\ head \in Seq(S) /\ Len(head) = i /\ \A j \in 1 .. i - 1 : head[j] = q[j]
        /\ head[i] = e
    <2>1. /\ head \in Seq(S) /\ Len(head) = (i - 1) + 1
          /\ \A j \in 1 .. (i - 1) + 1 : head[j] = IF j <= i - 1 THEN front[j] ELSE mid[j - (i - 1)]
      <3>1. /\ head \in Seq(S) /\ Len(head) = Len(front) + Len(mid)
            /\ \A j \in 1 .. Len(front) + Len(mid) :
                 head[j] = IF j <= Len(front) THEN front[j] ELSE mid[j - Len(front)]
        BY <1>1, <1>2, ConcatProperties
      <3> HIDE DEF head
      <3> QED  BY <1>1, <1>2, <3>1
    <2>2. head[i] = mid[1]
      <3>1. i \in 1 .. (i - 1) + 1 /\ ~(i <= i - 1) /\ i - (i - 1) = 1
        OBVIOUS
      <3> QED  BY <2>1, <3>1
    <2>3. ASSUME NEW j \in 1 .. i - 1 PROVE head[j] = q[j]
      BY <1>1, <2>1
    <2> QED  BY <1>2, <2>1, <2>2, <2>3
  <1> HIDE DEF head
  <1>4. head \o back \in Seq(S) /\ Len(head \o back) = Len(q) + 1
    BY <1>1, <1>3, ConcatProperties
  <1>5. ASSUME NEW j \in 1 .. Len(q) + 1
        PROVE  (head \o back)[j] = IF j < i THEN q[j] ELSE IF j = i THEN e ELSE q[j - 1]
    <2>1. CASE j <= i
      BY <1>1, <1>3, <2>1, ConcatProperties
    <2>2. CASE j > i
      <3>1. (head \o back)[j] = back[j - i] /\ j - i \in 1 .. Len(q) - i + 1
        BY <1>1, <1>3, <2>2, ConcatProperties
      <3>2. back[j - i] = q[i + (j - i) - 1] /\ i + (j - i) - 1 = j - 1
        BY <1>1, <3>1, SMTT(30)
      <3>3. ~(j < i) /\ j # i
        BY <2>2
      <3>4. (head \o back)[j] = q[j - 1]
        BY <3>1, <3>2, Zenon
      <3> HIDE DEF head, back
      <3> QED  BY <3>3, <3>4
    <2>3. j <= i \/ j > i
      OBVIOUS
    <2> QED  BY <2>1, <2>2, <2>3, Zenon
  <1>6. InsertAt(q, i, e) = head \o back
    BY DEF InsertAt, head, front, back, mid
  <1> QED  BY <1>4, <1>5, <1>6

\* Removal shifts back what stood after the place.
LEMMA Removed ==
    ASSUME NEW S, NEW q \in Seq(S), NEW i \in 1 .. Len(q)
    PROVE  /\ RemoveAt(q, i) \in Seq(S) /\ Len(RemoveAt(q, i)) = Len(q) - 1
           /\ \A j \in 1 .. Len(q) - 1 : RemoveAt(q, i)[j] = IF j < i THEN q[j] ELSE q[j + 1]
  <1> DEFINE front == SubSeq(q, 1, i - 1)
             back == SubSeq(q, i + 1, Len(q))
  <1>1. /\ front \in Seq(S) /\ Len(front) = i - 1 /\ \A j \in 1 .. i - 1 : front[j] = q[j]
        /\ back \in Seq(S) /\ Len(back) = Len(q) - i
        /\ \A j \in 1 .. Len(q) - i : back[j] = q[i + j]
    BY SubSeqProperties
  <1> HIDE DEF front, back
  <1>2. front \o back \in Seq(S) /\ Len(front \o back) = Len(q) - 1
    BY <1>1, ConcatProperties
  <1>3. ASSUME NEW j \in 1 .. Len(q) - 1
        PROVE  (front \o back)[j] = IF j < i THEN q[j] ELSE q[j + 1]
    BY <1>1, ConcatProperties
  <1>4. RemoveAt(q, i) = front \o back
    BY DEF RemoveAt, front, back
  <1> QED  BY <1>2, <1>3, <1>4

\* A set of places is no larger than the queue.
LEMMA Below ==
    ASSUME NEW n \in Nat, NEW B \in SUBSET (1 .. n)
    PROVE  Cardinality(B) \in 0 .. n
  <1>1. IsFiniteSet(1 .. n) /\ Cardinality(1 .. n) = n
    BY FS_Interval
  <1>2. Cardinality(B) <= n /\ IsFiniteSet(B)
    BY <1>1, FS_Subset
  <1>3. Cardinality(B) \in Nat
    BY <1>2, FS_CardinalityType
  <1> QED  BY <1>2, <1>3
-----------------------------------------------------------------------------
(* Types. *)

RunTypes ==
    /\ stopping \in [Transports -> Stopping \union {None}]
    /\ ended \in [Transports -> BOOLEAN]
PlaceTypes ==
    /\ anchor \in [Transports -> Anchor]
    /\ looping \in [Transports -> Span \union {None}]
    /\ loopCue \in [Transports -> LoopCue \union {None}]
    /\ endMark \in [Transports -> Mark \union {None}]
    /\ fadeLen \in [Transports -> Nat]
QueueTypes ==
    /\ sched \in Seq(Bundle) /\ Len(sched) <= SchedCap
    /\ tsched \in [Transports -> Seq(Bundle)]
    /\ \A k \in Transports : Len(tsched[k]) <= SchedCap
    /\ lanes \in [Transports -> Seq(Entry)]
    /\ \A k \in Transports : Len(lanes[k]) <= LaneCap
Sounds == [note: Nat, lane: Lanes, kind: {"synth", "node"}]
TreeTypes ==
    /\ group \in [Transports -> Groups \union {None}]
    /\ paused \subseteq Groups
    /\ sounding \subseteq Sounds
RestTypes ==
    /\ batch \in Seq(Command)
    /\ published \in [Transports -> [clock: Nat, position: Nat]]
    /\ sent \in 0 .. MaxCommands
    /\ looped \in [Transports -> BOOLEAN]

Typed == ClockTypes /\ RunTypes /\ PlaceTypes /\ QueueTypes /\ TreeTypes /\ RestTypes

\* The parts of the type invariant, together.
LEMMA TypedIsTypeOK == Typed => TypeOK
  BY DEF Typed, ClockTypes, RunTypes, PlaceTypes, QueueTypes, TreeTypes, RestTypes, Sounds, TypeOK

\* The types at boot.
LEMMA TypedStarts == Init => Typed
  <1> SUFFICES ASSUME Init PROVE Typed
    OBVIOUS
  <1>1. ClockTypes
    BY ClockStarts DEF ClockInv
  <1>2. RunTypes /\ TreeTypes
    BY DEF Init, RunTypes, TreeTypes
  <1>3. PlaceTypes
    BY DEF Init, PlaceTypes, Located, Anchor
  <1>4. QueueTypes
    BY EngineAssumption DEF EngineAssumption, Init, QueueTypes
  <1>5. RestTypes
    BY EngineAssumption DEF EngineAssumption, Init, RestTypes
  <1> QED  BY <1>1, <1>2, <1>3, <1>4, <1>5 DEF Typed

\* What a command carries.
LEMMA Carries ==
    ASSUME NEW c \in Command
    PROVE  /\ c.op = "run" => c.k \in Transports /\ c.on \in BOOLEAN
           /\ c.op = "locate" => c.k \in Transports /\ c.position \in Nat
           /\ c.op = "loop" => c.k \in Transports /\ c.span \in Span \union {None}
           /\ c.op = "end" => c.k \in Transports /\ c.mark \in Mark \union {None}
           /\ c.op = "fade" => c.k \in Transports /\ c.samples \in Nat
           /\ c.op = "group" => c.k \in Transports /\ c.id \in Groups \union {None}
           /\ c.op = "clear_sched" => c.only \in Transports \union {None}
           /\ c.op = "clear_lane" => c.lane \in Lanes /\ c.release \in BOOLEAN
  BY DEF Command

\* What the assumptions say of the constants, in the form the types need.
LEMMA MoreConstants ==
    /\ SchedCap \in Nat /\ LaneCap \in Nat /\ CueWait \in Nat /\ MaxCommands \in Nat
    /\ LaneOf \in [Lanes -> Transports]
    /\ None \notin Span /\ None \notin Mark /\ None \notin Lanes
    /\ Immediate \subseteq Command /\ Bundles \subseteq Seq(Command)
    /\ Times \subseteq Nat /\ Entries \subseteq EntrySpec
  BY EngineAssumption DEF EngineAssumption

\* Every place and every clock is a natural number.
LEMMA Stands ==
    ASSUME Typed, NEW k \in Transports
    PROVE  /\ Here \in Nat /\ At(k, Here) \in Nat
           /\ ViewPosition(k) \in Nat /\ Position(k) \in Nat
           /\ anchor[k].position \in Nat /\ anchor[k].since \in Nat
           /\ frozenTotal[k] \in Nat /\ rolled[k] \in Nat
  <1>1. /\ now \in Nat /\ cursor \in Nat /\ frozenTotal[k] \in Nat /\ rolled[k] \in Nat
        /\ anchor[k].position \in Nat /\ anchor[k].since \in Nat
    BY GoodConstants DEF Typed, ClockTypes, PlaceTypes, Anchor
  <1> QED  BY <1>1 DEF Here, At, ToTransport, SatSub, ViewPosition, Position, PositionAt

\* Where a jump leaves its transport.
LEMMA JumpTyped ==
    ASSUME Typed, NEW k \in Transports, NEW p \in Nat, JumpTo(k, p)
    PROVE  anchor' \in [Transports -> Anchor] /\ looped' \in [Transports -> BOOLEAN]
  <1>1. Located(p, At(k, Here)) \in Anchor
    BY Stands DEF Located, Anchor
  <1>2. (looping[k] # None /\ p <= looping[k].end) \in BOOLEAN
    OBVIOUS
  <1> QED  BY <1>1, <1>2 DEF JumpTo, Typed, PlaceTypes, RestTypes

\* Where a transport stands is an anchor.
LEMMA ReanchoredTyped ==
    ASSUME Typed, NEW k \in Transports
    PROVE  Reanchored(k) \in Anchor
  BY Stands DEF Reanchored, Located, Anchor

\* What a loop put in place leaves.
LEMMA PutTyped ==
    ASSUME Typed, NEW k \in Transports, NEW span \in Span \union {None}, PutLoop(k, span)
    PROVE  /\ anchor' \in [Transports -> Anchor] /\ looped' \in [Transports -> BOOLEAN]
           /\ looping' \in [Transports -> Span \union {None}]
  <1>1. Reanchored(k) \in Anchor
    BY ReanchoredTyped
  <1>2. (span # None /\ ViewPosition(k) <= span.end) \in BOOLEAN
    OBVIOUS
  <1> QED  BY <1>1, <1>2 DEF PutLoop, Typed, PlaceTypes, RestTypes

\* Notes that are released leave no queue longer.
LEMMA ReleaseTyped ==
    ASSUME Typed, NEW k \in Transports, ReleaseNotes(k)
    PROVE  /\ sounding' \subseteq Sounds /\ tsched' \in [Transports -> Seq(Bundle)]
           /\ \A j \in Transports : Len(tsched'[j]) <= SchedCap
  <1>1. sounding' \subseteq sounding /\ tsched' = [tsched EXCEPT ![k] = WithoutReleases(k, Lanes)]
    BY DEF ReleaseNotes
  <1>2. /\ WithoutReleases(k, Lanes) \in Seq(Bundle)
        /\ Len(WithoutReleases(k, Lanes)) <= Len(tsched[k])
    BY Retained DEF WithoutReleases, Picked, Typed, QueueTypes
  <1> QED  BY <1>1, <1>2, MoreConstants DEF Typed, QueueTypes, TreeTypes

\* An insertion by stamp adds one entry.
LEMMA InsertTyped ==
    ASSUME NEW S, NEW q \in Seq(S), NEW e \in S
    PROVE  Insert(q, e) \in Seq(S) /\ Len(Insert(q, e)) = Len(q) + 1
  <1> DEFINE before == {i \in DOMAIN q : q[i].time <= e.time}
  <1>1. before \in SUBSET (1 .. Len(q)) /\ Len(q) \in Nat
    OBVIOUS
  <1>2. Insert(q, e) = InsertAt(q, Cardinality(before) + 1, e)
    BY DEF Insert
  <1> HIDE DEF before
  <1>3. Cardinality(before) + 1 \in 1 .. Len(q) + 1
    BY <1>1, Below
  <1> QED  BY <1>2, <1>3, Inserted

\* What a command leaves has its type, whatever its order in a bundle.
CommandTyped == RunTypes' /\ PlaceTypes' /\ QueueTypes' /\ TreeTypes' /\ looped' \in [Transports -> BOOLEAN]

\* Play and stop.
LEMMA RunTyped ==
    ASSUME Typed, NEW k \in Transports, Play(k) \/ StopNow(k) \/ StopRamp(k) \/ StopAgain(k)
    PROVE  CommandTyped
  <1>0. PausedIf(k, TRUE) \subseteq Groups /\ PausedIf(k, FALSE) \subseteq Groups
    BY GoodConstants DEF PausedIf, Typed, TreeTypes
  <1>1. CASE Play(k)
    <2>1. stopping' \in [Transports -> Stopping \union {None}] /\ paused' \subseteq Groups
      BY <1>0, <1>1 DEF Play, Typed, RunTypes, TreeTypes
    <2> QED  BY <1>1, <2>1 DEF Play, CommandTyped, Typed, RunTypes, PlaceTypes, QueueTypes, TreeTypes,
                RestTypes, placing, queues
  <1>2. CASE StopNow(k)
    <2>1. /\ sounding' \subseteq Sounds /\ tsched' \in [Transports -> Seq(Bundle)]
          /\ \A j \in Transports : Len(tsched'[j]) <= SchedCap
      BY <1>2, ReleaseTyped DEF StopNow
    <2> QED  BY <1>0, <1>2, <2>1 DEF StopNow, CommandTyped, Typed, RunTypes, PlaceTypes, QueueTypes,
                TreeTypes, RestTypes, placing
  <1>3. CASE StopRamp(k)
    <2>1. /\ sounding' \subseteq Sounds /\ tsched' \in [Transports -> Seq(Bundle)]
          /\ \A j \in Transports : Len(tsched'[j]) <= SchedCap
      BY <1>3, ReleaseTyped DEF StopRamp
    <2>2. PICK len \in 1 .. fadeLen[k] :
            stopping' = [stopping EXCEPT ![k] =
                            [at |-> Here + len, back |-> None, ended |-> FALSE, mark |-> None]]
      BY <1>3 DEF StopRamp
    <2>3. [at |-> Here + len, back |-> None, ended |-> FALSE, mark |-> None] \in Stopping
      <3>1. fadeLen[k] \in Nat /\ Here \in Nat
        BY Stands DEF Typed, PlaceTypes
      <3> QED  BY <3>1 DEF Stopping
    <2>4. stopping' \in [Transports -> Stopping \union {None}]
      BY <2>2, <2>3 DEF Typed, RunTypes
    <2> QED  BY <1>3, <2>1, <2>4 DEF StopRamp, CommandTyped, Typed, RunTypes, PlaceTypes, QueueTypes,
                TreeTypes, RestTypes, placing
  <1>4. CASE StopAgain(k)
    BY <1>4 DEF StopAgain, CommandTyped, Typed, RunTypes, PlaceTypes, QueueTypes, TreeTypes,
       RestTypes, running, placing, queues, tree
  <1> QED  BY <1>1, <1>2, <1>3, <1>4

\* Locate.
LEMMA LocateTyped ==
    ASSUME Typed, NEW k \in Transports, NEW p \in Nat, Locate(k, p)
    PROVE  CommandTyped
  <1>1. /\ sounding' \subseteq Sounds /\ tsched' \in [Transports -> Seq(Bundle)]
        /\ \A j \in Transports : Len(tsched'[j]) <= SchedCap
    BY ReleaseTyped DEF Locate
  <1>2. /\ stopping' \in [Transports -> Stopping \union {None}]
        /\ anchor' \in [Transports -> Anchor] /\ looped' \in [Transports -> BOOLEAN]
    <2>1. CASE stopping[k] # None
      <3>1. stopping[k] \in Stopping
        BY <2>1 DEF Typed, RunTypes
      <3>2. [stopping[k] EXCEPT !.back = p] \in Stopping
        BY <3>1 DEF Stopping
      <3>3. stopping' = [stopping EXCEPT ![k] = [stopping[k] EXCEPT !.back = p]]
        BY <2>1 DEF Locate, Typed, RunTypes
      <3> QED  BY <2>1, <3>2, <3>3 DEF Locate, Typed, RunTypes, PlaceTypes, RestTypes
    <2>2. CASE stopping[k] = None
      BY <2>2, JumpTyped DEF Locate, Typed, RunTypes
    <2> QED  BY <2>1, <2>2
  <1> QED  BY <1>1, <1>2 DEF Locate, CommandTyped, Typed, RunTypes, PlaceTypes, QueueTypes, TreeTypes,
              RestTypes

\* A loop set or lifted.
LEMMA LoopTyped ==
    ASSUME Typed, NEW k \in Transports, NEW span \in Span \union {None}, SetLoop(k, span)
    PROVE  CommandTyped
  <1>1. /\ anchor' \in [Transports -> Anchor] /\ looped' \in [Transports -> BOOLEAN]
        /\ looping' \in [Transports -> Span \union {None}]
        /\ loopCue' \in [Transports -> LoopCue \union {None}]
    <2>1. CASE rolling[k] /\ looping[k] # span /\ group[k] # None /\ Readers
      <3> DEFINE cue == [span |-> span, waited |-> 0,
                         short |-> span # None /\ Position(k) < span.end]
      <3>1. cue \in LoopCue
        BY MoreConstants DEF LoopCue
      <3>2. loopCue' = [loopCue EXCEPT ![k] = cue] /\ UNCHANGED <<anchor, looping, looped>>
        BY <2>1 DEF SetLoop
      <3> HIDE DEF cue
      <3> QED  BY <3>1, <3>2 DEF Typed, PlaceTypes, RestTypes
    <2>2. CASE ~(rolling[k] /\ looping[k] # span /\ group[k] # None /\ Readers)
      BY <2>2, PutTyped DEF SetLoop, Typed, PlaceTypes
    <2> QED  BY <2>1, <2>2
  <1> QED  BY <1>1 DEF SetLoop, CommandTyped, Typed, RunTypes, PlaceTypes, QueueTypes, TreeTypes,
              RestTypes, running, queues, tree

\* The commands that set one thing.
LEMMA SettingTyped ==
    ASSUME Typed, NEW k \in Transports, NEW x,
           \/ x \in Mark \union {None} /\ SetEnd(k, x)
           \/ x \in Nat /\ SetFade(k, x)
           \/ x \in Groups \union {None} /\ SetGroup(k, x)
           \/ Touch
    PROVE  CommandTyped
  <1>1. CASE x \in Mark \union {None} /\ SetEnd(k, x)
    BY <1>1 DEF SetEnd, CommandTyped, Typed, RunTypes, PlaceTypes, QueueTypes, TreeTypes, RestTypes,
       running, queues, tree
  <1>2. CASE x \in Nat /\ SetFade(k, x)
    BY <1>2 DEF SetFade, CommandTyped, Typed, RunTypes, PlaceTypes, QueueTypes, TreeTypes, RestTypes,
       running, queues, tree
  <1>3. CASE x \in Groups \union {None} /\ SetGroup(k, x)
    BY <1>3 DEF SetGroup, Adopted, CommandTyped, Typed, RunTypes, PlaceTypes, QueueTypes, TreeTypes,
       RestTypes, running, placing, queues
  <1>4. CASE Touch
    BY <1>4 DEF Touch, CommandTyped, Typed, RunTypes, PlaceTypes, QueueTypes, TreeTypes, RestTypes,
       running, placing, queues, tree
  <1> QED  BY <1>1, <1>2, <1>3, <1>4

\* The commands that clear a queue.
LEMMA ClearTyped ==
    ASSUME Typed,
           \/ \E only : ClearSched(only)
           \/ \E lane \in Lanes : \E release : ClearLane(lane, release)
    PROVE  CommandTyped
  <1>1. ASSUME NEW only, ClearSched(only) PROVE CommandTyped
    <2>1. ASSUME NEW k \in Transports PROVE Kept(k) \in Seq(Bundle) /\ Len(Kept(k)) <= SchedCap
      <3>1. Kept(k) \in Seq(Bundle) /\ Len(Kept(k)) <= Len(tsched[k])
        BY Retained DEF Kept, Picked, Typed, QueueTypes
      <3> QED  BY <3>1, MoreConstants DEF Typed, QueueTypes
    <2>2. /\ tsched' \in [Transports -> Seq(Bundle)]
          /\ \A k \in Transports : Len(tsched'[k]) <= SchedCap
      BY <1>1, <2>1 DEF ClearSched, Typed, QueueTypes
    <2>3. sched' \in Seq(Bundle) /\ Len(sched') <= SchedCap
      BY <1>1, MoreConstants DEF ClearSched, Typed, QueueTypes
    <2> QED  BY <1>1, <2>2, <2>3 DEF ClearSched, CommandTyped, Typed, RunTypes, PlaceTypes, QueueTypes,
                TreeTypes, RestTypes, running, placing, tree
  <1>2. ASSUME NEW lane \in Lanes, NEW release, ClearLane(lane, release) PROVE CommandTyped
    <2> DEFINE k == LaneOf[lane]
               entries == Retain(lanes[k], {e \in Range(lanes[k]) : e.lane # lane})
               others == WithoutReleases(k, {lane})
    <2>1. k \in Transports
      BY MoreConstants
    <2>2. entries \in Seq(Entry) /\ Len(entries) <= LaneCap
      <3>1. entries \in Seq(Entry) /\ Len(entries) <= Len(lanes[k])
        BY <2>1, Retained DEF Picked, Typed, QueueTypes
      <3> HIDE DEF entries
      <3> QED  BY <2>1, <3>1, MoreConstants DEF Typed, QueueTypes
    <2>3. others \in Seq(Bundle) /\ Len(others) <= SchedCap
      <3>1. others \in Seq(Bundle) /\ Len(others) <= Len(tsched[k])
        BY <2>1, Retained DEF WithoutReleases, Picked, Typed, QueueTypes
      <3> HIDE DEF others
      <3> QED  BY <2>1, <3>1, MoreConstants DEF Typed, QueueTypes
    <2>4. /\ lanes' = [lanes EXCEPT ![k] = entries]
          /\ tsched' = IF release THEN [tsched EXCEPT ![k] = others] ELSE tsched
          /\ sounding' \subseteq sounding
      BY <1>2 DEF ClearLane
    <2> HIDE DEF k, entries, others
    <2>5. QueueTypes'
      <3>1. /\ lanes' \in [Transports -> Seq(Entry)]
            /\ \A j \in Transports : Len(lanes'[j]) <= LaneCap
        BY <2>2, <2>4 DEF Typed, QueueTypes
      <3>2. /\ tsched' \in [Transports -> Seq(Bundle)]
            /\ \A j \in Transports : Len(tsched'[j]) <= SchedCap
        BY <2>3, <2>4 DEF Typed, QueueTypes
      <3>3. sched' = sched
        BY <1>2 DEF ClearLane
      <3> QED  BY <3>1, <3>2, <3>3 DEF Typed, QueueTypes
    <2> QED  BY <1>2, <2>4, <2>5 DEF ClearLane, CommandTyped, Typed, RunTypes, PlaceTypes, TreeTypes,
                RestTypes, running, placing
  <1> QED  BY <1>1, <1>2

\* Every command.
LEMMA ApplyTyped ==
    ASSUME Typed, NEW c \in Command, Apply(c)
    PROVE  CommandTyped
  <1>1. CASE c.op = "run" /\ (Play(c.k) \/ StopNow(c.k) \/ StopRamp(c.k) \/ StopAgain(c.k))
    BY <1>1, Carries, RunTyped
  <1>2. CASE c.op = "locate" /\ Locate(c.k, c.position)
    BY <1>2, Carries, LocateTyped
  <1>3. CASE c.op = "loop" /\ SetLoop(c.k, c.span)
    BY <1>3, Carries, LoopTyped
  <1>4. CASE c.op = "end" /\ SetEnd(c.k, c.mark)
    BY <1>4, Carries, SettingTyped
  <1>5. CASE c.op = "fade" /\ SetFade(c.k, c.samples)
    BY <1>5, Carries, SettingTyped
  <1>6. CASE c.op = "group" /\ SetGroup(c.k, c.id)
    BY <1>6, Carries, SettingTyped
  <1>7. CASE Touch
    BY <1>7 DEF Touch, CommandTyped, Typed, RunTypes, PlaceTypes, QueueTypes, TreeTypes, RestTypes,
       running, placing, queues, tree
  <1>8. CASE c.op = "clear_sched" /\ ClearSched(c.only)
    BY <1>8, ClearTyped
  <1>9. CASE c.op = "clear_lane" /\ ClearLane(c.lane, c.release)
    BY <1>9, Carries, ClearTyped
  <1> QED  BY <1>1, <1>2, <1>3, <1>4, <1>5, <1>6, <1>7, <1>8, <1>9 DEF Apply

\* A bundle is governed by one transport or by none.
LEMMA GovernsOne ==
    ASSUME Typed, NEW cmds \in Seq(Command)
    PROVE  Governing(cmds) = None \/ Governing(cmds) \in Transports
  <1> DEFINE governed == {i \in DOMAIN cmds :
                            /\ cmds[i].op = "touch"
                            /\ \E k \in Transports : group[k] = cmds[i].group}
             first == CHOOSE i \in governed : \A j \in governed : i <= j
  <1>1. Governing(cmds) = IF governed = {} THEN None
                          ELSE CHOOSE k \in Transports : group[k] = cmds[first].group
    BY DEF Governing
  <1>2. ASSUME governed # {} PROVE first \in governed
    <2>1. governed \in SUBSET Nat
      OBVIOUS
    <2> HIDE DEF governed
    <2> QED  BY <1>2, <2>1, SmallestOf
  <1>3. ASSUME governed # {}
        PROVE  (CHOOSE k \in Transports : group[k] = cmds[first].group) \in Transports
    <2>1. \E k \in Transports : group[k] = cmds[first].group
      BY <1>2, <1>3
    <2> HIDE DEF first
    <2> QED  BY <2>1
  <1> HIDE DEF governed, first
  <1> QED  BY <1>1, <1>3

\* A bundle that is scheduled is put in one queue that has room.
LEMMA ScheduleTyped ==
    ASSUME Typed, NEW time \in Nat, NEW cmds \in Seq(Command), Schedule(time, cmds)
    PROVE  CommandTyped
  <1> DEFINE bundle(at, from) == [time |-> at, born |-> from, sent |-> sent,
                                  lead |-> SatSub(time, Here),
                                  cmds |-> cmds, lane |-> None, note |-> None]
             k == Governing(cmds)
  <1>1. ASSUME NEW at \in Nat, NEW from \in Nat PROVE bundle(at, from) \in Bundle
    <2>1. sent \in Nat /\ SatSub(time, Here) \in Nat
      <3>1. Here \in Nat
        BY GoodConstants DEF Here, Typed, ClockTypes
      <3> QED  BY <3>1, MoreConstants DEF SatSub, Typed, RestTypes
    <2> QED  BY <2>1 DEF Bundle
  <1>2. /\ UNCHANGED <<running, placing, lanes, tree, looped>>
        /\ k = None => /\ sched' = IF Full(sched) THEN sched ELSE Insert(sched, bundle(time, Here))
                       /\ tsched' = tsched
        /\ k # None => /\ tsched' = IF Full(tsched[k]) THEN tsched
                             ELSE [tsched EXCEPT ![k] =
                                     Insert(@, bundle(At(k, time), rolled[k]))]
                       /\ sched' = sched
    BY DEF Schedule
  <1> HIDE DEF bundle
  <1>3. CASE k = None
    <2>1. Here \in Nat
      BY GoodConstants DEF Here, Typed, ClockTypes
    <2>2. sched' \in Seq(Bundle) /\ Len(sched') <= SchedCap
      <3> DEFINE b == bundle(time, Here)
      <3>1. b \in Bundle
        BY <1>1, <2>1
      <3> HIDE DEF b
      <3>2. Insert(sched, b) \in Seq(Bundle) /\ Len(Insert(sched, b)) = Len(sched) + 1
        BY <3>1, InsertTyped DEF Typed, QueueTypes
      <3>3. sched' = IF Full(sched) THEN sched ELSE Insert(sched, b)
        BY <1>2, <1>3 DEF b
      <3> QED  BY <3>2, <3>3, MoreConstants DEF Full, Typed, QueueTypes
    <2> QED  BY <1>2, <1>3, <2>2 DEF CommandTyped, Typed, RunTypes, PlaceTypes, QueueTypes, TreeTypes,
                RestTypes, running, placing, tree
  <1>4. CASE k # None
    <2>1. k \in Transports
      BY <1>4, GovernsOne
    <2> HIDE DEF k
    <2>2. tsched' \in [Transports -> Seq(Bundle)] /\ \A j \in Transports : Len(tsched'[j]) <= SchedCap
      <3> DEFINE b == bundle(At(k, time), rolled[k])
                 q == Insert(tsched[k], b)
      <3>1. b \in Bundle
        <4>1. At(k, time) \in Nat /\ rolled[k] \in Nat
          BY <2>1 DEF At, ToTransport, SatSub, Typed, ClockTypes
        <4> QED  BY <1>1, <4>1
      <3> HIDE DEF b
      <3>2. q \in Seq(Bundle) /\ Len(q) = Len(tsched[k]) + 1
        BY <2>1, <3>1, InsertTyped DEF Typed, QueueTypes
      <3>3. tsched' = IF Full(tsched[k]) THEN tsched ELSE [tsched EXCEPT ![k] = q]
        BY <1>2, <1>4 DEF b
      <3> HIDE DEF q
      <3> QED  BY <2>1, <3>2, <3>3, MoreConstants DEF Full, Typed, QueueTypes
    <2> QED  BY <1>2, <1>4, <2>2 DEF CommandTyped, Typed, RunTypes, PlaceTypes, QueueTypes, TreeTypes,
                RestTypes, running, placing, tree
  <1> QED  BY <1>3, <1>4

\* A lane event that arrives, is refused or is put in a queue that has room.
LEMMA FeedTyped ==
    ASSUME Typed, NEW spec \in EntrySpec, FeedLane(spec)
    PROVE  CommandTyped
  <1> DEFINE k == LaneOf[spec.lane]
             before == {i \in DOMAIN lanes[k] : lanes[k][i].position <= spec.position}
             entry == [position |-> spec.position, lane |-> spec.lane,
                       length |-> spec.length, kind |-> spec.kind, note |-> sent]
             q == InsertAt(lanes[k], Cardinality(before) + 1, entry)
  <1>1. k \in Transports
    BY MoreConstants DEF EntrySpec
  <1>2. entry \in Entry
    BY MoreConstants DEF EntrySpec, Entry, Typed, RestTypes
  <1>3. /\ UNCHANGED <<running, placing, sched, tsched, tree, looped>>
        /\ lanes' = IF Len(lanes[k]) >= LaneCap THEN lanes ELSE [lanes EXCEPT ![k] = q]
    BY DEF FeedLane
  <1> HIDE DEF entry, k
  <1>4. lanes[k] \in Seq(Entry) /\ Len(lanes[k]) <= LaneCap /\ Len(lanes[k]) \in Nat
    BY <1>1 DEF Typed, QueueTypes
  <1>5. Cardinality(before) + 1 \in 1 .. Len(lanes[k]) + 1
    <2>1. before \in SUBSET (1 .. Len(lanes[k]))
      BY <1>4
    <2> HIDE DEF before
    <2> QED  BY <1>4, <2>1, Below
  <1> HIDE DEF before
  <1>6. q \in Seq(Entry) /\ Len(q) = Len(lanes[k]) + 1
    BY <1>2, <1>4, <1>5, Inserted
  <1> HIDE DEF q
  <1>7. /\ lanes' \in [Transports -> Seq(Entry)]
        /\ \A j \in Transports : Len(lanes'[j]) <= LaneCap
    BY <1>1, <1>3, <1>4, <1>6, MoreConstants DEF Typed, QueueTypes
  <1> QED  BY <1>3, <1>7 DEF CommandTyped, Typed, RunTypes, PlaceTypes, QueueTypes, TreeTypes,
              RestTypes, running, placing, tree

\* What arrives.
LEMMA ReceiveTyped ==
    ASSUME Typed, ClockTypes', Receive
    PROVE  Typed'
  <1>1. CommandTyped
    BY ApplyTyped, ScheduleTyped, FeedTyped, MoreConstants DEF Receive
  <1>2. sent' \in 0 .. MaxCommands /\ UNCHANGED <<batch, published>>
    BY MoreConstants DEF Receive, Typed, RestTypes, block
  <1> QED  BY <1>1, <1>2 DEF CommandTyped, Typed, RestTypes

\* The start of a block.
LEMMA BeginTyped ==
    ASSUME Typed, ClockTypes', BeginBlock
    PROVE  Typed'
  <1> DEFINE cued == {k \in Transports : loopCue[k] # None}
  <1>1. PICK ready \in SUBSET cued :
         /\ {k \in cued : NeedNotWait(k)} \subseteq ready
         /\ loopCue' = [k \in Transports |->
                          IF k \in ready THEN None
                          ELSE IF k \in cued THEN [loopCue[k] EXCEPT !.waited = @ + 1]
                          ELSE loopCue[k]]
         /\ looping' = [k \in Transports |->
                          IF k \in ready THEN loopCue[k].span ELSE looping[k]]
         /\ anchor' = [k \in Transports |->
                          IF k \in ready THEN Reanchored(k) ELSE anchor[k]]
         /\ looped' = [k \in Transports |->
                          IF k \in ready
                          THEN loopCue[k].span # None
                               /\ ViewPosition(k) <= loopCue[k].span.end
                          ELSE looped[k]]
    BY DEF BeginBlock
  <1>2. ASSUME NEW k \in cued
        PROVE  /\ loopCue[k].span \in Span \union {None}
               /\ k \notin ready => [loopCue[k] EXCEPT !.waited = @ + 1] \in LoopCue
    <2>1. loopCue[k] \in LoopCue
      BY <1>2 DEF Typed, PlaceTypes
    <2>2. loopCue[k].span \in Span \union {None} /\ loopCue[k].waited \in 0 .. CueWait
      BY <2>1 DEF LoopCue
    <2>3. ASSUME k \notin ready PROVE loopCue[k].waited + 1 \in 0 .. CueWait
      <3>1. ~(loopCue[k].waited >= CueWait)
        BY <1>1, <1>2, <2>3 DEF NeedNotWait
      <3> QED  BY <2>2, <3>1, MoreConstants
    <2>4. ASSUME NEW r \in LoopCue, NEW w \in 0 .. CueWait
          PROVE  [r EXCEPT !.waited = w] \in LoopCue
      BY DEF LoopCue
    <2> QED  BY <2>1, <2>2, <2>3, <2>4
  <1>3. loopCue' \in [Transports -> LoopCue \union {None}]
    <2>1. ASSUME NEW k \in Transports PROVE loopCue'[k] \in LoopCue \union {None}
      BY <1>1, <1>2 DEF Typed, PlaceTypes
    <2> QED  BY <1>1, <2>1
  <1>4. looping' \in [Transports -> Span \union {None}]
    <2>1. ASSUME NEW k \in Transports PROVE looping'[k] \in Span \union {None}
      BY <1>1, <1>2 DEF Typed, PlaceTypes
    <2> QED  BY <1>1, <2>1
  <1>5. anchor' \in [Transports -> Anchor]
    <2>1. ASSUME NEW k \in Transports PROVE anchor'[k] \in Anchor
      BY <1>1, ReanchoredTyped DEF Typed, PlaceTypes
    <2> QED  BY <1>1, <2>1
  <1>6. looped' \in [Transports -> BOOLEAN]
    <2>1. ASSUME NEW k \in Transports PROVE looped'[k] \in BOOLEAN
      BY <1>1, Zenon DEF Typed, RestTypes
    <2> QED  BY <1>1, <2>1
  <1>7. /\ UNCHANGED <<batch, rolling, stopping, ended, endMark, fadeLen, published, sent>>
        /\ UNCHANGED <<sched, tsched, lanes, group, paused, sounding>>
    BY DEF BeginBlock, queues, tree
  <1> QED  BY <1>3, <1>4, <1>5, <1>6, <1>7 DEF Typed, RunTypes, PlaceTypes, QueueTypes, TreeTypes,
              RestTypes

\* What falls due on an edge says of the transport that crosses it.
LEMMA EdgeSays ==
    ASSUME NEW j \in Transports, NEW c \in Edges(j)
    PROVE  /\ c.k = j /\ c.rank = 2 /\ rolling[j]
           /\ c.edge \in {"freeze", "wrap", "end", "end_ramp"}
           /\ c.edge = "freeze" => stopping[j] # None
           /\ c.edge # "freeze" => stopping[j] = None
           /\ c.edge = "wrap" => looping[j] # None
           /\ c.edge \in {"end", "end_ramp"} => looping[j] = None /\ endMark[j] # None
  BY DEF Edges, Cut

\* What is due is due by now, and it is what it says it is.
LEMMA DueSays ==
    ASSUME NEW edge, DueNow(edge)
    PROVE  /\ Due \in Cuts /\ Due.edge = edge /\ stage = "cut" /\ Due.due <= Here
           /\ edge \notin {"bundle", "lane"} => Due.k \in Transports /\ Due \in Edges(Due.k)
           /\ edge = "bundle" => \/ Due.rank = 0 /\ sched # << >>
                                 \/ /\ Due.rank = 1 /\ Due.k \in Transports
                                    /\ rolling[Due.k] /\ tsched[Due.k] # << >>
           /\ edge = "lane" => /\ Due.k \in Transports /\ rolling[Due.k]
                               /\ LaneAhead(Due.k) # {}
  <1>1. Due \in Cuts /\ Due.edge = edge /\ stage = "cut" /\ Due.due <= Here
    BY DueIsACut DEF DueNow
  <1>2. ASSUME NEW c \in DeviceCuts PROVE c.edge = "bundle" /\ c.rank = 0 /\ sched # << >>
    BY DEF DeviceCuts, Cut
  <1>3. ASSUME NEW c \in TransportCuts
        PROVE  /\ c.edge = "bundle" /\ c.rank = 1 /\ c.k \in Transports
               /\ rolling[c.k] /\ tsched[c.k] # << >>
    BY DEF TransportCuts, Cut
  <1>4. ASSUME NEW c \in EdgeCuts
        PROVE  c.k \in Transports /\ c \in Edges(c.k) /\ c.edge \notin {"bundle", "lane"}
    <2>1. PICK j \in Transports : c \in Edges(j)
      BY DEF EdgeCuts
    <2> QED  BY <2>1, EdgeSays
  <1>5. ASSUME NEW c \in LaneCuts
        PROVE  c.edge = "lane" /\ c.k \in Transports /\ rolling[c.k] /\ LaneAhead(c.k) # {}
    BY DEF LaneCuts, Cut
  <1>6. Due \in DeviceCuts \/ Due \in TransportCuts \/ Due \in EdgeCuts \/ Due \in LaneCuts
    BY <1>1 DEF Cuts
  <1> QED  BY <1>1, <1>2, <1>3, <1>4, <1>5, <1>6

\* The next entry of a transport is one it has not reached.
LEMMA NextIsAhead ==
    ASSUME Typed, NEW k \in Transports, LaneAhead(k) # {}
    PROVE  /\ NextEntry(k) \in LaneAhead(k) /\ NextEntry(k) \in 1 .. Len(lanes[k])
           /\ lanes[k][NextEntry(k)] \in Entry
  <1>1. lanes[k] \in Seq(Entry)
    BY DEF Typed, QueueTypes
  <1>2. LaneAhead(k) \in SUBSET Nat /\ LaneAhead(k) \in SUBSET (1 .. Len(lanes[k]))
    BY <1>1 DEF LaneAhead
  <1>3. \E i \in LaneAhead(k) : \A j \in LaneAhead(k) : i <= j
    BY <1>2, SmallestOf
  <1>4. NextEntry(k) \in LaneAhead(k)
    BY <1>3 DEF NextEntry
  <1> QED  BY <1>1, <1>2, <1>4

\* A queue's head and tail are bundles.
LEMMA Taken ==
    ASSUME NEW S, NEW q \in Seq(S), q # << >>
    PROVE  /\ Head(q) \in S /\ Tail(q) \in Seq(S) /\ Len(Tail(q)) = Len(q) - 1 /\ Len(q) \in Nat \ {0}
           /\ \A i \in 1 .. Len(q) - 1 : Tail(q)[i] = q[i + 1]
           /\ Head(q) = q[1]
  OBVIOUS

\* A slice.
LEMMA SliceTyped ==
    ASSUME Typed, ClockTypes', Slice
    PROVE  Typed'
  <1>1. looped' \in [Transports -> BOOLEAN]
    <2>1. ASSUME NEW k \in Transports PROVE looped'[k] \in BOOLEAN
      BY Zenon DEF Slice
    <2> QED  BY <2>1 DEF Slice
  <1> QED  BY <1>1 DEF Slice, Typed, RunTypes, PlaceTypes, QueueTypes, TreeTypes, RestTypes,
              running, placing, queues, tree

\* A freeze inside a block.
LEMMA FreezeHereTyped ==
    ASSUME Typed, ClockTypes', NEW k \in Transports, NEW back \in Nat \union {None},
           NEW byMark \in BOOLEAN, FreezeHere(k, back, byMark)
    PROVE  Typed'
  <1>1. PausedIf(k, TRUE) \subseteq Groups
    BY GoodConstants DEF PausedIf, Typed, TreeTypes
  <1>2. /\ sounding' \subseteq Sounds /\ tsched' \in [Transports -> Seq(Bundle)]
        /\ \A j \in Transports : Len(tsched'[j]) <= SchedCap
    BY ReleaseTyped DEF FreezeHere
  <1>3. anchor' \in [Transports -> Anchor] /\ looped' \in [Transports -> BOOLEAN]
    <2>1. CASE back = None
      BY <2>1 DEF FreezeHere, Typed, PlaceTypes, RestTypes
    <2>2. CASE back # None
      BY <2>2, JumpTyped DEF FreezeHere
    <2> QED  BY <2>1, <2>2
  <1>4. stopping' \in [Transports -> Stopping \union {None}]
    BY DEF FreezeHere, Typed, RunTypes
  <1>5. ended' \in [Transports -> BOOLEAN]
    <2>1. (ended[k] \/ byMark) \in BOOLEAN
      OBVIOUS
    <2>2. ended' = [ended EXCEPT ![k] = ended[k] \/ byMark]
      BY DEF FreezeHere
    <2> QED  BY <2>1, <2>2 DEF Typed, RunTypes
  <1> QED  BY <1>1, <1>2, <1>3, <1>4, <1>5 DEF FreezeHere, Typed, RunTypes, PlaceTypes, QueueTypes,
              TreeTypes, RestTypes, block

\* An edge.
LEMMA EdgeTyped ==
    ASSUME Typed, ClockTypes', CrossEdge
    PROVE  Typed'
  <1> DEFINE k == Due.k
  <1>1. CASE Wrap
    <2>1. k \in Transports /\ looping[k] # None
      BY <1>1, DueSays, EdgeSays DEF Wrap
    <2>2. looping[k].start \in Nat
      BY <2>1 DEF Typed, PlaceTypes, Span
    <2>3. anchor' \in [Transports -> Anchor] /\ looped' \in [Transports -> BOOLEAN]
      BY <1>1, <2>1, <2>2, JumpTyped DEF Wrap
    <2>4. /\ sounding' \subseteq Sounds /\ tsched' \in [Transports -> Seq(Bundle)]
          /\ \A j \in Transports : Len(tsched'[j]) <= SchedCap
      BY <1>1, <2>1, ReleaseTyped DEF Wrap
    <2> QED  BY <1>1, <2>3, <2>4 DEF Wrap, Typed, RunTypes, PlaceTypes, QueueTypes,
                TreeTypes, RestTypes, block, running
  <1>2. CASE WrapLanding
    <2> DEFINE span == loopCue[k].span
    <2>1. k \in Transports /\ loopCue[k] # None
      BY <1>2, DueSays DEF WrapLanding
    <2>2. span \in Span \union {None} /\ (span # None => span.start \in Nat)
      BY <2>1 DEF Typed, PlaceTypes, LoopCue, Span
    <2>3. /\ loopCue' = [loopCue EXCEPT ![k] = None]
          /\ looping' = [looping EXCEPT ![k] = span]
          /\ span = None => /\ anchor' = [anchor EXCEPT ![k] = Reanchored(k)]
                            /\ looped' = [looped EXCEPT ![k] = FALSE]
                            /\ UNCHANGED <<sounding, tsched>>
          /\ span # None => /\ anchor' = [anchor EXCEPT ![k] = Located(span.start, At(k, Here))]
                            /\ looped' = [looped EXCEPT ![k] = TRUE]
                            /\ ReleaseNotes(k)
      BY <1>2 DEF WrapLanding
    <2> HIDE DEF span
    <2>4. Reanchored(k) \in Anchor /\ (span # None => Located(span.start, At(k, Here)) \in Anchor)
      BY <2>1, <2>2, ReanchoredTyped, Stands DEF Located, Anchor
    <2>5. /\ sounding' \subseteq Sounds /\ tsched' \in [Transports -> Seq(Bundle)]
          /\ \A j \in Transports : Len(tsched'[j]) <= SchedCap
      BY <2>1, <2>3, ReleaseTyped DEF Typed, QueueTypes, TreeTypes
    <2>6. anchor' \in [Transports -> Anchor] /\ looped' \in [Transports -> BOOLEAN]
      BY <2>1, <2>3, <2>4, ZenonT(30) DEF Typed, PlaceTypes, RestTypes
    <2>7. /\ loopCue' \in [Transports -> LoopCue \union {None}]
          /\ looping' \in [Transports -> Span \union {None}]
      BY <2>2, <2>3 DEF Typed, PlaceTypes
    <2>8. UNCHANGED <<block, running, endMark, fadeLen, sched, lanes, group,
                      paused, published, sent, rolled, fired>>
      BY <1>2 DEF WrapLanding
    <2> QED  BY <2>5, <2>6, <2>7, <2>8 DEF Typed, RunTypes, PlaceTypes, QueueTypes,
                TreeTypes, RestTypes, block, running
  <1>3. CASE Freeze
    <2>1. k \in Transports /\ stopping[k] # None
      BY <1>3, DueSays, EdgeSays DEF Freeze
    <2>2. stopping[k].back \in Nat \union {None} /\ stopping[k].ended \in BOOLEAN
      BY <2>1 DEF Typed, RunTypes, Stopping
    <2> QED  BY <1>3, <2>1, <2>2, FreezeHereTyped DEF Freeze
  <1>4. CASE StopOnMark
    <2>1. k \in Transports /\ endMark[k] # None
      BY <1>4, DueSays, EdgeSays DEF StopOnMark
    <2>2. endMark[k].back \in Nat \union {None}
      BY <2>1 DEF Typed, PlaceTypes, Mark
    <2> QED  BY <1>4, <2>1, <2>2, FreezeHereTyped DEF StopOnMark
  <1>5. CASE RampToMark
    <2> DEFINE z == [at |-> MarkReached(k), back |-> endMark[k].back, ended |-> TRUE,
                     mark |-> endMark[k].end]
    <2>1. k \in Transports /\ endMark[k] # None
      BY <1>5, DueSays, EdgeSays DEF RampToMark
    <2>2. endMark[k].back \in Nat \union {None} /\ endMark[k].end \in Nat
      BY <2>1 DEF Typed, PlaceTypes, Mark
    <2>3. MarkReached(k) \in Nat
      BY <2>1, <2>2, Stands DEF MarkReached, DeviceReaching, ToDevice, Reaching, Ahead, PositionAt,
         SatSub
    <2>4. z \in Stopping
      BY <2>2, <2>3 DEF Stopping
    <2>5. stopping' = [stopping EXCEPT ![k] = z]
      BY <1>5 DEF RampToMark
    <2> HIDE DEF z
    <2>6. stopping' \in [Transports -> Stopping \union {None}]
      BY <2>4, <2>5 DEF Typed, RunTypes
    <2> QED  BY <1>5, <2>6 DEF RampToMark, Typed, RunTypes, PlaceTypes, QueueTypes, TreeTypes, RestTypes,
                block, placing, queues, tree, history
  <1> QED  BY <1>1, <1>2, <1>3, <1>4, <1>5 DEF CrossEdge

\* Bundles.
LEMMA BundleTyped ==
    ASSUME Typed, ClockTypes', TakeDevice \/ TakeTransport \/ RunCommand \/ CloseBundle
    PROVE  Typed'
  <1>1. CASE TakeDevice
    <2>1. sched # << >>
      BY <1>1, DueSays DEF TakeDevice
    <2>2. Head(sched) \in Bundle /\ sched' \in Seq(Bundle) /\ Len(sched') <= SchedCap
      BY <1>1, <2>1, Taken, MoreConstants DEF TakeDevice, Typed, QueueTypes
    <2>3. batch' \in Seq(Command)
      BY <1>1, <2>2 DEF TakeDevice, Bundle
    <2> QED  BY <1>1, <2>2, <2>3 DEF TakeDevice, Typed, RunTypes, PlaceTypes, QueueTypes, TreeTypes,
                RestTypes, running, placing, tree
  <1>2. CASE TakeTransport
    <2> DEFINE k == Due.k
    <2>1. k \in Transports /\ tsched[k] # << >>
      BY <1>2, DueSays DEF TakeTransport
    <2>2. /\ batch' = Head(tsched[k]).cmds
          /\ tsched' = [tsched EXCEPT ![k] = Tail(tsched[k])] /\ sounding' \subseteq sounding
      BY <1>2 DEF TakeTransport
    <2> HIDE DEF k
    <2>3. /\ Head(tsched[k]) \in Bundle /\ Tail(tsched[k]) \in Seq(Bundle)
          /\ Len(Tail(tsched[k])) <= SchedCap
      <3>1. tsched[k] \in Seq(Bundle) /\ Len(tsched[k]) <= SchedCap
        BY <2>1 DEF Typed, QueueTypes
      <3> QED  BY <2>1, <3>1, Taken, MoreConstants
    <2>4. batch' \in Seq(Command)
      BY <2>2, <2>3 DEF Bundle
    <2>5. tsched' \in [Transports -> Seq(Bundle)] /\ \A j \in Transports : Len(tsched'[j]) <= SchedCap
      BY <2>2, <2>3 DEF Typed, QueueTypes
    <2> QED  BY <1>2, <2>2, <2>4, <2>5 DEF TakeTransport, Typed, RunTypes, PlaceTypes, QueueTypes,
                TreeTypes, RestTypes, running, placing
  <1>3. CASE RunCommand
    <2>1. Head(batch) \in Command /\ batch' \in Seq(Command)
      BY <1>3, Taken DEF RunCommand, Typed, RestTypes
    <2>2. CommandTyped
      BY <1>3, <2>1, ApplyTyped DEF RunCommand
    <2> QED  BY <1>3, <2>1, <2>2 DEF RunCommand, CommandTyped, Typed, RestTypes
  <1>4. CASE CloseBundle
    BY <1>4 DEF CloseBundle, Typed, RunTypes, PlaceTypes, QueueTypes, TreeTypes, RestTypes,
       placing, queues, tree, history
  <1> QED  BY <1>1, <1>2, <1>3, <1>4

\* Lane events.
LEMMA FireTyped ==
    ASSUME Typed, ClockTypes', FireLane
    PROVE  Typed'
  <1> DEFINE k == Due.k
             entry == lanes[k][NextEntry(k)]
             release == [time |-> At(k, Here) + entry.length, born |-> rolled[k],
                         sent |-> sent, lead |-> entry.length, cmds |-> << >>,
                         lane |-> entry.lane, note |-> entry.note]
             note == [note |-> entry.note, lane |-> entry.lane, kind |-> entry.kind]
  <1>1. k \in Transports /\ LaneAhead(k) # {}
    BY DueSays DEF FireLane
  <1>2. entry \in Entry /\ NextEntry(k) \in 1 .. Len(lanes[k]) /\ lanes[k] \in Seq(Entry)
        /\ Len(lanes[k]) <= LaneCap
    BY <1>1, NextIsAhead DEF Typed, QueueTypes
  <1>3. /\ lanes' = [lanes EXCEPT ![k] = RemoveAt(lanes[k], NextEntry(k))]
        /\ IF ~Full(tsched[k])
           THEN /\ tsched' = [tsched EXCEPT ![k] = Insert(tsched[k], release)]
                /\ sounding' = sounding \union {note}
           ELSE UNCHANGED <<tsched, sounding>>
        /\ UNCHANGED <<block, running, placing, sched, group, paused, published,
                   sent, history>>
    BY DEF FireLane
  <1>4. release \in Bundle
    <2>1. At(k, Here) \in Nat /\ rolled[k] \in Nat
      BY <1>1, Stands
    <2>2. entry.length \in Nat /\ entry.lane \in Lanes /\ entry.note \in Nat
      BY <1>2 DEF Entry
    <2>3. sent \in Nat /\ << >> \in Seq(Command)
      BY MoreConstants DEF Typed, RestTypes
    <2> HIDE DEF entry, k
    <2> QED  BY <2>1, <2>2, <2>3 DEF Bundle
  <1>5. note \in Sounds
    BY <1>2 DEF Entry, Sounds
  <1>6. RemoveAt(lanes[k], NextEntry(k)) \in Seq(Entry)
        /\ Len(RemoveAt(lanes[k], NextEntry(k))) <= LaneCap
    BY <1>2, Removed, MoreConstants
  <1> HIDE DEF release, note, entry, k
  <1>7. Insert(tsched[k], release) \in Seq(Bundle)
        /\ Len(Insert(tsched[k], release)) = Len(tsched[k]) + 1
    BY <1>1, <1>4, InsertTyped DEF Typed, QueueTypes
  <1>8. tsched' \in [Transports -> Seq(Bundle)] /\ \A j \in Transports : Len(tsched'[j]) <= SchedCap
    <2>1. /\ tsched \in [Transports -> Seq(Bundle)] /\ Len(tsched[k]) \in Nat
          /\ \A j \in Transports : Len(tsched[j]) <= SchedCap
      BY <1>1 DEF Typed, QueueTypes
    <2>2. CASE Full(tsched[k])
      BY <1>3, <2>1, <2>2
    <2>3. CASE ~Full(tsched[k])
      <3> DEFINE q == Insert(tsched[k], release)
      <3>1. q \in Seq(Bundle) /\ Len(q) <= SchedCap
        BY <1>7, <2>1, <2>3, MoreConstants DEF Full
      <3>2. tsched' = [tsched EXCEPT ![k] = q]
        BY <1>3, <2>3
      <3> HIDE DEF q
      <3> QED  BY <2>1, <3>1, <3>2
    <2> QED  BY <2>2, <2>3
  <1>9. lanes' \in [Transports -> Seq(Entry)] /\ \A j \in Transports : Len(lanes'[j]) <= LaneCap
    BY <1>3, <1>6 DEF Typed, QueueTypes
  <1>10. sounding' \subseteq Sounds
    BY <1>3, <1>5 DEF Typed, TreeTypes
  <1> QED  BY <1>3, <1>8, <1>9, <1>10 DEF Typed, RunTypes, PlaceTypes, QueueTypes, TreeTypes,
              RestTypes, block, running, placing, history

\* The end of a block.
LEMMA EndTyped ==
    ASSUME Typed, ClockTypes', EndBlock
    PROVE  Typed'
  <1> DEFINE clock(k) == published'[k].clock
  <1>1. ASSUME NEW k \in Transports
        PROVE  published'[k] \in [clock: Nat, position: Nat]
    <2>1. published'[k] = [clock |-> clock(k), position |-> PositionAt(anchor[k], clock(k))]
      BY DEF EndBlock
    <2>2. clock(k) \in Nat
      BY DEF ClockTypes
    <2>3. PositionAt(anchor[k], clock(k)) \in Nat
      BY <2>2, Stands DEF PositionAt, SatSub
    <2> HIDE DEF clock
    <2> QED  BY <2>1, <2>2, <2>3
  <1>2. published' \in [Transports -> [clock: Nat, position: Nat]]
    <2>1. published' = [k \in Transports |-> published'[k]]
      BY DEF EndBlock
    <2> QED  BY <1>1, <2>1
  <1>3. ended' \in [Transports -> BOOLEAN]
    BY DEF EndBlock
  <1>4. UNCHANGED <<batch, stopping, placing, queues, tree, sent, history>>
    BY DEF EndBlock
  <1> QED  BY <1>2, <1>3, <1>4 DEF Typed, RunTypes, PlaceTypes, QueueTypes, TreeTypes, RestTypes,
              placing, queues, tree, history

SafelyTyped == Typed /\ ClockInv

\* Types and clocks at boot.
LEMMA TypesStart == Init => SafelyTyped
  BY TypedStarts, ClockStarts DEF SafelyTyped

\* Every step keeps the types.
LEMMA TypesStay ==
    ASSUME SafelyTyped, [Next]_vars, ClockInv'
    PROVE  SafelyTyped'
  <1>1. Typed /\ ClockTypes'
    BY DEF SafelyTyped, ClockInv
  <1>2. CASE UNCHANGED vars
    BY <1>1, <1>2 DEF vars, block, running, placing, queues, tree, history, Typed, RunTypes, PlaceTypes,
       QueueTypes, TreeTypes, RestTypes, SafelyTyped
  <1>3. CASE Next
    <2>1. Typed'
      BY <1>1, <1>2, <1>3, ReceiveTyped, BeginTyped, SliceTyped, EdgeTyped, BundleTyped, FireTyped, EndTyped
         DEF Next, Audio, Finished, SafelyTyped
    <2> QED  BY <2>1 DEF SafelyTyped
  <1> QED  BY <1>2, <1>3

\* Every variable of the block loop keeps its type, and no queue outgrows the
\* capacity it was allocated with, whatever commands arrive in whatever order.
THEOREM TypesHold == Safety => []TypeOK
  <1>1. Init => SafelyTyped
    BY TypesStart
  <1>2. SafelyTyped /\ [Next]_vars => SafelyTyped'
    BY TypesStay, ClockStays DEF SafelyTyped
  <1>3. SafelyTyped => TypeOK
    BY TypedIsTypeOK DEF SafelyTyped
  <1> QED  BY <1>1, <1>2, <1>3, PTL DEF Safety
-----------------------------------------------------------------------------
(* Governed groups.  A group has one transport, so what freezes or resumes   *)
(* it is that transport alone.                                               *)

OneGovernor ==
    \A j, k \in Transports : group[j] = group[k] /\ group[j] # None => j = k
GroupInv == OneGovernor /\ GovernedFrozen

\* A transport that stops, or plays, takes its group with it.
LEMMA FlipTakesItsGroup ==
    ASSUME Typed, GroupInv, NEW k \in Transports, NEW on \in BOOLEAN,
           rolling' = [rolling EXCEPT ![k] = on], paused' = PausedIf(k, ~on), group' = group
    PROVE  GroupInv'
  <1>1. OneGovernor'
    BY DEF GroupInv, OneGovernor
  <1>2. ASSUME NEW j \in Transports, group[j] # None
        PROVE  group'[j] \in paused' <=> ~rolling'[j]
    <2>1. CASE j = k
      BY <1>2, <2>1 DEF PausedIf, Typed, ClockTypes
    <2>2. CASE j # k
      BY <1>2, <2>2 DEF PausedIf, Typed, ClockTypes, GroupInv, OneGovernor, GovernedFrozen
    <2> QED  BY <2>1, <2>2
  <1>3. paused' \subseteq {group'[j] : j \in Transports}
    BY DEF PausedIf, GroupInv, GovernedFrozen
  <1> QED  BY <1>1, <1>2, <1>3 DEF GroupInv, GovernedFrozen

\* A group changes hands: the old transport lets it go and the new one takes it
\* as it stands.
LEMMA RebindingKeeps ==
    ASSUME Typed, GroupInv, NEW k \in Transports, NEW id \in Groups \union {None}, SetGroup(k, id)
    PROVE  GroupInv'
  <1>1. /\ \A j \in Transports \ {k} : group[j] # id \/ id = None
        /\ group' = [group EXCEPT ![k] = id] /\ rolling' = rolling
        /\ paused' = (paused \ {group[k]}) \union (IF id # None /\ ~rolling[k] THEN {id} ELSE {})
    BY DEF SetGroup, Adopted, running
  <1>2. OneGovernor'
    BY <1>1 DEF GroupInv, OneGovernor, Typed, TreeTypes
  <1>3. None \notin paused
    BY GoodConstants DEF Typed, TreeTypes
  <1>4. ASSUME NEW j \in Transports, group'[j] # None
        PROVE  group'[j] \in paused' <=> ~rolling'[j]
    <2>1. CASE j = k
      <3>1. group'[k] = id /\ id # None
        BY <1>1, <1>4, <2>1 DEF Typed, TreeTypes
      <3>2. id \notin paused \ {group[k]}
        BY <1>1, <3>1 DEF GroupInv, GovernedFrozen
      <3> QED  BY <1>1, <2>1, <3>1, <3>2
    <2>2. CASE j # k
      <3>1. group'[j] = group[j] /\ group[j] # group[k] /\ group[j] # id
        BY <1>1, <1>4, <2>2 DEF Typed, TreeTypes, GroupInv, OneGovernor
      <3> QED  BY <1>1, <1>4, <3>1 DEF GroupInv, GovernedFrozen
    <2> QED  BY <2>1, <2>2
  <1>5. paused' \subseteq {group'[j] : j \in Transports}
    <2> SUFFICES ASSUME NEW g \in paused' PROVE \E j \in Transports : group'[j] = g
      OBVIOUS
    <2>1. CASE g = id
      BY <1>1, <2>1 DEF Typed, TreeTypes
    <2>2. CASE g # id
      <3>1. PICK j \in Transports : group[j] = g
        BY <1>1, <2>2 DEF GroupInv, GovernedFrozen
      <3>2. j # k
        BY <1>1, <2>2, <3>1
      <3> QED  BY <1>1, <3>1, <3>2 DEF Typed, TreeTypes
    <2> QED  BY <2>1, <2>2
  <1> QED  BY <1>2, <1>4, <1>5 DEF GroupInv, GovernedFrozen

\* Nothing moves a group but a flip or a rebinding.
LEMMA GroupAlone ==
    ASSUME GroupInv, UNCHANGED <<rolling, group, paused>>
    PROVE  GroupInv'
  BY DEF GroupInv, OneGovernor, GovernedFrozen

\* Every command.
LEMMA CommandKeepsGroups ==
    ASSUME Typed, GroupInv, NEW c \in Command, Apply(c)
    PROVE  GroupInv'
  <1>1. ASSUME NEW k \in Transports, Play(k) PROVE GroupInv'
    <2>1. CASE stopping[k] # None \/ rolling[k]
      BY <1>1, <2>1, GroupAlone DEF Play
    <2>2. CASE ~(stopping[k] # None \/ rolling[k])
      <3>1. rolling' = [rolling EXCEPT ![k] = TRUE] /\ paused' = PausedIf(k, ~TRUE) /\ group' = group
        BY <1>1, <2>2 DEF Play
      <3> QED  BY <3>1, FlipTakesItsGroup
    <2> QED  BY <2>1, <2>2
  <1>2. ASSUME NEW k \in Transports, StopNow(k) PROVE GroupInv'
    <2>1. rolling' = [rolling EXCEPT ![k] = FALSE] /\ paused' = PausedIf(k, ~FALSE) /\ group' = group
      BY <1>2 DEF StopNow
    <2> QED  BY <2>1, FlipTakesItsGroup
  <1>3. ASSUME NEW k, NEW x, StopRamp(k) \/ StopAgain(k) \/ Locate(k, x) \/ SetLoop(k, x)
                              \/ SetEnd(k, x) \/ SetFade(k, x)
        PROVE  GroupInv'
    <2>1. UNCHANGED <<rolling, group, paused>>
      BY <1>3 DEF StopRamp, StopAgain, Locate, SetLoop, SetEnd, SetFade, running, tree
    <2> QED  BY <2>1, GroupAlone
  <1>4. ASSUME NEW x, NEW y, Touch \/ ClearSched(x) \/ ClearLane(x, y) PROVE GroupInv'
    <2>1. UNCHANGED <<rolling, group, paused>>
      BY <1>4 DEF Touch, ClearSched, ClearLane, running, tree
    <2> QED  BY <2>1, GroupAlone
  <1>5. CASE c.op = "run" /\ (Play(c.k) \/ StopNow(c.k) \/ StopRamp(c.k) \/ StopAgain(c.k))
    BY <1>1, <1>2, <1>3, <1>5, Carries
  <1>6. CASE c.op = "group" /\ SetGroup(c.k, c.id)
    BY <1>6, Carries, RebindingKeeps
  <1> QED  BY <1>3, <1>4, <1>5, <1>6 DEF Apply

\* A freeze inside a block.
LEMMA FreezeKeepsGroups ==
    ASSUME Typed, GroupInv, NEW k \in Transports, NEW back, NEW byMark, FreezeHere(k, back, byMark)
    PROVE  GroupInv'
  <1>1. rolling' = [rolling EXCEPT ![k] = FALSE] /\ paused' = PausedIf(k, ~FALSE) /\ group' = group
    BY DEF FreezeHere
  <1> QED  BY <1>1, FlipTakesItsGroup

\* Every step keeps the groups.
LEMMA GroupsStay ==
    ASSUME Typed, GroupInv, [Next]_vars
    PROVE  GroupInv'
  <1>1. CASE Receive
    <2>1. ASSUME NEW x, NEW y, Schedule(x, y) \/ FeedLane(x) PROVE UNCHANGED <<rolling, group, paused>>
      BY <2>1 DEF Schedule, FeedLane, running, tree
    <2> QED  BY <1>1, <2>1, GroupAlone, CommandKeepsGroups, MoreConstants DEF Receive
  <1>2. CASE RunCommand
    BY <1>2, CommandKeepsGroups, Taken DEF RunCommand, Typed, RestTypes
  <1>3. CASE Freeze \/ StopOnMark
    <2>1. Due.k \in Transports
      <3>1. DueNow("freeze") \/ DueNow("end") \/ DueNow("end_ramp")
        BY <1>3 DEF Freeze, StopOnMark
      <3> QED  BY <3>1, DueSays
    <2>2. \E back, byMark : FreezeHere(Due.k, back, byMark)
      BY <1>3 DEF Freeze, StopOnMark
    <2> QED  BY <2>1, <2>2, FreezeKeepsGroups
  <1>4. CASE Wrap \/ WrapLanding \/ RampToMark
    BY <1>4, GroupAlone DEF Wrap, WrapLanding, RampToMark, running, tree
  <1>5. CASE BeginBlock \/ Slice \/ TakeDevice \/ TakeTransport \/ CloseBundle \/ FireLane \/ EndBlock
    BY <1>5, GroupAlone DEF BeginBlock, Slice, TakeDevice, TakeTransport, CloseBundle, FireLane,
       EndBlock, running, tree
  <1>6. CASE UNCHANGED vars
    BY <1>6, GroupAlone DEF vars, running, tree
  <1> QED  BY <1>1, <1>2, <1>3, <1>4, <1>5, <1>6 DEF Next, Audio, CrossEdge, Finished

\* The governed group is frozen exactly while its transport is, whatever stops,
\* plays, ends, rebinds or bundles of them did it.
THEOREM GroupsFreezeTogether == Safety => []GovernedFrozen
  <1>1. Init => SafelyTyped /\ GroupInv
    BY TypesStart DEF Init, GroupInv, OneGovernor, GovernedFrozen
  <1>2. SafelyTyped /\ GroupInv /\ [Next]_vars => (SafelyTyped /\ GroupInv)'
    BY TypesStay, ClockStays, GroupsStay DEF SafelyTyped
  <1>3. GroupInv => GovernedFrozen
    BY DEF GroupInv
  <1> QED  BY <1>1, <1>2, <1>3, PTL DEF Safety
-----------------------------------------------------------------------------
(* What is in a queue after it changed. *)

\* What is kept is what was there and is to be kept.
LEMMA InRetained ==
    ASSUME NEW S, NEW q \in Seq(S), NEW keep
    PROVE  Range(Retain(q, keep)) = Range(q) \cap keep
  <1> DEFINE r == Retain(q, keep)
  <1>1. r \in Seq(S) /\ Picked(q, keep, r, Len(q))
    BY Retained
  <1> HIDE DEF r
  <1>2. PICK place : Places(q, keep, r, Len(q), place)
    BY <1>1 DEF Picked
  <1>3. DOMAIN r = 1 .. Len(r) /\ DOMAIN q = 1 .. Len(q)
    BY <1>1
  <1>4. /\ place \in [1 .. Len(r) -> 1 .. Len(q)]
        /\ \A i \in 1 .. Len(r) : r[i] = q[place[i]] /\ q[place[i]] \in keep
        /\ \A m \in 1 .. Len(q) : q[m] \in keep => \E i \in 1 .. Len(r) : place[i] = m
    BY <1>2 DEF Places
  <1>5. ASSUME NEW x \in Range(r) PROVE x \in Range(q) /\ x \in keep
    <2>1. PICK i \in 1 .. Len(r) : r[i] = x
      BY <1>3 DEF Range
    <2> QED  BY <1>3, <1>4, <2>1 DEF Range
  <1>6. ASSUME NEW x \in Range(q), x \in keep PROVE x \in Range(r)
    <2>1. PICK m \in 1 .. Len(q) : q[m] = x
      BY <1>3 DEF Range
    <2>2. PICK i \in 1 .. Len(r) : place[i] = m
      BY <1>4, <1>6, <2>1
    <2> QED  BY <1>3, <1>4, <2>1, <2>2 DEF Range
  <1> QED  BY <1>5, <1>6 DEF r

\* What was there, and what is put in.
LEMMA InInserted ==
    ASSUME NEW S, NEW q \in Seq(S), NEW e \in S, NEW i \in 1 .. Len(q) + 1
    PROVE  Range(InsertAt(q, i, e)) = Range(q) \union {e}
  <1> DEFINE r == InsertAt(q, i, e)
  <1>1. /\ r \in Seq(S) /\ Len(r) = Len(q) + 1 /\ Len(q) \in Nat
        /\ \A j \in 1 .. Len(q) + 1 : r[j] = IF j < i THEN q[j] ELSE IF j = i THEN e ELSE q[j - 1]
    BY Inserted
  <1> HIDE DEF r
  <1>2. DOMAIN r = 1 .. Len(q) + 1 /\ DOMAIN q = 1 .. Len(q)
    BY <1>1
  <1>3. ASSUME NEW j \in 1 .. Len(q) + 1 PROVE r[j] \in Range(q) \union {e}
    <2>1. CASE j < i
      <3>1. j \in 1 .. Len(q) /\ r[j] = q[j]
        BY <1>1, <2>1
      <3> QED  BY <1>2, <3>1 DEF Range
    <2>2. CASE j = i
      BY <1>1, <2>2
    <2>3. CASE j > i
      <3>1. j - 1 \in 1 .. Len(q) /\ r[j] = q[j - 1]
        BY <1>1, <2>3
      <3> QED  BY <1>2, <3>1 DEF Range
    <2> QED  BY <2>1, <2>2, <2>3
  <1>4. ASSUME NEW j \in 1 .. Len(q) PROVE q[j] \in Range(r)
    <2>1. CASE j < i
      <3>1. j \in 1 .. Len(q) + 1 /\ r[j] = q[j]
        BY <1>1, <2>1
      <3> QED  BY <1>2, <3>1 DEF Range
    <2>2. CASE j >= i
      <3>1. j + 1 \in 1 .. Len(q) + 1 /\ r[j + 1] = q[j]
        BY <1>1, <2>2
      <3> QED  BY <1>2, <3>1 DEF Range
    <2> QED  BY <2>1, <2>2
  <1>5. e \in Range(r)
    <2>1. r[i] = e
      BY <1>1
    <2> QED  BY <1>2, <2>1 DEF Range
  <1>6. ASSUME NEW x \in Range(r) PROVE x \in Range(q) \union {e}
    BY <1>2, <1>3 DEF Range
  <1>7. ASSUME NEW x \in Range(q) PROVE x \in Range(r)
    <2>1. PICK j \in 1 .. Len(q) : q[j] = x
      BY <1>2 DEF Range
    <2> QED  BY <1>4, <2>1
  <1> QED  BY <1>5, <1>6, <1>7 DEF r

\* The same of an insertion by stamp.
LEMMA InSorted ==
    ASSUME NEW S, NEW q \in Seq(S), NEW e \in S
    PROVE  Range(Insert(q, e)) = Range(q) \union {e}
  <1> DEFINE before == {i \in DOMAIN q : q[i].time <= e.time}
  <1>1. before \in SUBSET (1 .. Len(q)) /\ Len(q) \in Nat
    OBVIOUS
  <1>2. Insert(q, e) = InsertAt(q, Cardinality(before) + 1, e)
    BY DEF Insert
  <1> HIDE DEF before
  <1>3. Cardinality(before) + 1 \in 1 .. Len(q) + 1
    BY <1>1, Below
  <1> QED  BY <1>2, <1>3, InInserted

\* The head and the rest.
LEMMA InTail ==
    ASSUME NEW S, NEW q \in Seq(S), q # << >>
    PROVE  Range(q) = Range(Tail(q)) \union {Head(q)}
  <1>1. /\ Len(q) \in Nat \ {0} /\ DOMAIN q = 1 .. Len(q) /\ Head(q) = q[1]
        /\ DOMAIN Tail(q) = 1 .. Len(q) - 1
        /\ \A i \in 1 .. Len(q) - 1 : Tail(q)[i] = q[i + 1]
    OBVIOUS
  <1>2. ASSUME NEW i \in 1 .. Len(q) PROVE q[i] \in Range(Tail(q)) \union {Head(q)}
    <2>1. CASE i = 1
      BY <1>1, <2>1
    <2>2. CASE i # 1
      <3>1. i - 1 \in 1 .. Len(q) - 1 /\ Tail(q)[i - 1] = q[i]
        BY <1>1, <2>2
      <3> QED  BY <1>1, <3>1 DEF Range
    <2> QED  BY <2>1, <2>2
  <1>3. ASSUME NEW i \in 1 .. Len(q) - 1 PROVE Tail(q)[i] \in Range(q)
    BY <1>1 DEF Range
  <1>4. Head(q) \in Range(q)
    BY <1>1 DEF Range
  <1>5. ASSUME NEW x \in Range(q) PROVE x \in Range(Tail(q)) \union {Head(q)}
    BY <1>1, <1>2 DEF Range
  <1>6. ASSUME NEW x \in Range(Tail(q)) PROVE x \in Range(q)
    BY <1>1, <1>3 DEF Range
  <1> QED  BY <1>4, <1>5, <1>6

\* A removal adds nothing.
LEMMA InRemoved ==
    ASSUME NEW S, NEW q \in Seq(S), NEW i \in 1 .. Len(q)
    PROVE  Range(RemoveAt(q, i)) \subseteq Range(q)
  <1> DEFINE r == RemoveAt(q, i)
  <1>1. /\ r \in Seq(S) /\ Len(r) = Len(q) - 1 /\ Len(q) \in Nat
        /\ \A j \in 1 .. Len(q) - 1 : r[j] = IF j < i THEN q[j] ELSE q[j + 1]
    BY Removed
  <1> HIDE DEF r
  <1>2. DOMAIN r = 1 .. Len(q) - 1 /\ DOMAIN q = 1 .. Len(q)
    BY <1>1
  <1>3. ASSUME NEW j \in 1 .. Len(q) - 1 PROVE r[j] \in Range(q)
    BY <1>1, <1>2 DEF Range
  <1>4. ASSUME NEW x \in Range(r) PROVE x \in Range(q)
    BY <1>2, <1>3 DEF Range
  <1> QED  BY <1>4 DEF r

\* What a queue holds has its type.
LEMMA RangeTyped ==
    ASSUME NEW S, NEW q \in Seq(S)
    PROVE  Range(q) \subseteq S
  BY DEF Range
-----------------------------------------------------------------------------
(* A sounding note's release.  The entries of a transport's lane queue are of *)
(* lanes on that transport, so the note one starts and the release it queues  *)
(* are on the same one.                                                       *)

LanesTheirOwn ==
    \A k \in Transports : \A e \in Range(lanes[k]) : LaneOf[e.lane] = k

HasRelease(s, k) == \E b \in Range(tsched[k]) : IsRelease(b) /\ b.note = s.note
NotesInv ==
    /\ LanesTheirOwn
    /\ \A s \in sounding : HasRelease(s, LaneOf[s.lane]) /\ rolling[LaneOf[s.lane]]

\* The invariant says what the property says.
LEMMA NotesAreNotesEnd == NotesInv => NotesEnd
  BY DEF NotesInv, NotesEnd, HasRelease

\* A note sounds on the transport of its lane.
LEMMA SoundsOn ==
    ASSUME Typed, NEW s \in sounding
    PROVE  s.lane \in Lanes /\ LaneOf[s.lane] \in Transports
  BY MoreConstants DEF Typed, TreeTypes, Sounds

\* Every note of a transport is over once its releases ran, and no other's.
LEMMA ReleasedAll ==
    ASSUME Typed, NotesInv, NEW k \in Transports, ReleaseNotes(k)
    PROVE  /\ \A s \in sounding' : s \in sounding /\ LaneOf[s.lane] # k
           /\ \A j \in Transports \ {k} : tsched'[j] = tsched[j]
  <1>1. /\ sounding' = {s \in sounding :
                        /\ s.note \notin ReleasedNotes(k, Lanes)
                        /\ ~(s.kind = "node" /\ LaneOf[s.lane] = k)}
        /\ tsched' = [tsched EXCEPT ![k] = WithoutReleases(k, Lanes)]
    BY DEF ReleaseNotes
  <1>2. ASSUME NEW s \in sounding, LaneOf[s.lane] = k PROVE s.note \in ReleasedNotes(k, Lanes)
    <2>1. PICK b \in Range(tsched[k]) : IsRelease(b) /\ b.note = s.note
      BY <1>2 DEF NotesInv, HasRelease
    <2>2. b.lane \in Lanes
      <3>1. b \in Bundle
        BY RangeTyped DEF Typed, QueueTypes
      <3> QED  BY <2>1, <3>1 DEF Bundle, IsRelease
    <2> QED  BY <2>1, <2>2 DEF ReleasedNotes, Releases
  <1> QED  BY <1>1, <1>2 DEF Typed, QueueTypes

\* So a transport that releases its notes may do what it likes.
LEMMA ReleasingKeepsNotes ==
    ASSUME Typed, NotesInv, NEW k \in Transports, ReleaseNotes(k), lanes' = lanes,
           \A j \in Transports \ {k} : rolling'[j] = rolling[j]
    PROVE  NotesInv'
  <1>1. ASSUME NEW s \in sounding'
        PROVE  HasRelease(s, LaneOf[s.lane])' /\ rolling'[LaneOf[s.lane]]
    <2>1. s \in sounding /\ LaneOf[s.lane] \in Transports \ {k}
      BY ReleasedAll, SoundsOn
    <2> QED  BY <2>1, ReleasedAll DEF NotesInv, HasRelease
  <1> QED  BY <1>1 DEF NotesInv, LanesTheirOwn

\* Notes that sound keep what ends them while no release of theirs leaves.
LEMMA KeepingKeepsNotes ==
    ASSUME Typed, NotesInv, lanes' = lanes, sounding' \subseteq sounding,
           \A k \in Transports : rolling[k] => rolling'[k],
           \A k \in Transports : \A b \in Range(tsched[k]) :
              IsRelease(b) => \/ b \in Range(tsched'[k])
                              \/ \A s \in sounding' : s.note = b.note => LaneOf[s.lane] # k
    PROVE  NotesInv'
  <1>1. ASSUME NEW s \in sounding'
        PROVE  HasRelease(s, LaneOf[s.lane])' /\ rolling'[LaneOf[s.lane]]
    <2>1. s \in sounding /\ LaneOf[s.lane] \in Transports
      BY SoundsOn
    <2>2. PICK b \in Range(tsched[LaneOf[s.lane]]) : IsRelease(b) /\ b.note = s.note
      BY <2>1 DEF NotesInv, HasRelease
    <2>3. b \in Range(tsched'[LaneOf[s.lane]])
      BY <2>1, <2>2
    <2> QED  BY <2>1, <2>2, <2>3 DEF NotesInv, HasRelease
  <1> QED  BY <1>1 DEF NotesInv, LanesTheirOwn

\* No note is stranded where no queue changes and no transport stops.
LEMMA NotesAlone ==
    ASSUME NotesInv, UNCHANGED <<tsched, lanes, sounding>>,
           \A k \in Transports : rolling[k] => rolling'[k], Typed
    PROVE  NotesInv'
  <1>1. \A s \in sounding' : HasRelease(s, LaneOf[s.lane])' /\ rolling'[LaneOf[s.lane]]
    BY SoundsOn DEF NotesInv, HasRelease
  <1> QED  BY <1>1 DEF NotesInv, LanesTheirOwn

\* A clear of the queues takes the notes of the releases it drops.
LEMMA ClearKeepsNotes ==
    ASSUME Typed, NotesInv, NEW only, ClearSched(only)
    PROVE  NotesInv'
  <1>1. ASSUME NEW k \in Transports, NEW b \in Range(tsched[k]), IsRelease(b)
        PROVE  b \in Range(tsched'[k])
    <2>1. tsched[k] \in Seq(Bundle)
      BY DEF Typed, QueueTypes
    <2>2. b.lane \in Lanes
      <3>1. b \in Bundle
        BY <2>1, RangeTyped
      <3> QED  BY <1>1, <3>1 DEF Bundle, IsRelease
    <2>3. b \in Releases(k, Lanes)
      BY <1>1, <2>2 DEF Releases
    <2>4. b \in Range(Kept(k))
      BY <2>1, <2>3, InRetained DEF Kept
    <2>5. tsched'[k] \in {Kept(k), tsched[k]}
      BY DEF ClearSched
    <2> QED  BY <2>4, <2>5
  <1>2. lanes' = lanes /\ sounding' = sounding /\ rolling' = rolling
    BY DEF ClearSched, tree, running
  <1> QED  BY <1>1, <1>2, KeepingKeepsNotes

\* A lane cleared of what is ahead keeps its releases or plays them.
LEMMA ClearLaneKeepsNotes ==
    ASSUME Typed, NotesInv, NEW lane \in Lanes, NEW release, ClearLane(lane, release)
    PROVE  NotesInv'
  <1> DEFINE k == LaneOf[lane]
             mine == {e \in Range(lanes[k]) : e.lane # lane}
  <1>1. k \in Transports
    BY MoreConstants
  <1>2. /\ lanes' = [lanes EXCEPT ![k] = Retain(lanes[k], mine)]
        /\ tsched' = IF release THEN [tsched EXCEPT ![k] = WithoutReleases(k, {lane})] ELSE tsched
        /\ sounding' = {s \in sounding :
                        /\ ~(release /\ s.note \in ReleasedNotes(k, {lane}))
                        /\ ~(s.kind = "node" /\ s.lane = lane)}
        /\ rolling' = rolling
    BY DEF ClearLane, running
  <1> HIDE DEF k
  <1>3. ASSUME NEW s \in sounding'
        PROVE  HasRelease(s, LaneOf[s.lane])' /\ rolling'[LaneOf[s.lane]]
    <2> DEFINE j == LaneOf[s.lane]
    <2>1. s \in sounding /\ j \in Transports /\ HasRelease(s, j) /\ rolling[j]
      BY <1>2, <1>3, SoundsOn DEF NotesInv
    <2>2. PICK b \in Range(tsched[j]) : IsRelease(b) /\ b.note = s.note
      BY <2>1 DEF HasRelease
    <2>3. b \in Range(tsched'[j])
      <3>1. CASE ~release \/ j # k
        BY <1>2, <2>1, <2>2, <3>1 DEF Typed, QueueTypes
      <3>2. CASE release /\ j = k
        <4>1. s.note \notin ReleasedNotes(k, {lane})
          BY <1>2, <1>3, <3>2
        <4>2. b \notin Releases(k, {lane})
          BY <2>2, <4>1 DEF ReleasedNotes
        <4>3. tsched[k] \in Seq(Bundle)
          BY <1>1 DEF Typed, QueueTypes
        <4>4. b \in Range(WithoutReleases(k, {lane}))
          <5>1. Range(WithoutReleases(k, {lane}))
                  = Range(tsched[k]) \cap (Range(tsched[k]) \ Releases(k, {lane}))
            BY <4>3, InRetained DEF WithoutReleases
          <5> QED  BY <2>2, <3>2, <4>2, <5>1
        <4>5. tsched'[k] = WithoutReleases(k, {lane})
          BY <1>1, <1>2, <3>2 DEF Typed, QueueTypes
        <4> QED  BY <3>2, <4>4, <4>5
      <3> QED  BY <3>1, <3>2
    <2> QED  BY <1>2, <2>1, <2>2, <2>3 DEF HasRelease
  <1>4. LanesTheirOwn'
    <2>1. ASSUME NEW j \in Transports, NEW e \in Range(lanes'[j]) PROVE e \in Range(lanes[j])
      <3>1. CASE j = k
        <4>1. lanes[k] \in Seq(Entry)
          BY <1>1 DEF Typed, QueueTypes
        <4>2. lanes'[k] = Retain(lanes[k], mine)
          BY <1>1, <1>2 DEF Typed, QueueTypes
        <4> HIDE DEF mine
        <4> QED  BY <2>1, <3>1, <4>1, <4>2, InRetained
      <3>2. CASE j # k
        BY <1>2, <2>1, <3>2 DEF Typed, QueueTypes
      <3> QED  BY <3>1, <3>2
    <2> QED  BY <2>1 DEF NotesInv, LanesTheirOwn
  <1> QED  BY <1>3, <1>4 DEF NotesInv

\* Every command.
LEMMA CommandKeepsNotes ==
    ASSUME Typed, NotesInv, NEW c \in Command, Apply(c)
    PROVE  NotesInv'
  <1>1. ASSUME NEW k \in Transports, Play(k) PROVE NotesInv'
    <2>1. \A j \in Transports : rolling[j] => rolling'[j]
      BY <1>1 DEF Play, Typed, ClockTypes
    <2> QED  BY <1>1, <2>1, NotesAlone DEF Play, queues
  <1>2. ASSUME NEW k \in Transports, NEW p, StopNow(k) \/ StopRamp(k) \/ Locate(k, p) PROVE NotesInv'
    <2>1. ReleaseNotes(k) /\ lanes' = lanes /\ \A j \in Transports \ {k} : rolling'[j] = rolling[j]
      BY <1>2 DEF StopNow, StopRamp, Locate, Typed, ClockTypes
    <2> QED  BY <2>1, ReleasingKeepsNotes
  <1>3. ASSUME NEW k, NEW x, StopAgain(k) \/ SetLoop(k, x) \/ SetEnd(k, x) \/ SetFade(k, x)
                              \/ SetGroup(k, x) \/ Touch
        PROVE  NotesInv'
    <2>1. UNCHANGED <<rolling, tsched, lanes, sounding>>
      BY <1>3 DEF StopAgain, SetLoop, SetEnd, SetFade, SetGroup, Touch, running, queues, tree
    <2> QED  BY <2>1, NotesAlone
  <1>4. CASE c.op = "run" /\ (Play(c.k) \/ StopNow(c.k) \/ StopRamp(c.k) \/ StopAgain(c.k))
    BY <1>1, <1>2, <1>3, <1>4, Carries
  <1>5. CASE c.op = "locate" /\ Locate(c.k, c.position)
    BY <1>2, <1>5, Carries
  <1>6. CASE c.op = "clear_sched" /\ ClearSched(c.only)
    BY <1>6, ClearKeepsNotes
  <1>7. CASE c.op = "clear_lane" /\ ClearLane(c.lane, c.release)
    BY <1>7, Carries, ClearLaneKeepsNotes
  <1> QED  BY <1>3, <1>4, <1>5, <1>6, <1>7 DEF Apply

\* A bundle scheduled on a transport leaves what was queued there.
LEMMA ScheduleKeepsNotes ==
    ASSUME Typed, NotesInv, NEW time \in Nat, NEW cmds \in Seq(Command), Schedule(time, cmds)
    PROVE  NotesInv'
  <1>1. UNCHANGED <<lanes, sounding, rolling>>
    BY DEF Schedule, tree, running
  <1>2. ASSUME NEW j \in Transports PROVE Range(tsched[j]) \subseteq Range(tsched'[j])
    <2>1. CASE tsched' = tsched
      BY <2>1
    <2>2. CASE tsched' # tsched
      <3> DEFINE k == Governing(cmds)
                 b == [time |-> At(k, time), born |-> rolled[k], sent |-> sent,
                       lead |-> SatSub(time, Here), cmds |-> cmds, lane |-> None, note |-> None]
      <3>1. k # None /\ tsched' = [tsched EXCEPT ![k] = Insert(tsched[k], b)]
        BY <2>2 DEF Schedule
      <3>2. k \in Transports
        BY <3>1, GovernsOne
      <3> HIDE DEF k
      <3>3. b \in Bundle
        <4>1. At(k, time) \in Nat /\ rolled[k] \in Nat
          BY <3>2 DEF At, ToTransport, SatSub, Typed, ClockTypes
        <4>2. sent \in Nat /\ SatSub(time, Here) \in Nat
          BY <3>2, Stands, MoreConstants, SMTT(30) DEF SatSub, Typed, RestTypes
        <4> QED  BY <4>1, <4>2 DEF Bundle
      <3> HIDE DEF b
      <3>4. tsched[k] \in Seq(Bundle)
        BY <3>2 DEF Typed, QueueTypes
      <3>5. Range(tsched[k]) \subseteq Range(Insert(tsched[k], b))
        BY <3>3, <3>4, InSorted
      <3> QED  BY <3>1, <3>2, <3>5 DEF Typed, QueueTypes
    <2> QED  BY <2>1, <2>2
  <1> QED  BY <1>1, <1>2, KeepingKeepsNotes

\* A lane event that starts a note queues its release or is refused.
LEMMA FeedKeepsNotes ==
    ASSUME Typed, NotesInv, NEW spec \in EntrySpec, FeedLane(spec)
    PROVE  NotesInv'
  <1> DEFINE k == LaneOf[spec.lane]
             before == {i \in DOMAIN lanes[k] : lanes[k][i].position <= spec.position}
             entry == [position |-> spec.position, lane |-> spec.lane,
                       length |-> spec.length, kind |-> spec.kind, note |-> sent]
             at == Cardinality(before) + 1
  <1>1. k \in Transports
    BY MoreConstants DEF EntrySpec
  <1>2. entry \in Entry /\ LaneOf[entry.lane] = k
    BY MoreConstants DEF EntrySpec, Entry, Typed, RestTypes
  <1>3. /\ UNCHANGED <<rolling, tsched, sounding>>
        /\ lanes' \in {lanes, [lanes EXCEPT ![k] = InsertAt(lanes[k], at, entry)]}
    BY DEF FeedLane, running, tree
  <1> HIDE DEF entry, k
  <1>4. lanes[k] \in Seq(Entry)
    BY <1>1 DEF Typed, QueueTypes
  <1>5. at \in 1 .. Len(lanes[k]) + 1
    <2>1. before \in SUBSET (1 .. Len(lanes[k])) /\ Len(lanes[k]) \in Nat
      BY <1>4
    <2> HIDE DEF before
    <2> QED  BY <2>1, Below
  <1> HIDE DEF at
  <1>6. LanesTheirOwn'
    <2>1. Range(InsertAt(lanes[k], at, entry)) = Range(lanes[k]) \union {entry}
      BY <1>2, <1>4, <1>5, InInserted
    <2>2. CASE lanes' = [lanes EXCEPT ![k] = InsertAt(lanes[k], at, entry)]
      <3>1. \A j \in Transports :
              lanes'[j] = IF j = k THEN InsertAt(lanes[k], at, entry) ELSE lanes[j]
        BY <2>2 DEF Typed, QueueTypes
      <3>2. ASSUME NEW j \in Transports, NEW e \in Range(lanes'[j]) PROVE LaneOf[e.lane] = j
        <4>1. CASE j = k
          <5>1. e \in Range(lanes[k]) \/ e = entry
            BY <1>1, <2>1, <3>1, <3>2, <4>1
          <5> QED  BY <1>1, <1>2, <4>1, <5>1 DEF NotesInv, LanesTheirOwn
        <4>2. CASE j # k
          BY <3>1, <3>2, <4>2 DEF NotesInv, LanesTheirOwn
        <4> QED  BY <4>1, <4>2
      <3> QED  BY <3>2 DEF LanesTheirOwn
    <2>3. CASE lanes' = lanes
      BY <2>3 DEF NotesInv, LanesTheirOwn
    <2> QED  BY <1>3, <2>2, <2>3
  <1> QED  BY <1>3, <1>6 DEF NotesInv, HasRelease

\* A release that is taken ends its note.
LEMMA TakeKeepsNotes ==
    ASSUME Typed, NotesInv, TakeTransport
    PROVE  NotesInv'
  <1> DEFINE k == Due.k
  <1>1. k \in Transports /\ tsched[k] # << >>
    BY DueSays DEF TakeTransport
  <1>2. /\ tsched' = [tsched EXCEPT ![k] = Tail(tsched[k])]
        /\ sounding' = {s \in sounding : s.note # Head(tsched[k]).note}
        /\ lanes' = lanes /\ rolling' = rolling
    BY DEF TakeTransport, running
  <1> HIDE DEF k
  <1>3. tsched[k] \in Seq(Bundle)
    BY <1>1 DEF Typed, QueueTypes
  <1>4. Range(tsched[k]) = Range(Tail(tsched[k])) \union {Head(tsched[k])}
    BY <1>1, <1>3, InTail
  <1>5. ASSUME NEW j \in Transports, NEW b \in Range(tsched[j])
        PROVE  \/ b \in Range(tsched'[j])
               \/ \A s \in sounding' : s.note = b.note => LaneOf[s.lane] # j
    BY <1>1, <1>2, <1>4 DEF Typed, QueueTypes
  <1> QED  BY <1>2, <1>5, KeepingKeepsNotes

\* A lane event that fires starts a note with its release, or none.
LEMMA FireKeepsNotes ==
    ASSUME Typed, NotesInv, FireLane
    PROVE  NotesInv'
  <1> DEFINE k == Due.k
             entry == lanes[k][NextEntry(k)]
             release == [time |-> At(k, Here) + entry.length, born |-> rolled[k],
                         sent |-> sent, lead |-> entry.length, cmds |-> << >>,
                         lane |-> entry.lane, note |-> entry.note]
             note == [note |-> entry.note, lane |-> entry.lane, kind |-> entry.kind]
             q == Insert(tsched[k], release)
  <1>1. k \in Transports /\ LaneAhead(k) # {} /\ rolling[k]
    BY DueSays DEF FireLane
  <1>2. entry \in Entry /\ NextEntry(k) \in 1 .. Len(lanes[k]) /\ lanes[k] \in Seq(Entry)
    BY <1>1, NextIsAhead DEF Typed, QueueTypes
  <1>3. LaneOf[entry.lane] = k
    <2>1. DOMAIN lanes[k] = 1 .. Len(lanes[k])
      BY <1>2
    <2>2. entry \in Range(lanes[k])
      BY <1>2, <2>1 DEF Range
    <2> QED  BY <1>1, <2>2 DEF NotesInv, LanesTheirOwn
  <1>4. /\ lanes' = [lanes EXCEPT ![k] = RemoveAt(lanes[k], NextEntry(k))]
        /\ \/ tsched' = [tsched EXCEPT ![k] = q] /\ sounding' = sounding \union {note}
           \/ UNCHANGED <<tsched, sounding>>
        /\ rolling' = rolling
    BY DEF FireLane, running
  <1>5. release \in Bundle /\ IsRelease(release) /\ release.note = note.note /\ note.lane = entry.lane
    <2>1. At(k, Here) \in Nat /\ rolled[k] \in Nat
      BY <1>1, Stands
    <2>2. entry.length \in Nat /\ entry.lane \in Lanes /\ entry.note \in Nat
      BY <1>2 DEF Entry
    <2>3. sent \in Nat /\ << >> \in Seq(Command)
      BY MoreConstants DEF Typed, RestTypes
    <2> HIDE DEF entry, k
    <2> QED  BY <2>1, <2>2, <2>3, MoreConstants DEF Bundle, IsRelease
  <1>6. Range(q) = Range(tsched[k]) \union {release}
    <2>1. tsched[k] \in Seq(Bundle)
      BY <1>1 DEF Typed, QueueTypes
    <2> HIDE DEF release
    <2> QED  BY <1>5, <2>1, InSorted
  <1>7. Range(RemoveAt(lanes[k], NextEntry(k))) \subseteq Range(lanes[k])
    BY <1>2, InRemoved
  <1> HIDE DEF q, release, note, entry, k
  <1>8. LanesTheirOwn'
    BY <1>4, <1>7 DEF NotesInv, LanesTheirOwn, Typed, QueueTypes
  <1>9. CASE UNCHANGED <<tsched, sounding>>
    BY <1>4, <1>8, <1>9 DEF NotesInv, HasRelease
  <1>10. CASE tsched' = [tsched EXCEPT ![k] = q] /\ sounding' = sounding \union {note}
    <2>0. /\ Range(tsched'[k]) = Range(tsched[k]) \union {release}
          /\ \A j \in Transports : Range(tsched[j]) \subseteq Range(tsched'[j])
      BY <1>1, <1>6, <1>10 DEF Typed, QueueTypes
    <2>1. ASSUME NEW s, s = note PROVE HasRelease(s, LaneOf[s.lane])' /\ rolling'[LaneOf[s.lane]]
      <3>1. release \in Range(tsched'[k])
        BY <2>0
      <3>2. IsRelease(release) /\ release.note = s.note /\ LaneOf[s.lane] = k
        BY <1>3, <1>5, <2>1
      <3> QED  BY <1>1, <1>4, <3>1, <3>2 DEF HasRelease
    <2>2. ASSUME NEW s \in sounding PROVE HasRelease(s, LaneOf[s.lane])' /\ rolling'[LaneOf[s.lane]]
      <3>1. LaneOf[s.lane] \in Transports /\ HasRelease(s, LaneOf[s.lane]) /\ rolling[LaneOf[s.lane]]
        BY SoundsOn DEF NotesInv
      <3>2. PICK b \in Range(tsched[LaneOf[s.lane]]) : IsRelease(b) /\ b.note = s.note
        BY <3>1 DEF HasRelease
      <3>3. b \in Range(tsched'[LaneOf[s.lane]]) /\ rolling'[LaneOf[s.lane]]
        BY <1>4, <2>0, <3>1
      <3>4. HasRelease(s, LaneOf[s.lane])'
        BY <3>2, <3>3, Zenon DEF HasRelease
      <3> QED  BY <3>3, <3>4
    <2> QED  BY <1>8, <1>10, <2>1, <2>2 DEF NotesInv
  <1> QED  BY <1>4, <1>9, <1>10

\* A transport that stops releases its notes.
LEMMA EdgeKeepsNotes ==
    ASSUME Typed, NotesInv, CrossEdge
    PROVE  NotesInv'
  <1>1. Due.k \in Transports
    <2>1. DueNow("wrap") \/ DueNow("freeze") \/ DueNow("end") \/ DueNow("end_ramp")
      BY DEF CrossEdge, Wrap, WrapLanding, Freeze, StopOnMark, RampToMark
    <2> QED  BY <2>1, DueSays
  <1>2. CASE Wrap
    BY <1>1, <1>2, ReleasingKeepsNotes DEF Wrap, running
  <1>3. CASE WrapLanding
    <2>1. lanes' = lanes /\ rolling' = rolling
          /\ (UNCHANGED <<sounding, tsched>> \/ ReleaseNotes(Due.k))
      BY <1>3 DEF WrapLanding, running
    <2> QED  BY <1>1, <2>1, NotesAlone, ReleasingKeepsNotes
  <1>4. CASE Freeze \/ StopOnMark
    <2>1. \E back, byMark : FreezeHere(Due.k, back, byMark)
      BY <1>4 DEF Freeze, StopOnMark
    <2>2. ReleaseNotes(Due.k) /\ lanes' = lanes /\ rolling' = [rolling EXCEPT ![Due.k] = FALSE]
      BY <2>1 DEF FreezeHere
    <2>3. \A j \in Transports \ {Due.k} : rolling'[j] = rolling[j]
      BY <2>2 DEF Typed, ClockTypes
    <2> QED  BY <1>1, <2>2, <2>3, ReleasingKeepsNotes
  <1>5. CASE RampToMark
    BY <1>5, NotesAlone DEF RampToMark, queues, tree
  <1> QED  BY <1>2, <1>3, <1>4, <1>5 DEF CrossEdge

\* Every step keeps the notes.
LEMMA NotesStay ==
    ASSUME Typed, NotesInv, [Next]_vars
    PROVE  NotesInv'
  <1>1. CASE Receive
    BY <1>1, CommandKeepsNotes, ScheduleKeepsNotes, FeedKeepsNotes, MoreConstants DEF Receive
  <1>2. CASE RunCommand
    BY <1>2, CommandKeepsNotes, Taken DEF RunCommand, Typed, RestTypes
  <1>3. CASE BeginBlock \/ Slice \/ TakeDevice \/ CloseBundle \/ EndBlock
    <2>1. UNCHANGED <<rolling, tsched, lanes, sounding>>
      BY <1>3 DEF BeginBlock, Slice, TakeDevice, CloseBundle, EndBlock, running, queues, tree
    <2> QED  BY <2>1, NotesAlone
  <1>4. CASE UNCHANGED vars
    BY <1>4, NotesAlone DEF vars, running, queues, tree
  <1> QED  BY <1>1, <1>2, <1>3, <1>4, TakeKeepsNotes, FireKeepsNotes, EdgeKeepsNotes
           DEF Next, Audio, Finished

\* A lane note that sounds is on a rolling transport with its release queued,
\* whatever is cleared, full, stopped or located.
THEOREM EveryNoteEnds == Safety => []NotesEnd
  <1>1. Init => SafelyTyped /\ NotesInv
    <2>1. ASSUME Init, NEW k \in Transports PROVE Range(lanes[k]) = {}
      BY <2>1 DEF Init, Range
    <2> QED  BY <2>1, TypesStart DEF Init, NotesInv, LanesTheirOwn
  <1>2. SafelyTyped /\ NotesInv /\ [Next]_vars => (SafelyTyped /\ NotesInv)'
    BY TypesStay, ClockStays, NotesStay DEF SafelyTyped
  <1>3. NotesInv => NotesEnd
    BY NotesAreNotesEnd
  <1> QED  BY <1>1, <1>2, <1>3, PTL DEF Safety
-----------------------------------------------------------------------------
(* The queues' order and their stamps.                                       *)

Ordered(queue) ==
    \A i, j \in DOMAIN queue :
        /\ i < j => queue[i].time <= queue[j].time
        /\ i < j /\ queue[i].time = queue[j].time /\ queue[j].lane = None
             => queue[i].sent <= queue[j].sent

\* At sample x of its queue's axis a bundle is not behind the sample it is to
\* run on, which is its stamp's unless it was late.
Timed(b, x) ==
    /\ b.born <= x /\ x <= b.born + b.lead
    /\ b.time <= b.born + b.lead
    /\ b.lead > 0 => b.time = b.born + b.lead

InGoodOrder(queue, x, upto) ==
    /\ Ordered(queue)
    /\ \A b \in Range(queue) : b.sent <= upto /\ Timed(b, x)

StampInv ==
    /\ InGoodOrder(sched, Here, sent)
    /\ \A k \in Transports : InGoodOrder(tsched[k], rolled[k], sent)
    /\ OnStamp

\* The invariant says what the properties say.
LEMMA StampsAreInOrder == StampInv => ArrivalOrder /\ OnStamp
  BY DEF StampInv, InGoodOrder, Ordered, ArrivalOrder

\* The places of a sorted queue up to a stamp are its first ones.
LEMMA FirstOnes ==
    ASSUME NEW n \in Nat, NEW B \in SUBSET (1 .. n), \A i \in B : \A j \in 1 .. n : j < i => j \in B
    PROVE  B = 1 .. Cardinality(B)
  <1> DEFINE out == {i \in Nat \ {0} : i \notin B}
  <1>1. n + 1 \in out /\ out \in SUBSET Nat
    OBVIOUS
  <1>2. PICK s \in out : \A m \in out : s <= m
    <2> HIDE DEF out
    <2> QED  BY <1>1, SmallestOf
  <1>3. s \in Nat \ {0} /\ s \notin B /\ s <= n + 1 /\ s - 1 \in Nat
    BY <1>1, <1>2
  <1>4. ASSUME NEW i \in B PROVE i \in 1 .. s - 1
    <2>1. ~(s < i)
      BY <1>3
    <2> QED  BY <1>3, <2>1
  <1>5. ASSUME NEW i \in 1 .. s - 1 PROVE i \in B
    BY <1>2, <1>3
  <1>6. B = 1 .. s - 1
    BY <1>4, <1>5
  <1>7. Cardinality(1 .. s - 1) = s - 1
    <2>1. Cardinality(1 .. s - 1) = IF 1 > s - 1 THEN 0 ELSE (s - 1) - 1 + 1
      BY <1>3, FS_Interval
    <2> QED  BY <1>3, <2>1
  <1> QED  BY <1>6, <1>7

\* The latest to be sent, put in by its stamp, keeps the order.
LEMMA OrderedInsert ==
    ASSUME NEW q \in Seq(Bundle), NEW e \in Bundle, Ordered(q), \A b \in Range(q) : b.sent <= e.sent
    PROVE  Ordered(Insert(q, e))
  <1> DEFINE before == {i \in DOMAIN q : q[i].time <= e.time}
             c == Cardinality(before)
             r == InsertAt(q, c + 1, e)
             n == Len(q)
  <1>1. n \in Nat /\ DOMAIN q = 1 .. n /\ e.time \in Nat /\ e.sent \in Nat
        /\ \A i \in 1 .. n : q[i].time \in Nat /\ q[i].sent \in Nat /\ q[i].sent <= e.sent
    <2>1. \A i \in 1 .. n : q[i] \in Range(q) /\ q[i] \in Bundle
      BY DEF Range
    <2>2. ASSUME NEW b \in Bundle PROVE b.time \in Nat /\ b.sent \in Nat
      BY DEF Bundle
    <2> HIDE DEF n
    <2>3. e.time \in Nat /\ e.sent \in Nat
      BY <2>2
    <2>4. n \in Nat /\ DOMAIN q = 1 .. n
      BY DEF n
    <2> QED  BY <2>1, <2>2, <2>3, <2>4
  <1>2. \A i, j \in 1 .. n : /\ i < j => q[i].time <= q[j].time
                             /\ i < j /\ q[i].time = q[j].time /\ q[j].lane = None
                                  => q[i].sent <= q[j].sent
    BY <1>1 DEF Ordered
  <1>3. before = 1 .. c /\ c \in 0 .. n
    <2>1. before \in SUBSET (1 .. n)
      BY <1>1
    <2>2. ASSUME NEW i \in before, NEW j \in 1 .. n, j < i PROVE j \in before
      BY <1>1, <1>2, <2>2
    <2> HIDE DEF before, n
    <2> QED  BY <1>1, <2>1, <2>2, FirstOnes, Below
  <1>4. \A i \in 1 .. n : IF i <= c THEN q[i].time <= e.time ELSE q[i].time > e.time
    <2>1. ASSUME NEW i \in 1 .. n PROVE i \in 1 .. c <=> q[i].time <= e.time
      BY <1>1, <1>3
    <2> HIDE DEF c
    <2> QED  BY <1>1, <1>3, <2>1
  <1>5. Insert(q, e) = r
    BY DEF Insert
  <1> HIDE DEF c, before, n, r
  <1>6. /\ r \in Seq(Bundle) /\ Len(r) = n + 1
        /\ \A j \in 1 .. n + 1 : r[j] = IF j < c + 1 THEN q[j] ELSE IF j = c + 1 THEN e ELSE q[j - 1]
    <2> DEFINE at == c + 1
    <2>1. at \in 1 .. Len(q) + 1 /\ r = InsertAt(q, at, e)
      BY <1>1, <1>3 DEF n, r
    <2> HIDE DEF at, r
    <2>2. /\ InsertAt(q, at, e) \in Seq(Bundle) /\ Len(InsertAt(q, at, e)) = Len(q) + 1
          /\ \A j \in 1 .. Len(q) + 1 :
               InsertAt(q, at, e)[j] = IF j < at THEN q[j] ELSE IF j = at THEN e ELSE q[j - 1]
      <3>1. at \in 1 .. Len(q) + 1
        BY <2>1
      <3> QED  BY <3>1, Inserted
    <2>3. /\ r \in Seq(Bundle) /\ Len(r) = Len(q) + 1
          /\ \A j \in 1 .. Len(q) + 1 :
               r[j] = IF j < at THEN q[j] ELSE IF j = at THEN e ELSE q[j - 1]
      BY <2>1, <2>2, Zenon
    <2> QED  BY <2>3 DEF n, at
  <1>7. ASSUME NEW i \in 1 .. n + 1, NEW j \in 1 .. n + 1, i < j
        PROVE  /\ r[i].time <= r[j].time
               /\ r[i].time = r[j].time /\ r[j].lane = None => r[i].sent <= r[j].sent
    <2>1. CASE j <= c
      <3>1. r[i] = q[i] /\ r[j] = q[j] /\ i \in 1 .. n /\ j \in 1 .. n
        BY <1>1, <1>3, <1>6, <1>7, <2>1
      <3> QED  BY <1>2, <1>7, <3>1
    <2>2. CASE j = c + 1
      <3>1. r[i] = q[i] /\ r[j] = e /\ i \in 1 .. n /\ i <= c
        BY <1>1, <1>3, <1>6, <1>7, <2>2
      <3> QED  BY <1>1, <1>4, <3>1
    <2>3. CASE j > c + 1 /\ i <= c
      <3>1. r[i] = q[i] /\ r[j] = q[j - 1] /\ i \in 1 .. n /\ j - 1 \in 1 .. n /\ i < j - 1
        BY <1>1, <1>3, <1>6, <1>7, <2>3
      <3> QED  BY <1>2, <3>1
    <2>4. CASE j > c + 1 /\ i = c + 1
      <3>1. r[i] = e /\ r[j] = q[j - 1] /\ j - 1 \in 1 .. n /\ ~(j - 1 <= c)
        BY <1>1, <1>3, <1>6, <1>7, <2>4
      <3>2. q[j - 1].time > e.time /\ q[j - 1].time \in Nat
        BY <1>1, <1>4, <3>1
      <3> QED  BY <1>1, <3>1, <3>2
    <2>5. CASE j > c + 1 /\ i > c + 1
      <3>1. r[i] = q[i - 1] /\ r[j] = q[j - 1] /\ i - 1 \in 1 .. n /\ j - 1 \in 1 .. n /\ i - 1 < j - 1
        BY <1>1, <1>3, <1>6, <1>7, <2>5
      <3> QED  BY <1>2, <3>1
    <2> QED  BY <1>1, <1>3, <2>1, <2>2, <2>3, <2>4, <2>5
  <1>8. DOMAIN r = 1 .. n + 1
    BY <1>1, <1>6
  <1> QED  BY <1>5, <1>7, <1>8 DEF Ordered

\* So does what is kept of a queue.
LEMMA OrderedRetain ==
    ASSUME NEW q \in Seq(Bundle), NEW keep, Ordered(q)
    PROVE  Ordered(Retain(q, keep))
  <1> DEFINE r == Retain(q, keep)
  <1>1. r \in Seq(Bundle) /\ Picked(q, keep, r, Len(q))
    BY Retained
  <1> HIDE DEF r
  <1>2. PICK place : Places(q, keep, r, Len(q), place)
    BY <1>1 DEF Picked
  <1>3. DOMAIN r = 1 .. Len(r) /\ DOMAIN q = 1 .. Len(q)
    BY <1>1
  <1>4. /\ place \in [1 .. Len(r) -> 1 .. Len(q)]
        /\ \A i \in 1 .. Len(r) : r[i] = q[place[i]]
        /\ \A i, j \in 1 .. Len(r) : i < j => place[i] < place[j]
    BY <1>2 DEF Places
  <1>5. ASSUME NEW i \in 1 .. Len(r), NEW j \in 1 .. Len(r), i < j
        PROVE  /\ r[i].time <= r[j].time
               /\ r[i].time = r[j].time /\ r[j].lane = None => r[i].sent <= r[j].sent
    BY <1>3, <1>4, <1>5 DEF Ordered
  <1> QED  BY <1>3, <1>5 DEF Ordered, r

\* The head of a queue in order is the first to be due.
LEMMA OrderedTail ==
    ASSUME NEW q \in Seq(Bundle), q # << >>, Ordered(q)
    PROVE  Ordered(Tail(q)) /\ \A b \in Range(q) : Head(q).time <= b.time
  <1>1. /\ Len(q) \in Nat \ {0} /\ DOMAIN q = 1 .. Len(q) /\ Head(q) = q[1]
        /\ DOMAIN Tail(q) = 1 .. Len(q) - 1
        /\ \A i \in 1 .. Len(q) - 1 : Tail(q)[i] = q[i + 1]
    OBVIOUS
  <1>2. ASSUME NEW i \in 1 .. Len(q) - 1, NEW j \in 1 .. Len(q) - 1, i < j
        PROVE  /\ Tail(q)[i].time <= Tail(q)[j].time
               /\ Tail(q)[i].time = Tail(q)[j].time /\ Tail(q)[j].lane = None
                    => Tail(q)[i].sent <= Tail(q)[j].sent
    <2>1. i + 1 \in DOMAIN q /\ j + 1 \in DOMAIN q /\ i + 1 < j + 1
      BY <1>1, <1>2
    <2> QED  BY <1>1, <2>1 DEF Ordered
  <1>3. ASSUME NEW i \in 1 .. Len(q) PROVE q[1].time <= q[i].time
    <2>1. CASE i = 1
      <3>1. q[1] \in Bundle
        BY <1>1
      <3> QED  BY <2>1, <3>1 DEF Bundle
    <2>2. CASE i # 1
      <3>1. 1 \in DOMAIN q /\ i \in DOMAIN q /\ 1 < i
        BY <1>1, <2>2
      <3> QED  BY <3>1 DEF Ordered
    <2> QED  BY <2>1, <2>2
  <1> QED  BY <1>1, <1>2, <1>3 DEF Ordered, Range

\* A slice passes nothing that is due.
LEMMA SliceStopsAtCuts ==
    ASSUME ClockTypes, cursor < SliceEnd, NEW c, c.due \in Nat,
           c \in DeviceCuts \union TransportCuts \union EdgeCuts \union LaneCuts
    PROVE  now + SliceEnd <= c.due /\ SliceEnd \in 0 .. Block
  <1>1. SliceEnd \in 0 .. Block
    BY SliceStaysInBlock
  <1>2. CASE c \in Cuts
    <2>1. Cuts # {} /\ SliceEnd = Due.due - now
      BY <1>2 DEF SliceEnd
    <2>2. Precedes(Due, c) /\ Due.due \in Nat
      BY <1>2, <2>1, DueIsACut, CutTypes
    <2>3. Due.due <= c.due
      BY <2>2 DEF Precedes
    <2> QED  BY <1>1, <2>1, <2>2, <2>3 DEF ClockTypes
  <1>3. CASE c \notin Cuts
    <2>1. ~InBlock(c)
      BY <1>3 DEF Cuts
    <2>2. c.due >= now + Block
      BY <2>1, GoodConstants DEF InBlock, BlockEnd, ClockTypes
    <2> QED  BY <1>1, <2>2, GoodConstants DEF ClockTypes
  <1> QED  BY <1>1, <1>2, <1>3

\* The same three facts of the order and the stamps together.
LEMMA GoodInsert ==
    ASSUME NEW q \in Seq(Bundle), NEW e \in Bundle, NEW x \in Nat, NEW upto \in Nat,
           InGoodOrder(q, x, upto), e.sent = upto, Timed(e, x)
    PROVE  InGoodOrder(Insert(q, e), x, upto)
  <1>1. Ordered(Insert(q, e))
    BY OrderedInsert DEF InGoodOrder
  <1>2. Range(Insert(q, e)) = Range(q) \union {e}
    BY InSorted
  <1> QED  BY <1>1, <1>2 DEF InGoodOrder

\* What is kept of a queue in good order.
LEMMA GoodRetain ==
    ASSUME NEW q \in Seq(Bundle), NEW keep, NEW x, NEW upto, InGoodOrder(q, x, upto)
    PROVE  InGoodOrder(Retain(q, keep), x, upto)
  <1>1. Ordered(Retain(q, keep)) /\ Range(Retain(q, keep)) \subseteq Range(q)
    BY OrderedRetain, InRetained DEF InGoodOrder
  <1> QED  BY <1>1 DEF InGoodOrder

\* What is left when the head is taken.
LEMMA GoodTail ==
    ASSUME NEW q \in Seq(Bundle), q # << >>, NEW x, NEW upto, InGoodOrder(q, x, upto)
    PROVE  InGoodOrder(Tail(q), x, upto) /\ Timed(Head(q), x)
  <1>1. Ordered(Tail(q)) /\ Range(q) = Range(Tail(q)) \union {Head(q)}
    BY OrderedTail, InTail DEF InGoodOrder
  <1> QED  BY <1>1 DEF InGoodOrder

\* An empty queue.
LEMMA GoodEmpty ==
    ASSUME NEW x, NEW upto
    PROVE  InGoodOrder(<< >>, x, upto)
  BY DEF InGoodOrder, Ordered, Range

\* What is sent later is sent after, and the axis may move on to the first stamp.
LEMMA GoodOnwards ==
    ASSUME NEW q \in Seq(Bundle), NEW x \in Nat, NEW y \in Nat, NEW upto \in Nat, NEW next \in Nat,
           InGoodOrder(q, x, upto), x <= y, upto <= next,
           q # << >> => y = x \/ y <= Head(q).time
    PROVE  InGoodOrder(q, y, next)
  <1>1. ASSUME NEW b \in Range(q) PROVE b.sent <= next /\ Timed(b, y)
    <2>1. /\ b.time \in Nat /\ b.sent \in Nat /\ b.born \in Nat /\ b.lead \in Nat
      <3>1. b \in Bundle
        BY RangeTyped
      <3> QED  BY <3>1 DEF Bundle
    <2>2. b.sent <= upto /\ Timed(b, x)
      BY DEF InGoodOrder
    <2>3. q # << >>
      BY DEF Range
    <2>4. Head(q).time <= b.time /\ Head(q).time \in Nat
      <3>1. Head(q) \in Bundle
        BY <2>3
      <3> QED  BY <2>3, <3>1, OrderedTail DEF InGoodOrder, Bundle
    <2> QED  BY <2>1, <2>2, <2>3, <2>4, SMTT(30) DEF Timed
  <1> QED  BY <1>1 DEF InGoodOrder

\* No stamp passes where no clock moves.
LEMMA StampsAlone ==
    ASSUME SafelyTyped, StampInv, UNCHANGED <<sched, tsched, now, cursor, rolled, fired>>,
           sent' \in Nat, sent <= sent'
    PROVE  StampInv'
  <1>1. Here \in Nat /\ sent \in Nat /\ sched \in Seq(Bundle) /\ Here' = Here
    BY GoodConstants, MoreConstants DEF SafelyTyped, Typed, ClockTypes, QueueTypes, RestTypes, Here
  <1>2. InGoodOrder(sched, Here, sent')
    BY <1>1, GoodOnwards DEF StampInv
  <1>3. ASSUME NEW k \in Transports PROVE InGoodOrder(tsched[k], rolled[k], sent')
    <2>1. tsched[k] \in Seq(Bundle) /\ rolled[k] \in Nat
      BY DEF SafelyTyped, Typed, ClockTypes, QueueTypes
    <2> QED  BY <1>1, <2>1, GoodOnwards DEF StampInv
  <1> QED  BY <1>1, <1>2, <1>3 DEF StampInv, OnStamp

\* A command only takes bundles out of the queues.
LEMMA QueuesOfACommand ==
    ASSUME Typed, NEW c \in Command, Apply(c)
    PROVE  /\ sched' = sched \/ sched' = << >>
           /\ \A k \in Transports : tsched'[k] = tsched[k] \/ \E keep : tsched'[k] = Retain(tsched[k], keep)
  <1>1. ASSUME NEW k \in Transports, NEW p, StopNow(k) \/ StopRamp(k) \/ Locate(k, p)
        PROVE  /\ sched' = sched
               /\ \A j \in Transports : tsched'[j] = tsched[j] \/ \E keep : tsched'[j] = Retain(tsched[j], keep)
    <2>1. sched' = sched /\ tsched' = [tsched EXCEPT ![k] = WithoutReleases(k, Lanes)]
      BY <1>1 DEF StopNow, StopRamp, Locate, ReleaseNotes
    <2> QED  BY <2>1 DEF WithoutReleases, Typed, QueueTypes
  <1>2. ASSUME NEW k, NEW x, Play(k) \/ StopAgain(k) \/ SetLoop(k, x) \/ SetEnd(k, x) \/ SetFade(k, x)
                              \/ SetGroup(k, x) \/ Touch
        PROVE  sched' = sched /\ tsched' = tsched
    BY <1>2 DEF Play, StopAgain, SetLoop, SetEnd, SetFade, SetGroup, Touch, queues
  <1>3. ASSUME NEW x, ClearSched(x)
        PROVE  /\ sched' = sched \/ sched' = << >>
               /\ \A k \in Transports : tsched'[k] = tsched[k] \/ \E keep : tsched'[k] = Retain(tsched[k], keep)
    BY <1>3 DEF ClearSched, Kept
  <1>4. ASSUME NEW lane \in Lanes, NEW release, ClearLane(lane, release)
        PROVE  /\ sched' = sched
               /\ \A k \in Transports : tsched'[k] = tsched[k] \/ \E keep : tsched'[k] = Retain(tsched[k], keep)
    <2>1. /\ sched' = sched
          /\ tsched' \in {tsched, [tsched EXCEPT ![LaneOf[lane]] = WithoutReleases(LaneOf[lane], {lane})]}
      BY <1>4 DEF ClearLane
    <2> QED  BY <2>1 DEF WithoutReleases, Typed, QueueTypes
  <1>5. CASE c.op = "run" /\ (Play(c.k) \/ StopNow(c.k) \/ StopRamp(c.k) \/ StopAgain(c.k))
    BY <1>1, <1>2, <1>5, Carries
  <1>6. CASE c.op = "locate" /\ Locate(c.k, c.position)
    BY <1>1, <1>6, Carries
  <1>7. CASE c.op = "clear_lane" /\ ClearLane(c.lane, c.release)
    BY <1>4, <1>7, Carries
  <1> QED  BY <1>2, <1>3, <1>5, <1>6, <1>7 DEF Apply

\* Notes that are released leave of each queue a part of it.
LEMMA ReleasedQueues ==
    ASSUME Typed, NEW k, ReleaseNotes(k)
    PROVE  \A j \in Transports : tsched'[j] = tsched[j] \/ \E keep : tsched'[j] = Retain(tsched[j], keep)
  BY DEF ReleaseNotes, WithoutReleases, Typed, QueueTypes

\* Bundles that leave a queue, with nothing else moving.
LEMMA FewerKeepStamps ==
    ASSUME SafelyTyped, StampInv, UNCHANGED <<now, cursor, rolled, fired>>, sent' \in Nat, sent <= sent',
           sched' = sched \/ sched' = << >>,
           \A k \in Transports : tsched'[k] = tsched[k] \/ \E keep : tsched'[k] = Retain(tsched[k], keep),
           QueueTypes'
    PROVE  StampInv'
  <1>1. Here \in Nat /\ sent \in Nat /\ sched' \in Seq(Bundle) /\ Here' = Here
    BY GoodConstants, MoreConstants DEF SafelyTyped, Typed, ClockTypes, QueueTypes, RestTypes, Here
  <1>2. InGoodOrder(sched', Here, sent')
    <2>1. InGoodOrder(sched', Here, sent)
      BY GoodEmpty DEF StampInv
    <2> QED  BY <1>1, <2>1, GoodOnwards
  <1>3. ASSUME NEW k \in Transports PROVE InGoodOrder(tsched'[k], rolled[k], sent')
    <2>1. tsched[k] \in Seq(Bundle) /\ tsched'[k] \in Seq(Bundle) /\ rolled[k] \in Nat
      BY DEF SafelyTyped, Typed, ClockTypes, QueueTypes
    <2>2. InGoodOrder(tsched[k], rolled[k], sent)
      BY DEF StampInv
    <2>3. InGoodOrder(tsched'[k], rolled[k], sent)
      BY <2>1, <2>2, GoodRetain
    <2> QED  BY <1>1, <2>1, <2>3, GoodOnwards
  <1> QED  BY <1>1, <1>2, <1>3 DEF StampInv, OnStamp

\* Where a transport rolls while the block is cut, and while the FIFO is
\* drained, its clock is the samples it rolled.
LEMMA ClockIsRolled ==
    ASSUME SafelyTyped, NEW k \in Transports, stage = "drain" \/ (stage = "cut" /\ rolling[k])
    PROVE  Here = frozenTotal[k] + rolled[k] /\ At(k, Here) = rolled[k]
           /\ frozenTotal[k] \in Nat /\ rolled[k] \in Nat /\ Here \in Nat
  <1>1. /\ now + cursor = frozenTotal[k] + InFlight(k) + rolled[k]
        /\ stage = "cut" => (frozenFrom[k] = None <=> rolling[k])
    BY DEF SafelyTyped, ClockInv, CreditedClock
  <1>2. InFlight(k) = 0
    BY <1>1 DEF InFlight
  <1>3. frozenTotal[k] \in Nat /\ rolled[k] \in Nat /\ Here \in Nat
    BY Stands DEF SafelyTyped
  <1> QED  BY <1>1, <1>2, <1>3 DEF Here, At, ToTransport, SatSub

\* A bundle that is scheduled is the latest of its queue.
LEMMA ScheduleKeepsStamps ==
    ASSUME SafelyTyped, StampInv, stage = "drain", NEW time \in Nat, NEW cmds \in Seq(Command),
           Schedule(time, cmds), UNCHANGED <<now, cursor, rolled, fired>>, sent' = sent + 1
    PROVE  StampInv'
  <1> DEFINE bundle(at, from) == [time |-> at, born |-> from, sent |-> sent,
                                  lead |-> SatSub(time, Here),
                                  cmds |-> cmds, lane |-> None, note |-> None]
             k == Governing(cmds)
  <1>1. Here \in Nat /\ sent \in Nat /\ SatSub(time, Here) \in Nat /\ Here' = Here
        /\ sched \in Seq(Bundle)
    <2>1. Here \in Nat
      BY GoodConstants DEF Here, SafelyTyped, Typed, ClockTypes
    <2> QED  BY <2>1, MoreConstants DEF SatSub, SafelyTyped, Typed, QueueTypes, RestTypes, Here
  <1>2. ASSUME NEW at \in Nat, NEW from \in Nat
        PROVE  bundle(at, from) \in Bundle /\ bundle(at, from).sent = sent
    BY <1>1 DEF Bundle
  <1>3. CASE UNCHANGED <<sched, tsched>>
    BY <1>1, <1>3, StampsAlone
  <1>4. CASE k = None /\ sched' = Insert(sched, bundle(time, Here)) /\ tsched' = tsched
    <2> DEFINE b == bundle(time, Here)
    <2>1. b \in Bundle /\ b.sent = sent
      BY <1>1, <1>2
    <2>2. Timed(b, Here)
      BY <1>1 DEF Timed, SatSub
    <2> HIDE DEF b
    <2>3. InGoodOrder(Insert(sched, b), Here, sent) /\ Insert(sched, b) \in Seq(Bundle)
      BY <1>1, <2>1, <2>2, GoodInsert, InsertTyped DEF StampInv
    <2>4. InGoodOrder(Insert(sched, b), Here, sent')
      BY <1>1, <2>3, GoodOnwards
    <2>5. ASSUME NEW j \in Transports PROVE InGoodOrder(tsched[j], rolled[j], sent')
      <3>1. tsched[j] \in Seq(Bundle) /\ rolled[j] \in Nat
        BY DEF SafelyTyped, Typed, ClockTypes, QueueTypes
      <3> QED  BY <1>1, <3>1, GoodOnwards DEF StampInv
    <2> QED  BY <1>1, <1>4, <2>4, <2>5 DEF b, StampInv, OnStamp
  <1>5. CASE /\ k # None /\ sched' = sched
             /\ tsched' = [tsched EXCEPT ![k] = Insert(tsched[k], bundle(At(k, time), rolled[k]))]
    <2>1. k \in Transports
      BY <1>5, GovernsOne DEF SafelyTyped
    <2> HIDE DEF k
    <2> DEFINE b == bundle(At(k, time), rolled[k])
    <2>2. Here = frozenTotal[k] + rolled[k] /\ frozenTotal[k] \in Nat /\ rolled[k] \in Nat
      BY <2>1, ClockIsRolled, Zenon
    <2>3. At(k, time) \in Nat
      BY <2>2 DEF At, ToTransport, SatSub
    <2>4. b \in Bundle /\ b.sent = sent
      BY <1>2, <2>2, <2>3
    <2>5. Timed(b, rolled[k])
      BY <2>2 DEF Timed, At, ToTransport, SatSub
    <2> HIDE DEF b
    <2>6. tsched[k] \in Seq(Bundle)
      BY <2>1 DEF SafelyTyped, Typed, QueueTypes
    <2>7. InGoodOrder(Insert(tsched[k], b), rolled[k], sent) /\ Insert(tsched[k], b) \in Seq(Bundle)
      BY <1>1, <2>1, <2>2, <2>4, <2>5, <2>6, GoodInsert, InsertTyped DEF StampInv
    <2>8. InGoodOrder(Insert(tsched[k], b), rolled[k], sent')
      BY <1>1, <2>2, <2>7, GoodOnwards
    <2>9. ASSUME NEW j \in Transports PROVE InGoodOrder(tsched[j], rolled[j], sent')
      <3>1. tsched[j] \in Seq(Bundle) /\ rolled[j] \in Nat
        BY DEF SafelyTyped, Typed, ClockTypes, QueueTypes
      <3> QED  BY <1>1, <3>1, GoodOnwards DEF StampInv
    <2>10. InGoodOrder(sched, Here, sent')
      BY <1>1, GoodOnwards DEF StampInv
    <2>11. \A j \in Transports : tsched'[j] = IF j = k THEN Insert(tsched[k], b) ELSE tsched[j]
      BY <1>5 DEF b, SafelyTyped, Typed, QueueTypes
    <2> QED  BY <1>1, <1>5, <2>8, <2>9, <2>10, <2>11 DEF StampInv, OnStamp
  <1>6. \/ UNCHANGED <<sched, tsched>>
        \/ k = None /\ sched' = Insert(sched, bundle(time, Here)) /\ tsched' = tsched
        \/ /\ k # None /\ sched' = sched
           /\ tsched' = [tsched EXCEPT ![k] = Insert(tsched[k], bundle(At(k, time), rolled[k]))]
    BY DEF Schedule
  <1> QED  BY <1>3, <1>4, <1>5, <1>6

\* A slice carries every axis at most to the first stamp of its queue.
LEMMA SliceKeepsStamps ==
    ASSUME SafelyTyped, StampInv, Slice
    PROVE  StampInv'
  <1> DEFINE to == SliceEnd
  <1>1. /\ UNCHANGED <<now, sched, tsched, sent, fired>> /\ stage = "cut"
        /\ cursor < to /\ cursor' = to
        /\ rolled' = [k \in Transports |->
                        rolled[k] + IF rolling[k] THEN to - cursor ELSE 0]
    BY DEF Slice, queues
  <1>2. to \in 0 .. Block /\ cursor \in Nat /\ now \in Nat /\ sent \in Nat
        /\ Here' = now + to /\ Here = now + cursor
    BY <1>1, SliceStaysInBlock, GoodConstants, MoreConstants
       DEF SafelyTyped, Typed, ClockTypes, RestTypes, Here
  <1>3. ASSUME sched # << >> PROVE now + to <= Head(sched).time
    <2> DEFINE c == Cut(0, 0, "bundle", Head(sched).time)
    <2>1. c \in DeviceCuts
      BY <1>3 DEF DeviceCuts
    <2>2. c.due = Head(sched).time /\ Head(sched).time \in Nat
      <3>1. Head(sched) \in Bundle
        BY <1>3 DEF SafelyTyped, Typed, QueueTypes
      <3> QED  BY <3>1 DEF Cut, Bundle
    <2> HIDE DEF c
    <2> QED  BY <1>1, <2>1, <2>2, SliceStopsAtCuts DEF SafelyTyped, Typed
  <1>4. ASSUME NEW k \in Transports, rolling[k], tsched[k] # << >>
        PROVE  now + to <= Head(tsched[k]).time + frozenTotal[k] /\ Head(tsched[k]).time \in Nat
    <2> DEFINE c == Cut(1, k, "bundle", ToDevice(Head(tsched[k]).time, frozenTotal[k]))
    <2>1. c \in TransportCuts
      BY <1>4 DEF TransportCuts
    <2>2. c.due = Head(tsched[k]).time + frozenTotal[k] /\ c.due \in Nat /\ Head(tsched[k]).time \in Nat
      <3>1. Head(tsched[k]) \in Bundle /\ frozenTotal[k] \in Nat
        BY <1>4 DEF SafelyTyped, Typed, QueueTypes, ClockTypes
      <3> QED  BY <3>1 DEF Cut, Bundle, ToDevice
    <2> HIDE DEF c
    <2> QED  BY <1>1, <2>1, <2>2, SliceStopsAtCuts DEF SafelyTyped, Typed
  <1> HIDE DEF to
  <1>5. InGoodOrder(sched, now + to, sent)
    <2>1. sched \in Seq(Bundle)
      BY DEF SafelyTyped, Typed, QueueTypes
    <2> QED  BY <1>1, <1>2, <1>3, <2>1, GoodOnwards DEF StampInv
  <1>6. ASSUME NEW k \in Transports PROVE InGoodOrder(tsched[k], rolled'[k], sent)
    <2>1. tsched[k] \in Seq(Bundle) /\ rolled[k] \in Nat /\ InGoodOrder(tsched[k], rolled[k], sent)
      BY DEF StampInv, SafelyTyped, Typed, QueueTypes, ClockTypes
    <2>2. CASE rolling[k]
      <3>1. Here = frozenTotal[k] + rolled[k] /\ frozenTotal[k] \in Nat
        BY <1>1, <2>2, ClockIsRolled
      <3>2. rolled'[k] = rolled[k] + (to - cursor) /\ rolled'[k] \in Nat /\ rolled[k] <= rolled'[k]
        BY <1>1, <1>2, <2>1, <2>2
      <3>3. tsched[k] # << >> => rolled'[k] <= Head(tsched[k]).time
        BY <1>2, <1>4, <2>1, <2>2, <3>1, <3>2, SMTT(30)
      <3> QED  BY <1>2, <2>1, <3>2, <3>3, GoodOnwards
    <2>3. CASE ~rolling[k]
      BY <1>1, <2>1, <2>3
    <2> QED  BY <2>2, <2>3
  <1> QED  BY <1>1, <1>2, <1>5, <1>6 DEF StampInv, OnStamp

\* What is due is taken on the sample it was to run on.
LEMMA TakesOnStamp ==
    ASSUME NEW b \in Bundle, NEW x \in Nat, Timed(b, x), b.time <= x
    PROVE  x = b.born + b.lead
  BY DEF Timed, Bundle

\* A bundle that is taken is due at the sample it is taken on.
LEMMA TakeKeepsStamps ==
    ASSUME SafelyTyped, StampInv, TakeDevice \/ TakeTransport
    PROVE  StampInv'
  <1>1. Here \in Nat /\ Due \in Cuts /\ Due.due <= Here /\ stage = "cut"
    BY DueSays, GoodConstants DEF TakeDevice, TakeTransport, Here, SafelyTyped, Typed, ClockTypes
  <1>2. CASE TakeDevice
    <2>1. sched # << >> /\ sched \in Seq(Bundle) /\ Head(sched) \in Bundle
      BY <1>2, DueSays DEF TakeDevice, SafelyTyped, Typed, QueueTypes
    <2>2. Due.due = Head(sched).time
      <3>1. Due \in DeviceCuts
        <4>1. \A c \in TransportCuts : c.rank = 1
          BY DEF TransportCuts, Cut
        <4>2. \A c \in EdgeCuts : c.rank = 2
          BY EdgeSays DEF EdgeCuts
        <4>3. \A c \in LaneCuts : c.rank = 3
          BY DEF LaneCuts, Cut
        <4> QED  BY <1>1, <1>2, <4>1, <4>2, <4>3 DEF TakeDevice, Cuts
      <3> QED  BY <3>1 DEF DeviceCuts, Cut
    <2>3. InGoodOrder(Tail(sched), Here, sent) /\ Timed(Head(sched), Here)
      BY <2>1, GoodTail DEF StampInv
    <2>4. Here = Head(sched).born + Head(sched).lead
      BY <1>1, <2>1, <2>2, <2>3, TakesOnStamp
    <2>5. /\ sched' = Tail(sched) /\ UNCHANGED <<now, cursor, tsched, rolled, sent>>
          /\ fired' = [born |-> Head(sched).born, lead |-> Head(sched).lead, at |-> Here]
      BY <1>2 DEF TakeDevice
    <2>6. OnStamp'
      BY <2>4, <2>5 DEF OnStamp
    <2> QED  BY <2>3, <2>5, <2>6 DEF StampInv, Here
  <1>3. CASE TakeTransport
    <2> DEFINE k == Due.k
    <2>1. k \in Transports /\ rolling[k] /\ tsched[k] # << >>
      BY <1>3, DueSays DEF TakeTransport
    <2>2. Due.due = Head(tsched[k]).time + frozenTotal[k]
      <3>1. Due \in TransportCuts
        <4>1. \A c \in DeviceCuts : c.rank = 0
          BY DEF DeviceCuts, Cut
        <4>2. \A c \in EdgeCuts : c.rank = 2
          BY EdgeSays DEF EdgeCuts
        <4>3. \A c \in LaneCuts : c.rank = 3
          BY DEF LaneCuts, Cut
        <4> QED  BY <1>1, <1>3, <4>1, <4>2, <4>3 DEF TakeTransport, Cuts
      <3> QED  BY <3>1 DEF TransportCuts, Cut, ToDevice
    <2>3. /\ tsched' = [tsched EXCEPT ![k] = Tail(tsched[k])]
          /\ UNCHANGED <<now, cursor, sched, rolled, sent>>
          /\ fired' = [born |-> Head(tsched[k]).born, lead |-> Head(tsched[k]).lead, at |-> rolled[k]]
      BY <1>3 DEF TakeTransport
    <2> HIDE DEF k
    <2>4. tsched[k] \in Seq(Bundle) /\ Head(tsched[k]) \in Bundle
      BY <2>1 DEF SafelyTyped, Typed, QueueTypes
    <2>5. InGoodOrder(Tail(tsched[k]), rolled[k], sent) /\ Timed(Head(tsched[k]), rolled[k])
      BY <2>1, <2>4, GoodTail DEF StampInv
    <2>6. Head(tsched[k]).time <= rolled[k] /\ rolled[k] \in Nat
      <3>1. Here = frozenTotal[k] + rolled[k] /\ frozenTotal[k] \in Nat /\ rolled[k] \in Nat
        BY <1>1, <2>1, ClockIsRolled
      <3>2. Head(tsched[k]).time \in Nat
        BY <2>4 DEF Bundle
      <3> QED  BY <1>1, <2>2, <3>1, <3>2
    <2>7. rolled[k] = Head(tsched[k]).born + Head(tsched[k]).lead
      BY <2>4, <2>5, <2>6, TakesOnStamp
    <2>8. OnStamp'
      BY <2>3, <2>7 DEF OnStamp
    <2>9. \A j \in Transports : tsched'[j] = IF j = k THEN Tail(tsched[k]) ELSE tsched[j]
      BY <2>3 DEF SafelyTyped, Typed, QueueTypes
    <2> QED  BY <2>3, <2>5, <2>8, <2>9 DEF StampInv, Here
  <1> QED  BY <1>2, <1>3

\* The release a lane event queues is the latest of its queue.
LEMMA FireKeepsStamps ==
    ASSUME SafelyTyped, StampInv, FireLane
    PROVE  StampInv'
  <1> DEFINE k == Due.k
             entry == lanes[k][NextEntry(k)]
             release == [time |-> At(k, Here) + entry.length, born |-> rolled[k],
                         sent |-> sent, lead |-> entry.length, cmds |-> << >>,
                         lane |-> entry.lane, note |-> entry.note]
  <1>1. k \in Transports /\ LaneAhead(k) # {} /\ rolling[k] /\ stage = "cut"
    BY DueSays DEF FireLane
  <1>2. entry \in Entry
    BY <1>1, NextIsAhead DEF SafelyTyped
  <1>3. /\ \/ tsched' = [tsched EXCEPT ![k] = Insert(tsched[k], release)]
           \/ tsched' = tsched
        /\ UNCHANGED <<now, cursor, sched, rolled, sent, fired>>
    BY DEF FireLane, block, history
  <1>4. At(k, Here) = rolled[k] /\ rolled[k] \in Nat
    BY <1>1, ClockIsRolled
  <1>5. release \in Bundle /\ release.sent = sent /\ Timed(release, rolled[k]) /\ sent \in Nat
    <2>1. entry.length \in Nat /\ entry.lane \in Lanes /\ entry.note \in Nat
      BY <1>2 DEF Entry
    <2>2. sent \in Nat /\ << >> \in Seq(Command)
      BY MoreConstants DEF SafelyTyped, Typed, RestTypes
    <2> HIDE DEF entry, k
    <2> QED  BY <1>4, <2>1, <2>2 DEF Bundle, Timed
  <1> HIDE DEF release, entry, k
  <1>6. tsched[k] \in Seq(Bundle)
    BY <1>1 DEF SafelyTyped, Typed, QueueTypes
  <1>7. InGoodOrder(Insert(tsched[k], release), rolled[k], sent)
    BY <1>1, <1>4, <1>5, <1>6, GoodInsert DEF StampInv
  <1>8. ASSUME NEW j \in Transports PROVE InGoodOrder(tsched'[j], rolled[j], sent)
    <2>1. tsched'[j] = tsched[j] \/ (j = k /\ tsched'[j] = Insert(tsched[k], release))
      <3>1. tsched \in [Transports -> Seq(Bundle)]
        BY DEF SafelyTyped, Typed, QueueTypes
      <3> DEFINE q == Insert(tsched[k], release)
      <3>2. tsched' = tsched \/ tsched' = [tsched EXCEPT ![k] = q]
        BY <1>3
      <3> HIDE DEF q
      <3>3. tsched'[j] = tsched[j] \/ (j = k /\ tsched'[j] = q)
        BY <1>1, <3>1, <3>2
      <3> QED  BY <3>3 DEF q
    <2> QED  BY <1>7, <2>1 DEF StampInv
  <1> QED  BY <1>3, <1>8 DEF StampInv, OnStamp, Here

\* Every step keeps the stamps.
LEMMA StampsStay ==
    ASSUME SafelyTyped, SafelyTyped', StampInv, [Next]_vars
    PROVE  StampInv'
  <1>1. sent \in Nat /\ QueueTypes' /\ Typed
    BY MoreConstants DEF SafelyTyped, Typed, RestTypes
  <1>2. CASE Receive
    <2>1. UNCHANGED <<now, cursor, rolled, fired>> /\ sent' = sent + 1 /\ stage = "drain"
      BY <1>2 DEF Receive, block
    <2>2. ASSUME NEW c \in Immediate, Apply(c) PROVE StampInv'
      BY <1>1, <2>1, <2>2, QueuesOfACommand, FewerKeepStamps, MoreConstants
    <2>3. ASSUME NEW time \in Times, NEW cmds \in Bundles, Schedule(time, cmds) PROVE StampInv'
      BY <2>1, <2>3, ScheduleKeepsStamps, MoreConstants
    <2>4. ASSUME NEW spec, FeedLane(spec) PROVE StampInv'
      <3>1. UNCHANGED <<sched, tsched>>
        BY <2>4 DEF FeedLane
      <3> QED  BY <1>1, <2>1, <3>1, StampsAlone
    <2> QED  BY <1>2, <2>2, <2>3, <2>4 DEF Receive
  <1>3. CASE RunCommand
    <2>1. Head(batch) \in Command /\ Apply(Head(batch)) /\ UNCHANGED <<now, cursor, rolled, fired, sent>>
      BY <1>1, <1>3, Taken DEF RunCommand, Typed, RestTypes
    <2> QED  BY <1>1, <2>1, QueuesOfACommand, FewerKeepStamps
  <1>4. CASE CrossEdge
    <2>1. UNCHANGED <<sched, now, cursor, rolled, fired, sent>>
      BY <1>4 DEF CrossEdge, Wrap, WrapLanding, Freeze, StopOnMark, RampToMark, FreezeHere, block, queues,
         history
    <2>2. tsched' = tsched \/ ReleaseNotes(Due.k)
      BY <1>4 DEF CrossEdge, Wrap, WrapLanding, Freeze, StopOnMark, RampToMark, FreezeHere, queues
    <2> QED  BY <1>1, <2>1, <2>2, ReleasedQueues, FewerKeepStamps
  <1>5. CASE BeginBlock \/ CloseBundle \/ UNCHANGED vars
    <2>1. UNCHANGED <<sched, tsched, now, cursor, rolled, fired, sent>>
      BY <1>5 DEF BeginBlock, CloseBundle, vars, block, queues, history
    <2> QED  BY <1>1, <2>1, StampsAlone
  <1>6. CASE EndBlock
    <2>1. UNCHANGED <<sched, tsched, rolled, fired, sent>>
          /\ now' = now + Block /\ cursor' = 0 /\ cursor = Block
      BY <1>6 DEF EndBlock, BlockEnd, queues, history
    <2>2. Here' = Here
      BY <1>1, <2>1, GoodConstants DEF Here, Typed, ClockTypes
    <2> QED  BY <2>1, <2>2 DEF StampInv, OnStamp
  <1> QED  BY <1>2, <1>3, <1>4, <1>5, <1>6, SliceKeepsStamps, TakeKeepsStamps, FireKeepsStamps
           DEF Next, Audio, Finished

\* The order of the queues and the stamps of what they hold, together.
LEMMA StampsHold == Safety => [](StampInv /\ SafelyTyped)
  <1>1. Init => SafelyTyped /\ StampInv
    <2> SUFFICES ASSUME Init PROVE SafelyTyped /\ StampInv
      OBVIOUS
    <2>1. SafelyTyped
      BY TypesStart
    <2>2. StampInv
      BY GoodEmpty DEF Init, StampInv, OnStamp
    <2> QED  BY <2>1, <2>2
  <1>2. SafelyTyped /\ StampInv /\ [Next]_vars => (SafelyTyped /\ StampInv)'
    <2> SUFFICES ASSUME SafelyTyped, StampInv, [Next]_vars PROVE SafelyTyped' /\ StampInv'
      OBVIOUS
    <2>1. SafelyTyped'
      BY TypesStay, ClockStays DEF SafelyTyped
    <2> QED  BY <2>1, StampsStay
  <1> QED  BY <1>1, <1>2, PTL DEF Safety

\* A bundle runs on the sample it was stamped for, or on the first one that was
\* left to it when it came late, however its transport stopped and played in
\* between.
THEOREM BundlesRunOnStamp == Safety => []OnStamp
  <1>1. StampInv => OnStamp
    BY StampsAreInOrder
  <1> QED  BY <1>1, StampsHold, PTL

\* Bundles with equal stamps wait in the order they were sent.
THEOREM StampsKeepTheirOrder == Safety => []ArrivalOrder
  <1>1. StampInv => ArrivalOrder
    BY StampsAreInOrder
  <1> QED  BY <1>1, StampsHold, PTL
-----------------------------------------------------------------------------
(* Positions.  What a position does between two edges follows from the clock  *)
(* it is anchored on.                                                        *)

\* A position moves no faster than its clock, and never back.
LEMMA Advance ==
    ASSUME NEW a \in Anchor, NEW c \in Nat, NEW d \in Nat
    PROVE  /\ PositionAt(a, c) <= PositionAt(a, c + d) /\ PositionAt(a, c + d) <= PositionAt(a, c) + d
           /\ PositionAt(a, c) \in Nat /\ PositionAt(a, c + d) \in Nat
  BY DEF PositionAt, Anchor, SatSub

\* A transport's clock at the cursor holds the stopped samples of the block
\* that are not credited yet, so it is not behind what it rolled.
LEMMA ClockAhead ==
    ASSUME SafelyTyped, NEW k \in Transports
    PROVE  /\ At(k, Here) \in Nat /\ rolled[k] \in Nat /\ rolled[k] <= At(k, Here)
           /\ (stage = "drain" \/ frozenFrom[k] = None) => At(k, Here) = rolled[k]
  <1>1. now + cursor = frozenTotal[k] + InFlight(k) + rolled[k]
    BY DEF SafelyTyped, ClockInv, CreditedClock
  <1>2. InFlight(k) \in Nat
    <2>1. CASE stage = "drain" \/ frozenFrom[k] = None
      BY <2>1 DEF InFlight
    <2>2. CASE ~(stage = "drain" \/ frozenFrom[k] = None)
      <3>1. frozenFrom[k] \in Nat /\ cursor \in Nat /\ frozenFrom[k] <= cursor
        BY <2>2, GoodConstants DEF SafelyTyped, ClockInv, ClockTypes, RunsBehind
      <3> QED  BY <2>2, <3>1 DEF InFlight
    <2> QED  BY <2>1, <2>2
  <1>3. frozenTotal[k] \in Nat /\ rolled[k] \in Nat /\ Here \in Nat
    BY Stands DEF SafelyTyped
  <1>4. (stage = "drain" \/ frozenFrom[k] = None) => InFlight(k) = 0
    BY DEF InFlight
  <1> QED  BY <1>1, <1>2, <1>3, <1>4 DEF Here, At, ToTransport, SatSub

\* What is anchored here stands where it is put, and where it was if it is
\* where its readers see it.
LEMMA Anchored ==
    ASSUME SafelyTyped, NEW k \in Transports, NEW p \in Nat
    PROVE  /\ PositionAt(Located(p, At(k, Here)), rolled[k]) = p
           /\ Position(k) <= ViewPosition(k) /\ Position(k) \in Nat /\ ViewPosition(k) \in Nat
           /\ (stage = "drain" \/ frozenFrom[k] = None) => ViewPosition(k) = Position(k)
  <1>1. /\ At(k, Here) \in Nat /\ rolled[k] \in Nat /\ rolled[k] <= At(k, Here)
        /\ (stage = "drain" \/ frozenFrom[k] = None) => At(k, Here) = rolled[k]
    BY ClockAhead
  <1>2. anchor[k] \in Anchor
    BY DEF SafelyTyped, Typed, PlaceTypes
  <1>3. PositionAt(Located(p, At(k, Here)), rolled[k]) = p
    BY <1>1 DEF PositionAt, Located, SatSub
  <1>4. PositionAt(anchor[k], rolled[k]) <= PositionAt(anchor[k], At(k, Here))
        /\ PositionAt(anchor[k], rolled[k]) \in Nat /\ PositionAt(anchor[k], At(k, Here)) \in Nat
    BY <1>1, <1>2 DEF PositionAt, Anchor, SatSub
  <1> QED  BY <1>1, <1>3, <1>4 DEF Position, ViewPosition

\* A position is reached as many samples from here as the transport is short
\* of it.
LEMMA ReachedIn ==
    ASSUME SafelyTyped, stage = "cut", NEW k \in Transports, rolling[k], NEW p \in Nat
    PROVE  /\ ViewPosition(k) = Position(k) /\ Position(k) \in Nat
           /\ DeviceReaching(k, p) = Here + SatSub(p, Position(k)) /\ DeviceReaching(k, p) \in Nat
           /\ Ahead(anchor[k], p, At(k, Here)) <=> p > Position(k)
  <1>1. Here = frozenTotal[k] + rolled[k] /\ At(k, Here) = rolled[k]
        /\ frozenTotal[k] \in Nat /\ rolled[k] \in Nat /\ Here \in Nat
    BY ClockIsRolled
  <1>2. PositionAt(anchor[k], rolled[k]) \in Nat
    BY <1>1, Advance DEF SafelyTyped, Typed, PlaceTypes, Position, PositionAt, SatSub, Anchor
  <1> QED  BY <1>1, <1>2 DEF ViewPosition, Position, DeviceReaching, ToDevice, Ahead, Reaching, SatSub

\* So the slice to an edge that waits for a position does not pass it.
LEMMA SliceStopsShort ==
    ASSUME SafelyTyped, Slice, NEW k \in Transports, rolling[k], NEW p \in Nat,
           NEW c \in Edges(k), c.due = DeviceReaching(k, p)
    PROVE  Position(k) < p /\ Position(k)' <= p
  <1>1. /\ stage = "cut" /\ cursor < SliceEnd /\ anchor' = anchor
        /\ rolled'[k] = rolled[k] + (SliceEnd - cursor)
    BY DEF Slice, placing
  <1>2. /\ DeviceReaching(k, p) = Here + SatSub(p, Position(k)) /\ DeviceReaching(k, p) \in Nat
        /\ Position(k) \in Nat
    BY <1>1, ReachedIn
  <1>3. now + SliceEnd <= c.due /\ SliceEnd \in Nat
    <2>1. c \in EdgeCuts
      BY DEF EdgeCuts
    <2> QED  BY <1>1, <1>2, <2>1, SliceStopsAtCuts, GoodConstants DEF SafelyTyped, Typed
  <1>4. cursor \in Nat /\ now \in Nat /\ rolled[k] \in Nat /\ anchor[k] \in Anchor
    BY GoodConstants DEF SafelyTyped, Typed, ClockTypes, PlaceTypes
  <1>5. SliceEnd - cursor <= SatSub(p, Position(k)) /\ SliceEnd - cursor \in Nat
    BY <1>1, <1>2, <1>3, <1>4 DEF Here, SatSub
  <1>6. Position(k) < p
    BY <1>1, <1>2, <1>3, <1>4, <1>5 DEF SatSub
  <1>7. PositionAt(anchor[k], rolled[k] + (SliceEnd - cursor))
          <= PositionAt(anchor[k], rolled[k]) + (SliceEnd - cursor)
        /\ PositionAt(anchor[k], rolled[k] + (SliceEnd - cursor)) \in Nat
    BY <1>4, <1>5, Advance
  <1>8. Position(k)' = PositionAt(anchor[k], rolled[k] + (SliceEnd - cursor))
    BY <1>1 DEF Position
  <1> QED  BY <1>2, <1>5, <1>6, <1>7, <1>8 DEF Position, SatSub
-----------------------------------------------------------------------------
(* Loops.  A transport the history calls inside its loop is not past its end, *)
(* rolling or not.                                                           *)

LoopInv ==
    \A k \in Transports : looped[k] /\ looping[k] # None => Position(k) <= looping[k].end

\* Nothing moves a loop but a jump, a loop and a clock.
LEMMA LoopAlone ==
    ASSUME LoopInv, UNCHANGED <<anchor, looping, looped, rolled>>
    PROVE  LoopInv'
  BY DEF LoopInv, Position

\* A jump, or a loop put in place, that remembers whether it landed inside.
LEMMA LoopPlaced ==
    ASSUME SafelyTyped, LoopInv, NEW k \in Transports, NEW p \in Nat, NEW span \in Span \union {None},
           anchor' = [anchor EXCEPT ![k] = Located(p, At(k, Here))],
           looping' = [looping EXCEPT ![k] = span], rolled' = rolled,
           looped' = [looped EXCEPT ![k] = looped'[k]],
           looped'[k] /\ span # None => p <= span.end
    PROVE  LoopInv'
  <1>1. ASSUME NEW j \in Transports, looped'[j], looping'[j] # None
        PROVE  PositionAt(anchor'[j], rolled'[j]) <= looping'[j].end
    <2>1. CASE j = k
      <3>1. anchor'[j] = Located(p, At(k, Here)) /\ looping'[j] = span /\ rolled'[j] = rolled[k]
        BY <2>1 DEF SafelyTyped, Typed, PlaceTypes
      <3> QED  BY <1>1, <2>1, <3>1, Anchored
    <2>2. CASE j # k
      <3>1. /\ anchor'[j] = anchor[j] /\ looping'[j] = looping[j] /\ rolled'[j] = rolled[j]
            /\ looped'[j] = looped[j]
        BY <2>2 DEF SafelyTyped, Typed, PlaceTypes, RestTypes
      <3> QED  BY <1>1, <3>1 DEF LoopInv, Position
    <2> QED  BY <2>1, <2>2
  <1> QED  BY <1>1 DEF LoopInv, Position

\* A jump is inside the loop or it is not.
LEMMA JumpKeepsLoop ==
    ASSUME SafelyTyped, LoopInv, NEW k \in Transports, NEW p \in Nat, JumpTo(k, p),
           UNCHANGED <<looping, rolled>>
    PROVE  LoopInv'
  <1>1. looping' = [looping EXCEPT ![k] = looping[k]] /\ looping[k] \in Span \union {None}
    BY DEF SafelyTyped, Typed, PlaceTypes
  <1>2. /\ anchor' = [anchor EXCEPT ![k] = Located(p, At(k, Here))]
        /\ looped' = [looped EXCEPT ![k] = looping[k] # None /\ p <= looping[k].end]
    BY DEF JumpTo
  <1>3. looped'[k] = (looping[k] # None /\ p <= looping[k].end)
    BY <1>2 DEF SafelyTyped, Typed, RestTypes
  <1>4. looped' = [looped EXCEPT ![k] = looped'[k]]
    BY <1>2, <1>3
  <1> QED  BY <1>1, <1>2, <1>3, <1>4, LoopPlaced, ZenonT(30)

\* A loop put in place.
LEMMA PutKeepsLoop ==
    ASSUME SafelyTyped, LoopInv, NEW k \in Transports, NEW span \in Span \union {None}, PutLoop(k, span),
           UNCHANGED rolled
    PROVE  LoopInv'
  <1>1. ViewPosition(k) \in Nat
    BY Stands DEF SafelyTyped
  <1>2. /\ anchor' = [anchor EXCEPT ![k] = Located(ViewPosition(k), At(k, Here))]
        /\ looping' = [looping EXCEPT ![k] = span]
        /\ looped' = [looped EXCEPT ![k] = span # None /\ ViewPosition(k) <= span.end]
    BY DEF PutLoop, Reanchored
  <1>3. looped'[k] = (span # None /\ ViewPosition(k) <= span.end)
    BY <1>2 DEF SafelyTyped, Typed, RestTypes
  <1>4. looped' = [looped EXCEPT ![k] = looped'[k]]
    BY <1>2, <1>3
  <1> QED  BY <1>1, <1>2, <1>3, <1>4, LoopPlaced

\* Every command.
LEMMA CommandKeepsLoop ==
    ASSUME SafelyTyped, LoopInv, NEW c \in Command, Apply(c), UNCHANGED rolled
    PROVE  LoopInv'
  <1>1. ASSUME NEW k, NEW x, NEW y, Play(k) \/ StopNow(k) \/ StopRamp(k) \/ StopAgain(k) \/ SetEnd(k, x)
                              \/ SetFade(k, x) \/ SetGroup(k, x) \/ Touch \/ ClearSched(x)
                              \/ ClearLane(x, y)
        PROVE  LoopInv'
    <2>1. UNCHANGED <<anchor, looping, looped, rolled>>
      BY <1>1 DEF Play, StopNow, StopRamp, StopAgain, SetEnd, SetFade, SetGroup, Touch, ClearSched,
         ClearLane, placing
    <2> QED  BY <2>1, LoopAlone
  <1>2. CASE c.op = "locate" /\ Locate(c.k, c.position)
    <2>1. c.k \in Transports /\ c.position \in Nat
      BY <1>2, Carries
    <2>2. UNCHANGED looping /\ (UNCHANGED <<anchor, looped>> \/ JumpTo(c.k, c.position))
      BY <1>2 DEF Locate
    <2> QED  BY <2>1, <2>2, LoopAlone, JumpKeepsLoop
  <1>3. CASE c.op = "loop" /\ SetLoop(c.k, c.span)
    <2>1. c.k \in Transports /\ c.span \in Span \union {None}
      BY <1>3, Carries
    <2>2. UNCHANGED <<anchor, looping, looped>> \/ PutLoop(c.k, c.span)
      BY <1>3 DEF SetLoop
    <2> QED  BY <2>1, <2>2, LoopAlone, PutKeepsLoop
  <1> QED  BY <1>1, <1>2, <1>3 DEF Apply

\* Readers that are ready put their loop in place.
LEMMA BeginKeepsLoop ==
    ASSUME SafelyTyped, LoopInv, BeginBlock
    PROVE  LoopInv'
  <1> DEFINE cued == {k \in Transports : loopCue[k] # None}
  <1>1. PICK ready \in SUBSET cued :
         /\ looping' = [k \in Transports |->
                          IF k \in ready THEN loopCue[k].span ELSE looping[k]]
         /\ anchor' = [k \in Transports |->
                          IF k \in ready THEN Reanchored(k) ELSE anchor[k]]
         /\ looped' = [k \in Transports |->
                          IF k \in ready
                          THEN loopCue[k].span # None
                               /\ ViewPosition(k) <= loopCue[k].span.end
                          ELSE looped[k]]
    BY DEF BeginBlock
  <1>2. rolled' = rolled
    BY DEF BeginBlock
  <1>3. ASSUME NEW k \in Transports, looped'[k], looping'[k] # None
        PROVE  PositionAt(anchor'[k], rolled'[k]) <= looping'[k].end
    <2>1. CASE k \in ready
      <3>1. /\ anchor'[k] = Located(ViewPosition(k), At(k, Here)) /\ looping'[k] = loopCue[k].span
            /\ ViewPosition(k) <= loopCue[k].span.end
        BY <1>1, <1>3, <2>1 DEF Reanchored
      <3>2. PositionAt(Located(ViewPosition(k), At(k, Here)), rolled[k]) = ViewPosition(k)
        BY Anchored, Stands DEF SafelyTyped
      <3> QED  BY <1>2, <3>1, <3>2
    <2>2. CASE k \notin ready
      BY <1>1, <1>2, <1>3, <2>2 DEF LoopInv, Position
    <2> QED  BY <2>1, <2>2
  <1> QED  BY <1>3 DEF LoopInv, Position

\* A slice stops at the end of every loop that turns.
LEMMA SliceKeepsLoop ==
    ASSUME SafelyTyped, LoopInv, Slice
    PROVE  LoopInv'
  <1>1. /\ stage = "cut" /\ UNCHANGED <<anchor, looping>>
        /\ rolled' = [k \in Transports |->
                        rolled[k] + IF rolling[k] THEN SliceEnd - cursor ELSE 0]
        /\ looped' = [k \in Transports |->
                        /\ stopping[k] = None
                        /\ \/ looped[k]
                           \/ looping[k] # None /\ ViewPosition(k) <= looping[k].end]
    BY DEF Slice, placing
  <1>2. ASSUME NEW k \in Transports, looped'[k], looping'[k] # None
        PROVE  Position(k)' <= looping'[k].end
    <2> DEFINE end == looping[k].end
    <2>1. looping[k] # None /\ end \in Nat /\ stopping[k] = None
      BY <1>1, <1>2 DEF SafelyTyped, Typed, PlaceTypes, Span
    <2>2. Position(k) <= end
      <3>1. CASE looped[k]
        BY <2>1, <3>1 DEF LoopInv
      <3>2. CASE ~looped[k]
        <4>1. ViewPosition(k) <= end
          BY <1>1, <1>2, <3>2
        <4>2. Position(k) <= ViewPosition(k) /\ Position(k) \in Nat /\ ViewPosition(k) \in Nat
          BY Anchored, <2>1
        <4> HIDE DEF end
        <4> QED  BY <2>1, <4>1, <4>2
      <3> QED  BY <3>1, <3>2
    <2>3. CASE rolling[k]
      <3> DEFINE c == Cut(2, k, "wrap", DeviceReaching(k, end))
      <3>1. /\ ViewPosition(k) = Position(k) /\ Position(k) \in Nat
            /\ Ahead(anchor[k], end, At(k, Here)) <=> end > Position(k)
        BY <1>1, <2>1, <2>3, ReachedIn
      <3>2. WrapsNow(k) \/ Ahead(anchor[k], end, At(k, Here))
        <4> HIDE DEF end
        <4>1. Position(k) = end \/ end > Position(k)
          BY <2>1, <2>2, <3>1
        <4> QED  BY <3>1, <4>1 DEF WrapsNow, end
      <3>3. c \in Edges(k)
        BY <2>1, <2>3, <3>2 DEF Edges
      <3>4. c.due = DeviceReaching(k, end)
        BY DEF Cut
      <3> HIDE DEF c
      <3>5. Position(k)' <= end
        BY <2>1, <2>3, <3>3, <3>4, SliceStopsShort
      <3> QED  BY <1>1, <3>5
    <2>4. CASE ~rolling[k]
      <3>1. rolled'[k] = rolled[k]
        BY <1>1, <2>4 DEF SafelyTyped, Typed, ClockTypes
      <3> QED  BY <1>1, <2>2, <3>1 DEF Position
    <2> QED  BY <2>3, <2>4
  <1> QED  BY <1>2 DEF LoopInv

\* A wrap lands at the start of its loop.
LEMMA EdgeKeepsLoop ==
    ASSUME SafelyTyped, LoopInv, CrossEdge
    PROVE  LoopInv'
  <1> DEFINE k == Due.k
  <1>0. k \in Transports
    <2>1. DueNow("wrap") \/ DueNow("freeze") \/ DueNow("end") \/ DueNow("end_ramp")
      BY DEF CrossEdge, Wrap, WrapLanding, Freeze, StopOnMark, RampToMark
    <2> QED  BY <2>1, DueSays
  <1>1. CASE Wrap
    <2>1. looping[k] # None
      BY <1>0, <1>1, DueSays, EdgeSays DEF Wrap
    <2>2. looping[k].start \in Nat
      BY <1>0, <2>1 DEF SafelyTyped, Typed, PlaceTypes, Span
    <2>3. JumpTo(k, looping[k].start) /\ UNCHANGED <<looping, rolled>>
      BY <1>1 DEF Wrap
    <2> HIDE DEF k
    <2> QED  BY <1>0, <2>2, <2>3, JumpKeepsLoop
  <1>2. CASE WrapLanding
    <2> DEFINE span == loopCue[k].span
    <2>1. loopCue[k] # None
      BY <1>2 DEF WrapLanding
    <2>2. span \in Span \union {None} /\ (span # None => span.start \in Nat /\ span.start <= span.end)
      BY <1>0, <2>1 DEF SafelyTyped, Typed, PlaceTypes, LoopCue, Span
    <2>3. /\ looping' = [looping EXCEPT ![k] = span] /\ rolled' = rolled
          /\ span = None => /\ anchor' = [anchor EXCEPT ![k] = Located(ViewPosition(k), At(k, Here))]
                            /\ looped' = [looped EXCEPT ![k] = FALSE]
          /\ span # None => /\ anchor' = [anchor EXCEPT ![k] = Located(span.start, At(k, Here))]
                            /\ looped' = [looped EXCEPT ![k] = TRUE]
      BY <1>2 DEF WrapLanding, Reanchored
    <2>4. looped' = [looped EXCEPT ![k] = looped'[k]]
      BY <1>0, <2>3 DEF SafelyTyped, Typed, RestTypes
    <2>5. ViewPosition(k) \in Nat
      BY <1>0, Stands DEF SafelyTyped
    <2> HIDE DEF span, k
    <2>6. CASE span = None
      BY <1>0, <2>2, <2>3, <2>4, <2>5, <2>6, LoopPlaced
    <2>7. CASE span # None
      BY <1>0, <2>2, <2>3, <2>4, <2>7, LoopPlaced
    <2> QED  BY <2>6, <2>7
  <1>3. CASE Freeze \/ StopOnMark
    <2>1. \E back \in Nat \union {None}, byMark \in BOOLEAN : FreezeHere(k, back, byMark)
      <3>1. CASE Freeze
        <4>1. stopping[k] # None
          BY <1>0, <3>1, DueSays, EdgeSays DEF Freeze
        <4>2. stopping[k].back \in Nat \union {None} /\ stopping[k].ended \in BOOLEAN
          BY <1>0, <4>1 DEF SafelyTyped, Typed, RunTypes, Stopping
        <4> QED  BY <3>1, <4>2 DEF Freeze
      <3>2. CASE StopOnMark
        <4>1. endMark[k] # None
          BY <1>0, <3>2, DueSays, EdgeSays DEF StopOnMark
        <4>2. endMark[k].back \in Nat \union {None}
          BY <1>0, <4>1 DEF SafelyTyped, Typed, PlaceTypes, Mark
        <4> QED  BY <3>2, <4>2 DEF StopOnMark
      <3> QED  BY <1>3, <3>1, <3>2
    <2>2. PICK back \in Nat \union {None}, byMark \in BOOLEAN : FreezeHere(k, back, byMark)
      BY <2>1
    <2>3. /\ UNCHANGED <<looping, rolled>>
          /\ IF back = None THEN UNCHANGED <<anchor, looped>> ELSE JumpTo(k, back)
      BY <2>2 DEF FreezeHere
    <2> HIDE DEF k
    <2> QED  BY <1>0, <2>3, LoopAlone, JumpKeepsLoop
  <1>4. CASE RampToMark
    BY <1>4, LoopAlone DEF RampToMark, placing, history
  <1> QED  BY <1>1, <1>2, <1>3, <1>4 DEF CrossEdge

\* Every step keeps the loops.
LEMMA LoopStays ==
    ASSUME SafelyTyped, LoopInv, [Next]_vars
    PROVE  LoopInv'
  <1>1. CASE Receive
    <2>1. rolled' = rolled
      BY <1>1 DEF Receive
    <2>2. ASSUME NEW x, NEW y, Schedule(x, y) \/ FeedLane(x) PROVE UNCHANGED <<anchor, looping, looped>>
      BY <2>2 DEF Schedule, FeedLane, placing
    <2> QED  BY <1>1, <2>1, <2>2, LoopAlone, CommandKeepsLoop, MoreConstants DEF Receive
  <1>2. CASE RunCommand
    BY <1>2, CommandKeepsLoop, Taken DEF RunCommand, SafelyTyped, Typed, RestTypes
  <1>3. CASE TakeDevice \/ TakeTransport \/ CloseBundle \/ FireLane \/ EndBlock \/ UNCHANGED vars
    <2>1. UNCHANGED <<anchor, looping, looped, rolled>>
      BY <1>3 DEF TakeDevice, TakeTransport, CloseBundle, FireLane, EndBlock, placing, history, vars
    <2> QED  BY <2>1, LoopAlone
  <1> QED  BY <1>1, <1>2, <1>3, BeginKeepsLoop, SliceKeepsLoop, EdgeKeepsLoop DEF Next, Audio, Finished

\* A rolling transport that has stood inside its loop plays no sample past the
\* loop's end: what is due at the wrap cuts the block there.
THEOREM LoopsHold == Safety => []InsideLoop
  <1>1. Init => SafelyTyped /\ LoopInv
    BY TypesStart DEF Init, LoopInv
  <1>2. SafelyTyped /\ LoopInv /\ [Next]_vars => (SafelyTyped /\ LoopInv)'
    BY TypesStay, ClockStays, LoopStays DEF SafelyTyped
  <1>3. LoopInv => InsideLoop
    BY DEF LoopInv, InsideLoop
  <1> QED  BY <1>1, <1>2, <1>3, PTL DEF Safety
-----------------------------------------------------------------------------
(* End marks.  A ramp that ends on a mark has no more samples left than its   *)
(* transport is short of that mark, and until it ends nothing but a play or   *)
(* its own freeze takes the transport out of it.                              *)

Bound(k) ==
    /\ rolling[k] /\ frozenFrom[k] = None
    /\ stopping[k].mark \in Nat
    /\ Position(k) + stopping[k].at <= stopping[k].mark + Here

MarkInv ==
    \A k \in Transports : stopping[k] # None /\ stopping[k].ended => Bound(k)

MarkStep ==
    \A k \in Transports :
         /\ cursor' > cursor /\ rolling[k] =>
              /\ stopping[k] = None /\ looping[k] = None /\ endMark[k] # None
                   => Position(k)' <= endMark[k].end
              /\ stopping[k] # None /\ stopping[k].ended
                   => Position(k)' <= stopping[k].mark
         /\ ended'[k] /\ ~ended[k] /\ stopping[k] = None
              => Position(k) >= endMark[k].end

\* A transport whose ramp, place and clocks are as they were.
Still(k) ==
    /\ rolling'[k] = rolling[k] /\ frozenFrom'[k] = frozenFrom[k]
    /\ stopping'[k] = stopping[k] /\ Position(k)' = Position(k) /\ Here' = Here

\* A ramp is bound after a step if it was still, or is bound anew.
LEMMA StillBound ==
    ASSUME MarkInv,
           \A k \in Transports :
              \/ stopping'[k] # None /\ stopping'[k].ended => Bound(k)'
              \/ Still(k)
    PROVE  MarkInv'
  <1>1. ASSUME NEW k \in Transports, stopping'[k] # None, stopping'[k].ended PROVE Bound(k)'
    <2>1. CASE Still(k)
      BY <1>1, <2>1 DEF MarkInv, Still, Bound
    <2> QED  BY <1>1, <2>1
  <1> QED  BY <1>1 DEF MarkInv

\* Putting a position where a transport stands moves it nowhere, if nothing of
\* the block is frozen and not yet credited.
LEMMA ReanchoredStands ==
    ASSUME SafelyTyped, NEW k \in Transports, InFlight(k) = 0,
           anchor'[k] = Reanchored(k), rolled' = rolled
    PROVE  Position(k)' = Position(k)
  <1>a. At(k, Here) = rolled[k]
    <2>1. now + cursor = frozenTotal[k] + InFlight(k) + rolled[k]
      BY DEF SafelyTyped, ClockInv, CreditedClock
    <2>2. frozenTotal[k] \in Nat /\ rolled[k] \in Nat /\ Here \in Nat
      BY Stands DEF SafelyTyped
    <2> QED  BY <2>1, <2>2 DEF Here, At, ToTransport, SatSub
  <1>1. PositionAt(Located(ViewPosition(k), At(k, Here)), rolled[k]) = ViewPosition(k)
        /\ ViewPosition(k) = Position(k)
    <2>1. ViewPosition(k) \in Nat
      BY Anchored
    <2> QED  BY <1>a, <2>1, Anchored DEF ViewPosition, Position
  <1>2. Position(k)' = PositionAt(Located(ViewPosition(k), At(k, Here)), rolled[k])
    BY DEF Position, Reanchored
  <1> QED  BY <1>1, <1>2

\* A transport whose anchor and clock stand stands.
LEMMA PlacedAlone ==
    ASSUME UNCHANGED <<anchor, rolled>>, NEW k
    PROVE  Position(k)' = Position(k)
  BY DEF Position

\* Every command ends the ramp it makes wrong.
LEMMA CommandKeepsMarks ==
    ASSUME SafelyTyped, MarkInv, NEW c \in Command, Apply(c), UNCHANGED <<now, cursor, rolled>>
    PROVE  MarkInv'
  <1>0. Here' = Here /\ frozenFrom' = frozenFrom
    BY ApplyMovesNoClock DEF Here, SafelyTyped, Typed
  <1> SUFFICES ASSUME NEW j \in Transports
               PROVE  \/ stopping'[j] # None /\ stopping'[j].ended => Bound(j)'
                      \/ Still(j)
    BY StillBound
  <1>1. ASSUME NEW k \in Transports, Play(k) PROVE stopping'[j] = None \/ Still(j)
    <2>1. /\ stopping' = [stopping EXCEPT ![k] = None] /\ UNCHANGED <<anchor, rolled>>
          /\ rolling' = rolling \/ rolling' = [rolling EXCEPT ![k] = TRUE]
      BY <1>1 DEF Play, placing
    <2> QED  BY <1>0, <2>1, PlacedAlone DEF Still, SafelyTyped, Typed, RunTypes, ClockTypes
  <1>2. ASSUME NEW k \in Transports, StopNow(k) PROVE stopping'[j] = None \/ Still(j)
    <2>1. /\ stopping[k] = None /\ stopping' = stopping /\ UNCHANGED <<anchor, rolled>>
          /\ rolling' = [rolling EXCEPT ![k] = FALSE]
      BY <1>2 DEF StopNow, placing
    <2> QED  BY <1>0, <2>1, PlacedAlone DEF Still, SafelyTyped, Typed, RunTypes, ClockTypes
  <1>3. ASSUME NEW k \in Transports, StopRamp(k) PROVE ~stopping'[j].ended \/ Still(j)
    <2>1. /\ UNCHANGED <<rolling, anchor, rolled>>
          /\ \E at : stopping' = [stopping EXCEPT ![k] =
                                    [at |-> at, back |-> None, ended |-> FALSE, mark |-> None]]
      BY <1>3 DEF StopRamp, placing
    <2> QED  BY <1>0, <2>1, PlacedAlone DEF Still, SafelyTyped, Typed, RunTypes
  <1>4. ASSUME NEW k, NEW x, NEW y, StopAgain(k) \/ SetEnd(k, x) \/ SetFade(k, x) \/ SetGroup(k, x) \/ Touch
                                    \/ ClearSched(x) \/ ClearLane(x, y)
        PROVE  Still(j)
    <2>1. UNCHANGED <<rolling, stopping, anchor, rolled>>
      BY <1>4 DEF StopAgain, SetEnd, SetFade, SetGroup, Touch, ClearSched, ClearLane, running, placing
    <2> QED  BY <1>0, <2>1, PlacedAlone DEF Still
  <1>5. ASSUME NEW k \in Transports, NEW p \in Nat, Locate(k, p)
        PROVE  (stopping'[j] # None /\ stopping'[j].ended => Bound(j)') \/ Still(j)
    <2>1. CASE stopping[k] # None
      <3>1. stopping' = [stopping EXCEPT ![k].back = p] /\ UNCHANGED <<rolling, anchor, rolled>>
        BY <1>5, <2>1 DEF Locate
      <3>2. CASE j # k
        BY <1>0, <3>1, <3>2, PlacedAlone DEF Still, SafelyTyped, Typed, RunTypes
      <3>3. CASE j = k
        <4>1. stopping[j] \in Stopping
          BY <2>1, <3>3 DEF SafelyTyped, Typed, RunTypes
        <4>2. stopping'[j] = [stopping[j] EXCEPT !.back = p]
          BY <3>1, <3>3 DEF SafelyTyped, Typed, RunTypes
        <4>3. ASSUME NEW s \in Stopping, NEW z, z = [s EXCEPT !.back = p]
              PROVE  z.at = s.at /\ z.mark = s.mark /\ z.ended = s.ended
          BY <4>3 DEF Stopping
        <4>4. /\ stopping'[j].at = stopping[j].at /\ stopping'[j].mark = stopping[j].mark
              /\ stopping'[j].ended = stopping[j].ended
          BY <4>1, <4>2, <4>3
        <4>5. ASSUME stopping[j].ended PROVE Bound(j)'
          <5>1. Bound(j)
            BY <2>1, <3>3, <4>5 DEF MarkInv
          <5> QED  BY <1>0, <3>1, <4>4, <5>1, PlacedAlone DEF Bound
        <4> QED  BY <4>4, <4>5
      <3> QED  BY <3>2, <3>3
    <2>2. CASE stopping[k] = None
      <3>1. /\ anchor' = [anchor EXCEPT ![k] = Located(p, At(k, Here))]
            /\ UNCHANGED <<rolling, stopping, rolled>>
        BY <1>5, <2>2 DEF Locate, JumpTo
      <3>2. j # k => Position(j)' = Position(j)
        BY <3>1 DEF Position, SafelyTyped, Typed, PlaceTypes
      <3> QED  BY <1>0, <2>2, <3>1, <3>2 DEF Still
    <2> QED  BY <2>1, <2>2
  <1>6. ASSUME NEW k \in Transports, NEW span, SetLoop(k, span)
        PROVE  (stopping'[j] # None /\ stopping'[j].ended => Bound(j)') \/ Still(j)
    <2>1. UNCHANGED <<rolling, stopping>> /\ (UNCHANGED anchor \/ anchor' = [anchor EXCEPT ![k] = Reanchored(k)])
      BY <1>6 DEF SetLoop, PutLoop, running
    <2>2. CASE stopping[j] # None /\ stopping[j].ended
      <3>1. frozenFrom[j] = None
        BY <2>2 DEF MarkInv, Bound
      <3>2. anchor'[j] = anchor[j] \/ anchor'[j] = Reanchored(j)
        BY <2>1 DEF SafelyTyped, Typed, PlaceTypes
      <3>3. Position(j)' = Position(j)
        BY <3>1, <3>2, ReanchoredStands DEF Position, InFlight
      <3> QED  BY <1>0, <2>1, <3>3 DEF Still
    <2> QED  BY <2>1, <2>2
  <1>7. CASE c.op = "run" /\ (Play(c.k) \/ StopNow(c.k) \/ StopRamp(c.k) \/ StopAgain(c.k))
    BY <1>1, <1>2, <1>3, <1>4, <1>7, Carries
  <1>8. CASE c.op = "locate" /\ Locate(c.k, c.position)
    BY <1>5, <1>8, Carries
  <1>9. CASE c.op = "loop" /\ SetLoop(c.k, c.span)
    BY <1>6, <1>9, Carries
  <1> QED  BY <1>4, <1>7, <1>8, <1>9 DEF Apply

\* The start of a block.
LEMMA BeginKeepsMarks ==
    ASSUME SafelyTyped, MarkInv, BeginBlock
    PROVE  MarkInv'
  <1>1. /\ UNCHANGED <<now, cursor, rolling, stopping, rolled>> /\ stage = "drain"
        /\ frozenFrom' = [k \in Transports |-> IF rolling[k] THEN None ELSE 0]
    BY DEF BeginBlock
  <1>2. ASSUME NEW k \in Transports PROVE Position(k)' = Position(k)
    <2>1. anchor'[k] = anchor[k] \/ anchor'[k] = Reanchored(k)
      BY DEF BeginBlock
    <2> QED  BY <1>1, <2>1, ReanchoredStands DEF Position, InFlight
  <1>3. ASSUME NEW k \in Transports, stopping'[k] # None, stopping'[k].ended PROVE Bound(k)'
    <2>1. Bound(k)
      BY <1>1, <1>3 DEF MarkInv
    <2> QED  BY <1>1, <1>2, <2>1 DEF Bound, Here
  <1> QED  BY <1>3 DEF MarkInv

\* The slices of a ramp stop where it does.
LEMMA SliceKeepsMarks ==
    ASSUME SafelyTyped, MarkInv, Slice
    PROVE  MarkInv' /\ MarkStep
  <1>1. /\ stage = "cut" /\ cursor < SliceEnd /\ cursor' = SliceEnd
        /\ UNCHANGED <<now, anchor, rolling, frozenFrom, stopping, ended>>
        /\ rolled' = [k \in Transports |->
                        rolled[k] + IF rolling[k] THEN SliceEnd - cursor ELSE 0]
    BY DEF Slice, running, placing
  <1>2. SliceEnd \in Nat /\ cursor \in Nat /\ now \in Nat
    BY <1>1, SliceStaysInBlock, GoodConstants DEF SafelyTyped, Typed, ClockTypes
  <1>3. ASSUME NEW k \in Transports, stopping[k] # None, stopping[k].ended
        PROVE  Bound(k)' /\ Position(k)' <= stopping[k].mark
    <2>1. Bound(k)
      BY <1>3 DEF MarkInv
    <2>2. stopping[k].at \in Nat /\ stopping[k].mark \in Nat /\ rolling[k]
      BY <1>3, <2>1 DEF Bound, SafelyTyped, Typed, RunTypes, Stopping
    <2>3. rolled[k] \in Nat /\ rolled'[k] = rolled[k] + (SliceEnd - cursor) /\ anchor[k] \in Anchor
      BY <1>1, <2>2 DEF SafelyTyped, Typed, ClockTypes, PlaceTypes
    <2>4. Position(k)' <= Position(k) + (SliceEnd - cursor) /\ Position(k) \in Nat /\ Position(k)' \in Nat
      <3>1. SliceEnd - cursor \in Nat
        BY <1>1, <1>2
      <3>2. PositionAt(anchor[k], rolled[k] + (SliceEnd - cursor))
              <= PositionAt(anchor[k], rolled[k]) + (SliceEnd - cursor)
            /\ PositionAt(anchor[k], rolled[k]) \in Nat
            /\ PositionAt(anchor[k], rolled[k] + (SliceEnd - cursor)) \in Nat
        BY <2>3, <3>1, Advance
      <3>3. Position(k)' = PositionAt(anchor[k], rolled[k] + (SliceEnd - cursor))
        BY <1>1, <2>3 DEF Position
      <3> QED  BY <3>2, <3>3 DEF Position
    <2>5. now + SliceEnd <= stopping[k].at
      <3> DEFINE c == Cut(2, k, "freeze", Larger(stopping[k].at, Here))
      <3>1. c \in Edges(k)
        BY <1>3, <2>2 DEF Edges
      <3>2. c.due = Larger(stopping[k].at, Here) /\ c.due \in Nat
        BY <1>2, <2>2 DEF Cut, Larger, Here
      <3>3. c \in EdgeCuts
        BY <3>1 DEF EdgeCuts
      <3> HIDE DEF c
      <3>4. now + SliceEnd <= Larger(stopping[k].at, Here)
        BY <1>1, <3>2, <3>3, SliceStopsAtCuts DEF SafelyTyped, Typed
      <3> QED  BY <1>1, <1>2, <2>2, <3>4 DEF Larger, Here
    <2>6. Position(k) + stopping[k].at <= stopping[k].mark + (now + cursor)
      BY <2>1 DEF Bound, Here
    <2>7. Position(k)' + stopping[k].at <= stopping[k].mark + (now + SliceEnd)
          /\ Position(k)' <= stopping[k].mark
      BY <1>1, <1>2, <2>2, <2>4, <2>5, <2>6
    <2> QED  BY <1>1, <2>1, <2>2, <2>7 DEF Bound, Here
  <1>4. ASSUME NEW k \in Transports, rolling[k], stopping[k] = None, looping[k] = None, endMark[k] # None
        PROVE  Position(k)' <= endMark[k].end
    <2> DEFINE p == IF fadeLen[k] = 0 THEN endMark[k].end ELSE RampStart(k)
    <2>1. endMark[k].end \in Nat /\ fadeLen[k] \in Nat
      BY <1>4 DEF SafelyTyped, Typed, PlaceTypes, Mark
    <2>2. p \in Nat /\ p <= endMark[k].end
      BY <2>1 DEF RampStart, SatSub
    <2>3. \E c \in Edges(k) : c.due = DeviceReaching(k, p)
      <3>1. CASE fadeLen[k] = 0
        <4>1. Cut(2, k, "end", DeviceReaching(k, endMark[k].end)) \in Edges(k)
          BY <1>4, <3>1 DEF Edges
        <4> QED  BY <3>1, <4>1 DEF Cut
      <3>2. CASE fadeLen[k] # 0
        <4>1. Cut(2, k, "end_ramp", DeviceReaching(k, RampStart(k))) \in Edges(k)
          BY <1>4, <3>2 DEF Edges
        <4> QED  BY <3>2, <4>1 DEF Cut
      <3> QED  BY <3>1, <3>2
    <2> HIDE DEF p
    <2>4. Position(k)' <= p
      BY <1>4, <2>2, <2>3, SliceStopsShort
    <2>5. Position(k)' \in Nat
      <3>1. rolled'[k] \in Nat /\ anchor'[k] \in Anchor
        BY <1>1, <1>2 DEF SafelyTyped, Typed, ClockTypes, PlaceTypes
      <3> QED  BY <3>1 DEF Position, PositionAt, SatSub, Anchor
    <2> QED  BY <2>1, <2>2, <2>4, <2>5
  <1>5. MarkInv'
    BY <1>1, <1>3 DEF MarkInv
  <1>6. MarkStep
    BY <1>1, <1>3, <1>4 DEF MarkStep
  <1> QED  BY <1>5, <1>6

\* A mark that has been reached is behind the transport.
LEMMA ReachedIsBehind ==
    ASSUME SafelyTyped, stage = "cut", NEW k \in Transports, rolling[k], NEW p \in Nat,
           DeviceReaching(k, p) <= Here
    PROVE  Position(k) >= p
  <1>1. DeviceReaching(k, p) = Here + SatSub(p, Position(k)) /\ Position(k) \in Nat
    BY ReachedIn
  <1>2. Here \in Nat
    BY Stands DEF SafelyTyped
  <1> QED  BY <1>1, <1>2 DEF SatSub

\* A ramp that ends, or a mark that is reached.
LEMMA EdgeKeepsMarks ==
    ASSUME SafelyTyped, MarkInv, CrossEdge
    PROVE  MarkInv' /\ MarkStep
  <1> DEFINE k == Due.k
  <1>1. k \in Transports /\ stage = "cut" /\ rolling[k]
    <2>1. DueNow("wrap") \/ DueNow("freeze") \/ DueNow("end") \/ DueNow("end_ramp")
      BY DEF CrossEdge, Wrap, WrapLanding, Freeze, StopOnMark, RampToMark
    <2> QED  BY <2>1, DueSays, EdgeSays
  <1>2. UNCHANGED <<now, cursor, rolled>> /\ Here' = Here /\ Here \in Nat /\ ~(cursor' > cursor)
    <2>1. UNCHANGED <<now, cursor, rolled>>
      BY DEF CrossEdge, Wrap, WrapLanding, Freeze, StopOnMark, RampToMark, FreezeHere, block, history
    <2> QED  BY <2>1, GoodConstants DEF Here, SafelyTyped, Typed, ClockTypes
  <1>3. frozenFrom[k] = None
    BY <1>1 DEF SafelyTyped, ClockInv, CreditedClock
  <1>4. CASE Wrap \/ WrapLanding
    <2>1. stopping[k] = None /\ UNCHANGED <<rolling, frozenFrom, stopping, ended>>
      BY <1>4, DueSays, EdgeSays DEF Wrap, WrapLanding, running
    <2>2. \E a : anchor' = [anchor EXCEPT ![k] = a]
      BY <1>4 DEF Wrap, WrapLanding, JumpTo
    <2>3. \A j \in Transports \ {k} : Position(j)' = Position(j)
      BY <1>2, <2>2 DEF Position, SafelyTyped, Typed, PlaceTypes
    <2>4. \A j \in Transports : stopping'[j] = None \/ Still(j)
      BY <1>2, <2>1, <2>3 DEF Still
    <2>5. MarkInv'
      BY <2>4, StillBound
    <2> QED  BY <1>2, <2>1, <2>5 DEF MarkStep
  <1>5. CASE Freeze \/ StopOnMark
    <2>1. PICK back, byMark : /\ FreezeHere(k, back, byMark)
                              /\ stopping[k] = None => endMark[k] # None /\ Position(k) >= endMark[k].end
      <3>1. CASE Freeze
        <4>1. stopping[k] # None
          BY <3>1, DueSays, EdgeSays DEF Freeze
        <4> QED  BY <3>1, <4>1 DEF Freeze
      <3>2. CASE StopOnMark
        <4>1. endMark[k] # None /\ stopping[k] = None /\ looping[k] = None
          BY <3>2, DueSays, EdgeSays DEF StopOnMark
        <4>2. endMark[k].end \in Nat /\ fadeLen[k] \in Nat
          BY <1>1, <4>1 DEF SafelyTyped, Typed, PlaceTypes, Mark
        <4>3. DeviceReaching(k, endMark[k].end) <= Here
          <5>1. CASE DueNow("end")
            <6>1. Due \in Edges(k) /\ Due.edge = "end" /\ Due.due <= Here
              BY <5>1, DueSays
            <6>2. Due.due = DeviceReaching(k, endMark[k].end)
              BY <1>1, <4>1, <6>1 DEF Edges, Cut
            <6> QED  BY <6>1, <6>2
          <5>2. CASE DueNow("end_ramp") /\ MarkReached(k) <= Here
            BY <5>2 DEF MarkReached
          <5> QED  BY <3>2, <5>1, <5>2 DEF StopOnMark
        <4>4. Position(k) >= endMark[k].end
          BY <1>1, <4>2, <4>3, ReachedIsBehind
        <4> QED  BY <3>2, <4>1, <4>4 DEF StopOnMark
      <3> QED  BY <1>5, <3>1, <3>2
    <2>2. /\ rolling' = [rolling EXCEPT ![k] = FALSE]
          /\ stopping' = [stopping EXCEPT ![k] = None]
          /\ frozenFrom' = [frozenFrom EXCEPT ![k] = FrozenSince(k)]
          /\ ended' = [ended EXCEPT ![k] = ended[k] \/ byMark]
          /\ \A j \in Transports \ {k} : anchor'[j] = anchor[j]
      BY <2>1 DEF FreezeHere, JumpTo, SafelyTyped, Typed, PlaceTypes
    <2>3. \A j \in Transports \ {k} : Position(j)' = Position(j)
      BY <1>2, <2>2 DEF Position
    <2>4. \A j \in Transports : stopping'[j] = None \/ Still(j)
      BY <1>1, <1>2, <2>2, <2>3 DEF Still, SafelyTyped, Typed, RunTypes, ClockTypes
    <2>5. MarkInv'
      BY <2>4, StillBound
    <2>6. \A j \in Transports \ {k} : ended'[j] = ended[j]
      BY <2>2 DEF SafelyTyped, Typed, RunTypes
    <2> QED  BY <1>2, <2>1, <2>5, <2>6 DEF MarkStep
  <1>6. CASE RampToMark
    <2> DEFINE at == MarkReached(k)
               z == [at |-> at, back |-> endMark[k].back, ended |-> TRUE, mark |-> endMark[k].end]
    <2>1. endMark[k] # None /\ stopping' = [stopping EXCEPT ![k] = z] /\ at > Here
          /\ UNCHANGED <<rolling, frozenFrom, anchor, ended>>
      BY <1>6, DueSays, EdgeSays DEF RampToMark, placing
    <2>2. endMark[k].end \in Nat
      BY <1>1, <2>1 DEF SafelyTyped, Typed, PlaceTypes, Mark
    <2>3. at = Here + SatSub(endMark[k].end, Position(k)) /\ Position(k) \in Nat
      BY <1>1, <2>2, ReachedIn DEF MarkReached
    <2>4. Position(k) + at <= endMark[k].end + Here
      BY <1>2, <2>1, <2>2, <2>3 DEF SatSub
    <2>5. stopping'[k].at = at /\ stopping'[k].mark = endMark[k].end
      BY <1>1, <2>1 DEF SafelyTyped, Typed, RunTypes
    <2> HIDE DEF at, z, k
    <2>6. ASSUME NEW j \in Transports, j = k PROVE Bound(j)'
      <3>1. Position(j)' = Position(k)
        BY <1>2, <2>1, <2>6, PlacedAlone
      <3>2. Position(j)' + stopping'[j].at <= stopping'[j].mark + Here'
        BY <1>2, <2>4, <2>5, <2>6, <3>1
      <3>3. rolling'[j] /\ frozenFrom'[j] = None /\ stopping'[j].mark \in Nat
        BY <1>1, <1>3, <2>1, <2>2, <2>5, <2>6
      <3> QED  BY <3>2, <3>3 DEF Bound
    <2>7. \A j \in Transports \ {k} : Still(j)
      BY <1>2, <2>1, PlacedAlone DEF Still, SafelyTyped, Typed, RunTypes
    <2>8. MarkInv'
      BY <2>6, <2>7, StillBound
    <2> QED  BY <1>2, <2>1, <2>8 DEF MarkStep
  <1> QED  BY <1>4, <1>5, <1>6 DEF CrossEdge

\* No command ends a pass.
LEMMA CommandEndsNoPass ==
    ASSUME NEW c, Apply(c)
    PROVE  ended' = ended
  BY DEF Apply, Play, StopNow, StopRamp, StopAgain, Locate, SetLoop, SetEnd, SetFade, SetGroup, Touch,
     ClearSched, ClearLane, running

\* A step that neither moves the cursor nor ends a pass.
LEMMA NoStepOfMarks ==
    ASSUME UNCHANGED <<cursor, ended>>, SafelyTyped
    PROVE  MarkStep
  <1>1. ~(cursor' > cursor)
    BY GoodConstants DEF SafelyTyped, Typed, ClockTypes
  <1> QED  BY <1>1 DEF MarkStep

\* Every step keeps the marks.
LEMMA MarksStay ==
    ASSUME SafelyTyped, MarkInv, [Next]_vars
    PROVE  MarkInv' /\ MarkStep
  <1>1. CASE Receive
    <2>1. UNCHANGED <<now, cursor, rolled>>
      BY <1>1 DEF Receive, block
    <2>2. ASSUME NEW c \in Immediate, Apply(c) PROVE MarkInv' /\ MarkStep
      BY <2>1, <2>2, CommandKeepsMarks, CommandEndsNoPass, NoStepOfMarks, MoreConstants
    <2>3. ASSUME NEW x, NEW y, Schedule(x, y) \/ FeedLane(x) PROVE MarkInv' /\ MarkStep
      <3>1. UNCHANGED <<rolling, frozenFrom, stopping, ended, anchor>>
        BY <2>3 DEF Schedule, FeedLane, running, placing
      <3>2. \A k \in Transports : Still(k)
        BY <2>1, <3>1, PlacedAlone DEF Still, Here
      <3> QED  BY <2>1, <3>1, <3>2, StillBound, NoStepOfMarks
    <2> QED  BY <1>1, <2>2, <2>3 DEF Receive
  <1>2. CASE RunCommand
    <2>1. Head(batch) \in Command /\ Apply(Head(batch)) /\ UNCHANGED <<now, cursor, rolled>>
      BY <1>2, Taken DEF RunCommand, SafelyTyped, Typed, RestTypes
    <2> QED  BY <2>1, CommandKeepsMarks, CommandEndsNoPass, NoStepOfMarks
  <1>3. CASE BeginBlock
    BY <1>3, BeginKeepsMarks, NoStepOfMarks DEF BeginBlock
  <1>4. CASE TakeDevice \/ TakeTransport \/ FireLane \/ UNCHANGED vars
    <2>1. UNCHANGED <<now, cursor, rolled, rolling, frozenFrom, stopping, ended, anchor>>
      BY <1>4 DEF TakeDevice, TakeTransport, FireLane, vars, block, running, placing, history
    <2>2. \A k \in Transports : Still(k)
      BY <2>1, PlacedAlone DEF Still, Here
    <2> QED  BY <2>1, <2>2, StillBound, NoStepOfMarks
  <1>5. CASE CloseBundle
    <2>1. /\ UNCHANGED <<now, cursor, rolled, rolling, stopping, ended, anchor>>
          /\ frozenFrom' = [k \in Transports |-> IF rolling[k] THEN None ELSE FrozenSince(k)]
      BY <1>5 DEF CloseBundle, placing, history
    <2>2. ASSUME NEW k \in Transports, stopping'[k] # None, stopping'[k].ended PROVE Bound(k)'
      <3>1. Bound(k)
        BY <2>1, <2>2 DEF MarkInv
      <3> QED  BY <2>1, <3>1, PlacedAlone DEF Bound, Here
    <2>3. MarkInv'
      BY <2>2 DEF MarkInv
    <2> QED  BY <2>1, <2>3, NoStepOfMarks
  <1>6. CASE EndBlock
    <2>1. /\ UNCHANGED <<rolled, rolling, stopping, anchor>>
          /\ frozenFrom' = [k \in Transports |-> None]
          /\ now' = now + Block /\ cursor' = 0 /\ cursor = Block
          /\ ended' = [k \in Transports |-> FALSE]
      BY <1>6 DEF EndBlock, BlockEnd, placing, history
    <2>2. Here' = Here /\ ~(cursor' > cursor)
      BY <2>1, GoodConstants DEF Here, SafelyTyped, Typed, ClockTypes
    <2>3. ASSUME NEW k \in Transports, stopping'[k] # None, stopping'[k].ended PROVE Bound(k)'
      <3>1. Bound(k)
        BY <2>1, <2>3 DEF MarkInv
      <3> QED  BY <2>1, <2>2, <3>1, PlacedAlone DEF Bound
    <2>4. MarkInv'
      BY <2>3 DEF MarkInv
    <2> QED  BY <2>1, <2>2, <2>4 DEF MarkStep
  <1> QED  BY <1>1, <1>2, <1>3, <1>4, <1>5, <1>6, SliceKeepsMarks, EdgeKeepsMarks DEF Next, Audio, Finished

\* With an end mark and no loop, no slice passes the mark, a ramp that ends on
\* one stops there, and a pass that ends on it has reached it.
THEOREM MarksHold == Safety => NeverPastMark
  <1>1. Init => SafelyTyped /\ MarkInv
    BY TypesStart DEF Init, MarkInv
  <1>2. SafelyTyped /\ MarkInv /\ [Next]_vars => (SafelyTyped /\ MarkInv)'
    BY TypesStay, ClockStays, MarksStay DEF SafelyTyped
  <1>3. SafelyTyped /\ MarkInv /\ [Next]_vars => [MarkStep]_vars
    BY MarksStay
  <1>4. Safety => [][MarkStep]_vars
    BY <1>1, <1>2, <1>3, PTL DEF Safety
  <1> QED  BY <1>4 DEF NeverPastMark, MarkStep
-----------------------------------------------------------------------------
(* Loops put in place.                                                       *)

MovesNothing(k) ==
    \/ Position(k)' = Position(k)
    \/ /\ looping[k] # None /\ Position(k) = looping[k].end
       /\ looping'[k] # None /\ Position(k)' = looping'[k].start

LandStep ==
    \A k \in Transports : looping'[k] # looping[k] /\ InFlight(k) = 0 => MovesNothing(k)

\* A step that puts no loop in place.
LEMMA SameLoopsLand ==
    ASSUME looping' = looping
    PROVE  LandStep
  BY DEF LandStep

\* A command, of the start of a block or of a bundle.
LEMMA CommandLands ==
    ASSUME SafelyTyped, NEW c \in Command, Apply(c), rolled' = rolled
    PROVE  LandStep
  <1>1. CASE c.op = "loop" /\ SetLoop(c.k, c.span)
    <2>1. c.k \in Transports
      BY <1>1, Carries
    <2>2. looping' = looping \/ PutLoop(c.k, c.span)
      BY <1>1 DEF SetLoop
    <2>3. ASSUME PutLoop(c.k, c.span), NEW j \in Transports, looping'[j] # looping[j], InFlight(j) = 0
          PROVE  Position(j)' = Position(j)
      <3>1. j = c.k /\ anchor'[j] = Reanchored(j)
        BY <2>1, <2>3 DEF PutLoop, SafelyTyped, Typed, PlaceTypes
      <3> QED  BY <2>3, <3>1, ReanchoredStands
    <2> QED  BY <2>2, <2>3 DEF LandStep, MovesNothing
  <1>2. CASE ~(c.op = "loop" /\ SetLoop(c.k, c.span))
    <2>1. looping' = looping
      BY <1>2 DEF Apply, Play, StopNow, StopRamp, StopAgain, Locate, SetEnd, SetFade, SetGroup, Touch,
         ClearSched, ClearLane, placing
    <2> QED  BY <2>1, SameLoopsLand
  <1> QED  BY <1>1, <1>2

\* The wrap.
LEMMA WrapLands ==
    ASSUME SafelyTyped, WrapLanding
    PROVE  LandStep
  <1> DEFINE k == Due.k
             span == loopCue[k].span
             end == looping[k].end
  <1>1. /\ k \in Transports /\ stage = "cut" /\ rolling[k] /\ looping[k] # None
        /\ Due \in Edges(k) /\ Due.edge = "wrap" /\ Due.due <= Here
    BY DueSays, EdgeSays DEF WrapLanding
  <1>2. /\ rolled' = rolled /\ looping' = [looping EXCEPT ![k] = span]
        /\ span = None => anchor' = [anchor EXCEPT ![k] = Reanchored(k)]
        /\ span # None => anchor' = [anchor EXCEPT ![k] = Located(span.start, At(k, Here))]
    BY DEF WrapLanding
  <1>3. loopCue[k] # None /\ span \in Span \union {None} /\ (span # None => span.start \in Nat)
    <2>1. loopCue[k] # None
      BY DEF WrapLanding
    <2> QED  BY <1>1, <2>1 DEF SafelyTyped, Typed, PlaceTypes, LoopCue, Span
  <1>4. end \in Nat
    BY <1>1 DEF SafelyTyped, Typed, PlaceTypes, Span
  <1>5. Position(k) = end
    <2>1. /\ ViewPosition(k) = Position(k) /\ Position(k) \in Nat
          /\ Ahead(anchor[k], end, At(k, Here)) <=> end > Position(k)
      BY <1>1, <1>4, ReachedIn
    <2>2. Due.due = DeviceReaching(k, end) /\ (WrapsNow(k) \/ Ahead(anchor[k], end, At(k, Here)))
      BY <1>1 DEF Edges, Cut
    <2>3. Position(k) >= end
      BY <1>1, <1>4, <2>2, ReachedIsBehind
    <2> HIDE DEF end, k
    <2>4. Position(k) = end \/ end > Position(k)
      BY <2>1, <2>2 DEF WrapsNow, end
    <2> QED  BY <1>4, <2>1, <2>3, <2>4
  <1> HIDE DEF k, span, end
  <1>6. frozenFrom[k] = None
    BY <1>1 DEF SafelyTyped, ClockInv, CreditedClock
  <1>7. ASSUME NEW j \in Transports, looping'[j] # looping[j] PROVE MovesNothing(j)
    <2>1. j = k
      BY <1>2, <1>7 DEF SafelyTyped, Typed, PlaceTypes
    <2>2. CASE span = None
      <3>1. anchor'[j] = Reanchored(j)
        BY <1>1, <1>2, <2>1, <2>2 DEF SafelyTyped, Typed, PlaceTypes
      <3>2. Position(j)' = Position(j)
        BY <1>2, <1>6, <2>1, <3>1, ReanchoredStands DEF InFlight
      <3> QED  BY <3>2 DEF MovesNothing
    <2>3. CASE span # None
      <3>1. anchor'[j] = Located(span.start, At(k, Here)) /\ looping'[j] = span
        BY <1>1, <1>2, <2>1, <2>3 DEF SafelyTyped, Typed, PlaceTypes
      <3>2. PositionAt(Located(span.start, At(k, Here)), rolled[k]) = span.start
        BY <1>1, <1>3, <2>3, Anchored
      <3>3. Position(j)' = span.start
        BY <1>2, <2>1, <3>1, <3>2 DEF Position
      <3> QED  BY <1>1, <1>5, <2>1, <2>3, <3>1, <3>3 DEF MovesNothing, end
    <2> QED  BY <2>2, <2>3
  <1> QED  BY <1>7 DEF LandStep

\* Every step.
LEMMA LoopsLand ==
    ASSUME SafelyTyped, [Next]_vars
    PROVE  LandStep
  <1>1. CASE Receive
    <2>1. stage = "drain" /\ rolled' = rolled
      BY <1>1 DEF Receive
    <2>2. ASSUME NEW x, NEW y, Schedule(x, y) \/ FeedLane(x) PROVE looping' = looping
      BY <2>2 DEF Schedule, FeedLane, placing
    <2> QED  BY <1>1, <2>1, <2>2, CommandLands, SameLoopsLand, MoreConstants DEF Receive
  <1>2. CASE BeginBlock
    <2>1. rolled' = rolled /\ stage = "drain"
      BY <1>2 DEF BeginBlock
    <2>2. ASSUME NEW k \in Transports PROVE Position(k)' = Position(k)
      <3>1. anchor'[k] = anchor[k] \/ anchor'[k] = Reanchored(k)
        BY <1>2 DEF BeginBlock
      <3> QED  BY <2>1, <3>1, ReanchoredStands DEF Position, InFlight
    <2> QED  BY <2>2 DEF LandStep, MovesNothing
  <1>3. CASE RunCommand
    <2>1. batch # << >> /\ Apply(Head(batch)) /\ rolled' = rolled
      BY <1>3 DEF RunCommand
    <2>2. Head(batch) \in Command
      BY <2>1 DEF SafelyTyped, Typed, RestTypes
    <2> QED  BY <2>1, <2>2, CommandLands
  <1>4. CASE CrossEdge
    <2>1. CASE ~WrapLanding
      <3>1. looping' = looping
        BY <1>4, <2>1 DEF CrossEdge, Wrap, Freeze, StopOnMark, RampToMark, FreezeHere, placing
      <3> QED  BY <3>1, SameLoopsLand
    <2> QED  BY <2>1, WrapLands
  <1>5. CASE Slice \/ TakeDevice \/ TakeTransport \/ CloseBundle \/ FireLane \/ EndBlock \/ UNCHANGED vars
    <2>1. looping' = looping
      BY <1>5 DEF Slice, TakeDevice, TakeTransport, CloseBundle, FireLane, EndBlock, vars, placing
    <2> QED  BY <2>1, SameLoopsLand
  <1> QED  BY <1>1, <1>2, <1>3, <1>4, <1>5 DEF Next, Audio, Finished

\* On a command of the block's start or of a bundle, on readers that are ready, on
\* a wrap: a loop that is put in place leaves the transport where it stands, or
\* takes it from the old loop's end to its own start, unless the block has samples
\* the transport has stood still for and that are not credited yet.
THEOREM LoopsLandInPlace == Safety => LoopMovesNothing
  <1>1. Init => SafelyTyped
    BY TypesStart
  <1>2. SafelyTyped /\ [Next]_vars => SafelyTyped'
    BY TypesStay, ClockStays DEF SafelyTyped
  <1>3. SafelyTyped /\ [Next]_vars => [LandStep]_vars
    BY LoopsLand
  <1>4. Safety => [][LandStep]_vars
    BY <1>1, <1>2, <1>3, PTL DEF Safety
  <1> QED  BY <1>4 DEF LoopMovesNothing, LandStep, MovesNothing
=============================================================================
