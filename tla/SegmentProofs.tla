---------------------------- MODULE SegmentProofs ----------------------------
(***************************************************************************)
(* What Segment promises for any number of servers and any work.  The      *)
(* claim lets one server at a time past it, so that the ring and the       *)
(* directory have one process each that writes; a peer that maps a buffer  *)
(* maps the one whose shape it read; a window of the tap is told whole;    *)
(* and every packet is handled once, in order, or is still on its way.     *)
(***************************************************************************)
EXTENDS Segment, TLAPS, NaturalsInduction, WellFoundedInduction

-----------------------------------------------------------------------------
(* The claim *)

\* Where a server is once it has swapped the claim for its own.
Writing == {"shape", "publish", "create", "replace", "retire"}
Serving == {"idle", "popped", "handling", "unlink"} \cup Writing
Labels == {"new", "load", "ask", "swap", "attached", "closing", "removing", "gone"} \cup Serving

\* Whoever serves a segment holds its claim.
OneServes == \A s \in Servers : pc[s] \in Serving => claim[at[s]] = s

\* A server about to swap has learnt that the one it saw is gone; nobody claims
\* or is seen before it has started, so that what is gone stays gone.  Packets are
\* popped from the ring of the segment the client has.
ClaimInv ==
    /\ pc \in [Servers -> Labels]
    /\ claim \in [Servers -> Servers \cup {None}]
    /\ seen \in [Servers -> Servers \cup {None}]
    /\ at \in [Servers -> Servers \cup {None}]
    /\ here \in Servers \cup {None}
    /\ \A s \in Servers : pc[s] # "new" => at[s] \in Servers
    /\ \A t \in Servers : claim[t] # None => pc[claim[t]] # "new"
    /\ \A s \in Servers : seen[s] # None => pc[seen[s]] # "new"
    /\ \A s \in Servers : pc[s] = "swap" => seen[s] = None \/ pc[seen[s]] = "gone"
    /\ \A s \in Servers : pc[s] \in {"popped", "handling"} => at[s] = ringOf
    /\ OneServes

\* The claim holds from the start: nobody has started.
LEMMA ClaimInit == Init => ClaimInv
  BY SegmentAssumption DEF SegmentAssumption, Init, ClaimInv, OneServes, Labels, Serving, Writing

\* The steps of a server past the claim move it among the places past it, or out.
LEMMA ClaimServing ==
    ASSUME ClaimInv, NEW s \in Servers, Draining(s) \/ Sharing(s)
    PROVE  ClaimInv'
  <1>1. /\ pc[s] \in Serving
        /\ \E label \in Serving : /\ pc' = [pc EXCEPT ![s] = label]
                                  /\ label \in {"popped", "handling"} => at[s] = ringOf
        /\ UNCHANGED <<claim, here, at, seen, ringOf>>
    BY DEF Draining, Sharing, Pop, PopDone, Handle, Install, Shape, Publish, Create, CannotCreate,
           Replace, RetireUncreated, Clear, Unlink, Goto, Serving, Writing, serving, plane, ClaimInv, Labels
  <1> QED  BY <1>1, SegmentAssumption DEF SegmentAssumption, ClaimInv, OneServes, Labels, Serving, Writing

LEMMA ClaimNext == ClaimInv /\ [Next]_vars => ClaimInv'
  <1> SUFFICES ASSUME ClaimInv, [Next]_vars PROVE ClaimInv'
    OBVIOUS
  <1> USE SegmentAssumption DEF SegmentAssumption
  <1>1. ASSUME NEW s \in Servers, Claiming(s) PROVE ClaimInv'
    <2> USE DEF plane
    <2>1. CASE Open(s)
      BY <2>1 DEF Open, Goto, ClaimInv, OneServes, Labels, Serving, Writing
    <2>2. CASE Load(s)
      BY <2>2 DEF Load, Goto, ClaimInv, OneServes, Labels, Serving, Writing
    <2>3. CASE Ask(s)
      BY <2>3 DEF Ask, Alive, Goto, ClaimInv, OneServes, Labels, Serving, Writing
    \* The one it saw is gone, so that nobody serves its segment.
    <2>4. CASE Swap(s)
      <3>1. CASE StillHeld(s)
        <4>1. \A t \in Servers : pc[t] \in Serving => at[t] # at[s]
          BY <2>4, <3>1 DEF Swap, StillHeld, ClaimInv, OneServes, Serving, Writing
        <4>2. /\ at[s] \in Servers /\ pc[s] = "swap" /\ pc' = [pc EXCEPT ![s] = "idle"]
              /\ claim' = [claim EXCEPT ![at[s]] = s] /\ UNCHANGED <<here, at, seen, ringOf>>
          BY <2>4, <3>1 DEF Swap, Goto, ClaimInv
        <4> QED  BY <4>1, <4>2 DEF ClaimInv, OneServes, Labels, Serving, Writing
      <3>2. CASE ~StillHeld(s)
        BY <2>4, <3>2 DEF Swap, Goto, ClaimInv, OneServes, Labels, Serving, Writing
      <3> QED  BY <3>1, <3>2
    <2>5. CASE Release(s)
      BY <2>5 DEF Release, Goto, ClaimInv, OneServes, Labels, Serving, Writing
    <2>6. CASE RemoveRegions(s) \/ Remove(s)
      BY <2>6 DEF RemoveRegions, Remove, Goto, ClaimInv, OneServes, Labels, Serving, Writing
    <2>7. CASE Kill(s)
      BY <2>7 DEF Kill, Alive, Goto, ClaimInv, OneServes, Labels, Serving, Writing
    <2> QED  BY <1>1, <2>1, <2>2, <2>3, <2>4, <2>5, <2>6, <2>7 DEF Claiming
  <1>2. ASSUME UNCHANGED <<pc, claim, at, seen>>, here' \in {here, None},
               ringOf' = ringOf \/ ringOf = None
        PROVE  ClaimInv'
    BY <1>2 DEF ClaimInv, OneServes, Serving
  <1>3. Sweeping => UNCHANGED <<pc, claim, at, seen, ringOf>> /\ here' \in {here, None}
    BY DEF Sweeping, SweepFinds, SweepRemoves, plane
  <1>4. Pushing => UNCHANGED <<pc, claim, at, seen, here>> /\ (ringOf' = ringOf \/ ringOf = None)
    BY DEF Pushing, ClientOpens, Push, PushDone, ClientDies, serving
  <1>5. Mapping => UNCHANGED <<pc, claim, at, seen, here, ringOf>>
    BY DEF Mapping, PeerOpens, Look, LookShape, LookSame, OpenRegion, LookAgain, PeerSteps, serving, plane
  <1>6. Tapping => UNCHANGED <<pc, claim, at, seen, here, ringOf>>
    BY DEF Tapping, CopyIn, Count, Window, CopyOut, Recheck, Draw, TapSteps, serving, plane
  <1>7. UNCHANGED vars => UNCHANGED <<pc, claim, at, seen, here, ringOf>>
    BY DEF vars, serving, plane
  <1> QED  BY <1>1, <1>2, <1>3, <1>4, <1>5, <1>6, <1>7, ClaimServing DEF Next

\* However servers start, die, close, make segments and take them over, at most one
\* at a time drains the packets of one and writes its directory: the one that holds
\* its claim.
THEOREM OneAtATime == Spec => []OneServes
  <1>1. ClaimInv => OneServes
    BY DEF ClaimInv
  <1> QED  BY <1>1, ClaimInit, ClaimNext, PTL DEF Spec

-----------------------------------------------------------------------------
(* The directory *)

Region == [frames : Nat, linked : BOOLEAN, made : [Servers -> Nat]]
Shapes == [generation : Nat, frames : Nat]

DirectoryTypes ==
    /\ row \in [Servers -> Shapes]
    /\ region \in [DOMAIN region -> Region]
    /\ DOMAIN job = Servers
    /\ peer \in [pc : {"idle", "shape", "same", "open", "again"}, at : Servers \cup {None},
                 generation : Nat, frames : Nat, mapped : Shapes \cup {None}]

\* Where segment t made region g: once, under an odd generation its row has had, and
\* with the row's shape if the row has it still and nobody else made it.
MadeBy(g, t) ==
    /\ g \in Nat /\ Odd(g) /\ g <= row[t].generation
    /\ region[g].made[t] = 1
    /\ OnlyOf(g, t) /\ g = row[t].generation => region[g].frames = row[t].frames

Regions ==
    \A g \in DOMAIN region :
        /\ \E t \in Servers : region[g].made[t] > 0
        /\ \A t \in Servers : region[g].made[t] > 0 => MadeBy(g, t)

\* Segment t has not made region g.
NotMade(g, t) == g \in DOMAIN region => region[g].made[t] = 0

\* Between the row and its region: what a server has in hand is past every region
\* its segment made.
InHand(s) ==
    /\ pc[s] \in {"shape", "publish", "create"} =>
         /\ job[s] \in Shapes /\ Odd(job[s].generation)
         /\ NotMade(job[s].generation, at[s])
    /\ pc[s] \in {"shape", "publish"} => job[s].generation = row[at[s]].generation + 1
    /\ pc[s] = "create" => job[s].generation = row[at[s]].generation
    /\ pc[s] \in {"publish", "create"} => job[s].frames = row[at[s]].frames

\* A shape told of region g of the peer's segment.
Shaped(g, n) == OnlyOf(g, peer.at) => n = region[g].frames

\* What a peer has read of the row is so as long as the generation is the one it
\* read, and of the region for good.
Read ==
    /\ peer.pc # "idle" =>
         peer.at \in Servers /\ Odd(peer.generation) /\ peer.generation <= Shown.generation
    /\ peer.pc \in {"same", "open", "again"} /\ peer.generation = Shown.generation
         => peer.frames = Shown.frames
    /\ peer.pc \in {"open", "again"} /\ peer.generation \in DOMAIN region
         => Shaped(peer.generation, peer.frames)
    /\ peer.pc = "again" => peer.generation \in DOMAIN region
    /\ peer.mapped # None =>
         /\ peer.at \in Servers
         /\ peer.mapped.generation \in DOMAIN region
         /\ Shaped(peer.mapped.generation, peer.mapped.frames)

DirectoryInv ==
    /\ DirectoryTypes /\ Regions /\ Read
    /\ \A s \in Servers : InHand(s)

\* The generations taken are odd and past the row's, and what marks a row as being
\* written, or empty, is even.
LEMMA Generations ==
    ASSUME NEW g \in Nat
    PROVE  /\ NextOdd(g) \in Nat /\ Odd(NextOdd(g)) /\ NextOdd(g) > g
           /\ Darkened(g) \in Nat /\ ~Odd(Darkened(g)) /\ Darkened(g) >= g
           /\ NextOdd(g) = Darkened(g) + 1
           /\ Odd(g) => ~Odd(g + 1)
           /\ ~Odd(g) => Odd(g + 1) /\ Darkened(g) = g
  BY DEF NextOdd, Odd, Darkened

LEMMA DirectoryInit == Init => DirectoryInv
  BY SegmentAssumption DEF SegmentAssumption, Init, DirectoryInv, DirectoryTypes, Regions, InHand,
     Read, Region, Shapes

\* The same files made by the same segments, with the same samples.
SameFiles ==
    /\ DOMAIN region' = DOMAIN region
    /\ region' \in [DOMAIN region -> Region]
    /\ \A g \in DOMAIN region : region'[g].frames = region[g].frames
                                  /\ region'[g].made = region[g].made

\* What loses its name keeps its samples.
LEMMA FilesSame ==
    ASSUME DirectoryTypes, SameFiles
    PROVE  /\ \A g \in DOMAIN region : \A t : OnlyOf(g, t)' <=> OnlyOf(g, t)
           /\ \A g, t : NotMade(g, t)' <=> NotMade(g, t)
           /\ row' = row => (Regions => Regions')
           /\ row' = row /\ peer' = peer => (Read => Read')
  <1>1. \A g \in DOMAIN region : \A t : OnlyOf(g, t)' <=> OnlyOf(g, t)
    BY DEF SameFiles, OnlyOf
  <1>2. \A g, t : NotMade(g, t)' <=> NotMade(g, t)
    BY DEF SameFiles, NotMade
  <1>3. ASSUME row' = row, Regions PROVE Regions'
    BY <1>1, <1>3 DEF SameFiles, Regions, MadeBy
  <1>4. ASSUME row' = row, peer' = peer, Read PROVE Read'
    BY <1>1, <1>4 DEF SameFiles, Read, Shaped, Shown
  <1> QED  BY <1>1, <1>2, <1>3, <1>4

\* A server whose step leaves the rows and the regions' samples alone, and itself at no
\* row half written.
LEMMA DirectoryAside ==
    ASSUME DirectoryInv, NEW s \in Servers,
           \A t \in Servers \ {s} : pc'[t] = pc[t] /\ job'[t] = job[t] /\ at'[t] = at[t],
           pc'[s] \notin {"shape", "publish", "create"},
           DOMAIN job' = Servers, UNCHANGED <<row, peer>>, SameFiles
    PROVE  DirectoryInv'
  <1>1. DirectoryTypes' /\ Regions' /\ Read'
    BY FilesSame DEF DirectoryInv, DirectoryTypes, SameFiles
  <1>2. ASSUME NEW t \in Servers PROVE InHand(t)'
    <2>1. CASE t = s
      BY <2>1 DEF InHand
    <2>2. CASE t # s
      <3>1. InHand(t) /\ pc'[t] = pc[t] /\ job'[t] = job[t] /\ at'[t] = at[t]
        BY <2>2 DEF DirectoryInv
      <3>2. NotMade(job[t].generation, at[t])' <=> NotMade(job[t].generation, at[t])
        BY <2>2, FilesSame DEF DirectoryInv, NotMade
      <3> QED  BY <3>1, <3>2 DEF InHand, NotMade
    <2> QED  BY <2>1, <2>2
  <1> QED  BY <1>1, <1>2 DEF DirectoryInv

\* A server that writes the directory of its segment is the only one with a row of it
\* in hand, and leaves the others' as they are.
LEMMA DirectoryAlone ==
    ASSUME ClaimInv, DirectoryInv, NEW s \in Servers, pc[s] \in Serving, InHand(s)', at' = at,
           \A t \in Servers \ {s} : pc'[t] = pc[t] /\ job'[t] = job[t],
           \A t \in Servers : t # at[s] => row'[t] = row[t]
                                /\ \A g : NotMade(g, t) => NotMade(g, t)'
    PROVE  \A t \in Servers : InHand(t)'
  <1> SUFFICES ASSUME NEW t \in Servers, t # s PROVE InHand(t)'
    OBVIOUS
  <1>1. CASE pc[t] \notin Serving
    BY <1>1 DEF InHand, Serving, Writing
  <1>2. CASE pc[t] \in Serving
    <2>1. at[t] \in Servers /\ at[t] # at[s]
      BY <1>2 DEF ClaimInv, OneServes, Serving, Writing
    <2>2. InHand(t) /\ pc'[t] = pc[t] /\ job'[t] = job[t] /\ at'[t] = at[t] /\ row'[at[t]] = row[at[t]]
      BY <2>1 DEF DirectoryInv
    <2>3. NotMade(job[t].generation, at[t]) => NotMade(job[t].generation, at[t])'
      BY <2>1, <2>2
    <2> QED  BY <2>2, <2>3 DEF InHand, NotMade
  <1> QED  BY <1>1, <1>2

\* Retiring, or marking as being written, takes a row to a generation past every
\* region's of its segment and what every peer has read.
LEMMA DirectoryMoves ==
    ASSUME DirectoryInv, NEW a \in Servers, NEW h \in Nat,
           row' = [row EXCEPT ![a].generation = h],
           h >= row[a].generation, h = row[a].generation \/ ~Odd(h),
           UNCHANGED <<region, peer>>
    PROVE  /\ Regions' /\ Read' /\ row' \in [Servers -> Shapes]
           /\ row'[a].generation = h /\ row'[a].frames = row[a].frames
           /\ \A t \in Servers : t # a => row'[t] = row[t]
  <1>1. row \in [Servers -> Shapes] /\ Regions /\ Read
    BY DEF DirectoryInv, DirectoryTypes
  <1>2. /\ row' \in [Servers -> Shapes]
        /\ row'[a].generation = h /\ row'[a].frames = row[a].frames
        /\ \A t \in Servers : t # a => row'[t] = row[t]
    BY <1>1 DEF Shapes
  <1>3. \A t \in Servers : /\ row'[t].generation \in Nat /\ row[t].generation \in Nat
                           /\ row'[t].generation >= row[t].generation
                           /\ row'[t].frames = row[t].frames
                           /\ row'[t].generation = row[t].generation \/ ~Odd(row'[t].generation)
    BY <1>1, <1>2 DEF Shapes
  <1>4. Regions'
    <2>1. ASSUME NEW g \in DOMAIN region, NEW t \in Servers, MadeBy(g, t) PROVE MadeBy(g, t)'
      BY <1>3, <2>1 DEF MadeBy, OnlyOf
    <2> QED  BY <1>1, <2>1 DEF Regions
  <1>5. Read'
    <2>1. peer \in [pc : {"idle", "shape", "same", "open", "again"}, at : Servers \cup {None},
                    generation : Nat, frames : Nat, mapped : Shapes \cup {None}]
      BY DEF DirectoryInv, DirectoryTypes
    <2>2. \A g, n : Shaped(g, n)' <=> Shaped(g, n)
      BY DEF Shaped, OnlyOf
    <2>3. CASE peer.pc # "idle"
      <3>1. peer.at \in Servers /\ peer.generation \in Nat /\ Shown = row[peer.at]
            /\ Shown' = row'[peer.at] /\ Odd(peer.generation) /\ peer.generation <= Shown.generation
        BY <1>1, <2>1, <2>3 DEF Read, Shown
      <3>2. /\ peer.generation <= Shown'.generation
            /\ peer.generation = Shown'.generation =>
                 peer.generation = Shown.generation /\ Shown'.frames = Shown.frames
        BY <1>3, <3>1
      <3> QED  BY <1>1, <2>2, <3>1, <3>2 DEF Read
    <2>4. CASE peer.pc = "idle"
      BY <1>1, <2>2, <2>4 DEF Read
    <2> QED  BY <2>3, <2>4
  <1> QED  BY <1>2, <1>4, <1>5

\* The segment a server serves is one.
LEMMA ServesOne ==
    ASSUME ClaimInv, NEW s \in Servers, pc[s] \in Serving
    PROVE  at[s] \in Servers
  BY DEF ClaimInv, Serving, Writing

LEMMA DirectoryServing ==
    ASSUME ClaimInv, DirectoryInv, NEW s \in Servers, Draining(s) \/ Sharing(s)
    PROVE  DirectoryInv'
  <1> USE DEF Goto
  <1>0. /\ DirectoryTypes /\ Regions /\ Read /\ InHand(s)
        /\ pc \in [Servers -> Labels] /\ at' = at
    BY DEF DirectoryInv, ClaimInv, Draining, Sharing, Pop, PopDone, Handle, Install, Shape, Publish,
           Create, CannotCreate, Replace, RetireUncreated, Clear, Unlink
  <1>1. CASE Draining(s)
    <2>1. SameFiles
      BY <1>0, <1>1 DEF SameFiles, DirectoryTypes, Draining, Pop, PopDone, Handle, directory
    <2> QED  BY <1>0, <1>1, <2>1, DirectoryAside DEF Draining, Pop, PopDone, Handle, directory, DirectoryTypes
  <1> DEFINE a == at[s]
  <1>2. ASSUME NEW n \in FrameCounts, Install(s, n) PROVE DirectoryInv'
    <2> DEFINE g == row[a].generation
    <2>1. /\ pc[s] = "idle" /\ pc' = [pc EXCEPT ![s] = "shape"]
          /\ job' = [job EXCEPT ![s] = [generation |-> NextOdd(g), frames |-> n]]
          /\ row' = [row EXCEPT ![a].generation = Darkened(g)]
          /\ UNCHANGED <<region, peer>>
      BY <1>2 DEF Install
    <2>0. pc[s] \in Serving /\ a \in Servers
      BY <2>1, ServesOne DEF Serving
    <2>2. /\ g \in Nat /\ Darkened(g) \in Nat /\ Darkened(g) >= g /\ ~Odd(Darkened(g))
          /\ NextOdd(g) = Darkened(g) + 1 /\ Odd(NextOdd(g)) /\ NextOdd(g) \in Nat
      BY <1>0, <2>0, Generations DEF DirectoryTypes, Shapes
    <2>3. n \in Nat
      BY SegmentAssumption DEF SegmentAssumption
    <2> HIDE DEF g, a
    <2>4. /\ Regions' /\ Read' /\ row' \in [Servers -> Shapes]
          /\ row'[a].generation = Darkened(g)
          /\ \A t \in Servers : t # a => row'[t] = row[t]
      BY <2>0, <2>1, <2>2, DirectoryMoves DEF g
    <2>5. DirectoryTypes'
      BY <1>0, <2>1, <2>4 DEF DirectoryTypes
    <2>6. /\ job'[s].generation = Darkened(g) + 1 /\ job'[s] \in Shapes /\ pc'[s] = "shape"
          /\ Odd(job'[s].generation) /\ at'[s] = a
      BY <1>0, <2>1, <2>2, <2>3 DEF DirectoryTypes, Shapes, a
    <2>7. NotMade(Darkened(g) + 1, a)
      <3> SUFFICES ASSUME Darkened(g) + 1 \in DOMAIN region,
                          region[Darkened(g) + 1].made[a] # 0
                   PROVE  FALSE
        BY DEF NotMade
      <3>1. region[Darkened(g) + 1].made[a] \in Nat
        BY <1>0, <2>0 DEF DirectoryTypes, Region
      <3>2. MadeBy(Darkened(g) + 1, a)
        BY <1>0, <2>0, <3>1 DEF Regions
      <3> QED  BY <2>2, <3>2 DEF MadeBy, g
    <2>8. InHand(s)'
      BY <2>1, <2>4, <2>6, <2>7 DEF InHand, NotMade
    <2>9. \A x, t : NotMade(x, t) => NotMade(x, t)'
      BY <2>1 DEF NotMade
    <2>10. \A t \in Servers : InHand(t)'
      BY <1>0, <2>0, <2>1, <2>4, <2>8, <2>9, DirectoryAlone DEF a, DirectoryTypes
    <2> QED  BY <2>4, <2>5, <2>10 DEF DirectoryInv
  <1>3. CASE Shape(s)
    <2>1. /\ pc[s] = "shape" /\ pc' = [pc EXCEPT ![s] = "publish"]
          /\ row' = [row EXCEPT ![a].frames = job[s].frames]
          /\ UNCHANGED <<job, region, peer>>
      BY <1>3 DEF Shape, directory
    <2>0. pc[s] \in Serving /\ a \in Servers
      BY <2>1, ServesOne DEF Serving, Writing
    <2>2. /\ job[s] \in Shapes /\ Odd(job[s].generation) /\ NotMade(job[s].generation, a)
          /\ job[s].generation = row[a].generation + 1 /\ row[a].generation \in Nat
      BY <1>0, <2>0, <2>1 DEF InHand, DirectoryTypes, Shapes
    <2>3. ~Odd(row[a].generation)
      BY <2>2, Generations
    <2> HIDE DEF a
    <2>4. /\ row' \in [Servers -> Shapes]
          /\ row'[a].generation = row[a].generation /\ row'[a].frames = job[s].frames
          /\ \A t \in Servers : t # a => row'[t] = row[t]
      BY <1>0, <2>0, <2>1, <2>2 DEF DirectoryTypes, Shapes
    <2>5. DirectoryTypes'
      BY <1>0, <2>1, <2>4 DEF DirectoryTypes
    \* No region and no peer has the even generation whose shape is written.
    <2>6. Regions'
      <3>1. ASSUME NEW g \in DOMAIN region, NEW t \in Servers, MadeBy(g, t) PROVE MadeBy(g, t)'
        <4>1. CASE t = a
          BY <2>1, <2>3, <2>4, <3>1, <4>1 DEF MadeBy, OnlyOf
        <4>2. CASE t # a
          BY <2>1, <2>4, <3>1, <4>2 DEF MadeBy, OnlyOf
        <4> QED  BY <4>1, <4>2
      <3> QED  BY <1>0, <2>1, <3>1 DEF Regions
    <2>7. Read'
      <3>1. \A g, n : Shaped(g, n)' <=> Shaped(g, n)
        BY <2>1 DEF Shaped, OnlyOf
      <3>2. CASE peer.pc # "idle"
        <4>1. peer.at \in Servers /\ Shown = row[peer.at] /\ Shown' = row'[peer.at]
              /\ Odd(peer.generation)
          BY <1>0, <2>1, <3>2 DEF Read, Shown
        <4>2. /\ Shown'.generation = Shown.generation
              /\ peer.generation = Shown.generation => Shown' = Shown
          BY <2>3, <2>4, <4>1
        <4> QED  BY <1>0, <2>1, <3>1, <4>1, <4>2 DEF Read
      <3>3. CASE peer.pc = "idle"
        BY <1>0, <2>1, <3>1, <3>3 DEF Read
      <3> QED  BY <3>2, <3>3
    <2>8. InHand(s)'
      BY <1>0, <2>1, <2>2, <2>4 DEF InHand, NotMade, a
    <2>9. \A x, t : NotMade(x, t) => NotMade(x, t)'
      BY <2>1 DEF NotMade
    <2>10. \A t \in Servers : InHand(t)'
      BY <1>0, <2>0, <2>1, <2>4, <2>8, <2>9, DirectoryAlone DEF a
    <2> QED  BY <2>5, <2>6, <2>7, <2>10 DEF DirectoryInv
  <1>4. CASE Publish(s)
    <2>1. /\ pc[s] = "publish" /\ pc' = [pc EXCEPT ![s] = "create"]
          /\ row' = [row EXCEPT ![a].generation = job[s].generation]
          /\ UNCHANGED <<job, region, peer>>
      BY <1>4 DEF Publish, directory
    <2>0. pc[s] \in Serving /\ a \in Servers
      BY <2>1, ServesOne DEF Serving, Writing
    <2>2. /\ job[s] \in Shapes /\ Odd(job[s].generation) /\ NotMade(job[s].generation, a)
          /\ job[s].generation = row[a].generation + 1 /\ row[a].generation \in Nat
          /\ job[s].frames = row[a].frames
      BY <1>0, <2>0, <2>1 DEF InHand, DirectoryTypes, Shapes
    <2> HIDE DEF a
    <2>3. /\ row' \in [Servers -> Shapes]
          /\ row'[a].generation = row[a].generation + 1 /\ row'[a].frames = row[a].frames
          /\ \A t \in Servers : t # a => row'[t] = row[t]
      BY <1>0, <2>0, <2>1, <2>2 DEF DirectoryTypes, Shapes
    <2>4. DirectoryTypes'
      BY <1>0, <2>1, <2>3 DEF DirectoryTypes
    <2>5. Regions'
      <3>1. ASSUME NEW g \in DOMAIN region, NEW t \in Servers, region[g].made[t] > 0, MadeBy(g, t)
            PROVE  MadeBy(g, t)'
        <4>1. CASE t = a
          <5>1. g # job[s].generation
            BY <2>2, <3>1, <4>1 DEF NotMade
          <5> QED  BY <2>1, <2>2, <2>3, <3>1, <4>1, <5>1 DEF MadeBy, OnlyOf
        <4>2. CASE t # a
          BY <2>1, <2>3, <3>1, <4>2 DEF MadeBy, OnlyOf
        <4> QED  BY <4>1, <4>2
      <3> QED  BY <1>0, <2>1, <3>1 DEF Regions
    <2>6. Read'
      <3>1. \A g, n : Shaped(g, n)' <=> Shaped(g, n)
        BY <2>1 DEF Shaped, OnlyOf
      <3>2. CASE peer.pc # "idle"
        <4>1. peer.at \in Servers /\ Shown = row[peer.at] /\ Shown' = row'[peer.at]
              /\ peer.generation <= Shown.generation /\ peer.generation \in Nat
          BY <1>0, <2>1, <3>2 DEF Read, Shown, DirectoryTypes
        <4>2. \/ Shown' = Shown
              \/ Shown'.generation = Shown.generation + 1 /\ Shown.generation \in Nat
          BY <2>2, <2>3, <4>1
        <4>3. /\ peer.generation <= Shown'.generation
              /\ peer.generation = Shown'.generation => Shown' = Shown
          BY <4>1, <4>2
        <4> QED  BY <1>0, <2>1, <3>1, <4>1, <4>3 DEF Read
      <3>3. CASE peer.pc = "idle"
        BY <1>0, <2>1, <3>1, <3>3 DEF Read
      <3> QED  BY <3>2, <3>3
    <2>7. InHand(s)'
      BY <1>0, <2>1, <2>2, <2>3 DEF InHand, NotMade, a
    <2>8. \A x, t : NotMade(x, t) => NotMade(x, t)'
      BY <2>1 DEF NotMade
    <2>9. \A t \in Servers : InHand(t)'
      BY <1>0, <2>0, <2>1, <2>3, <2>7, <2>8, DirectoryAlone DEF a
    <2> QED  BY <2>4, <2>5, <2>6, <2>9 DEF DirectoryInv
  <1>5. CASE Create(s)
    <2> DEFINE g == job[s].generation
               before == IF g \in DOMAIN region THEN region[g].made ELSE [t \in Servers |-> 0]
               made == [before EXCEPT ![a] = before[a] + 1]
    <2>1. /\ pc[s] = "create" /\ pc' = [pc EXCEPT ![s] = "replace"]
          /\ UNCHANGED <<job, row, peer>>
      BY <1>5 DEF Create
    <2>0. pc[s] \in Serving /\ a \in Servers
      BY <2>1, ServesOne DEF Serving, Writing
    <2>2. /\ g \in Nat /\ Odd(g) /\ NotMade(g, a) /\ g = row[a].generation
          /\ job[s].frames = row[a].frames /\ job[s].frames \in Nat
      BY <1>0, <2>1 DEF InHand, Shapes
    <2>3. region' = [h \in DOMAIN region \cup {g} |->
                       IF h = g THEN [frames |-> job[s].frames, linked |-> TRUE, made |-> made]
                       ELSE region[h]]
      BY <1>5 DEF Create
    <2>4. before \in [Servers -> Nat] /\ before[a] = 0
      BY <1>0, <2>0, <2>2 DEF DirectoryTypes, Region, NotMade
    <2>5. /\ made \in [Servers -> Nat] /\ made[a] = 1
          /\ \A t \in Servers : t # a => made[t] = before[t]
      BY <2>0, <2>4
    <2>15. g' = g /\ a' = a
      BY <1>0, <2>1
    <2> HIDE DEF a, g, made, before
    <2>6. /\ DOMAIN region' = DOMAIN region \cup {g}
          /\ region'[g] = [frames |-> job[s].frames, linked |-> TRUE, made |-> made]
          /\ \A h \in DOMAIN region : h # g => region'[h] = region[h]
      BY <2>3
    <2>7. DirectoryTypes'
      BY <1>0, <2>1, <2>2, <2>3, <2>5 DEF DirectoryTypes, Region, g
    \* Whose region it was stays told; whose alone it is, it is this segment's.
    <2>8. ASSUME NEW t \in Servers, OnlyOf(g, t)' PROVE t = a /\ g \notin DOMAIN region
      <3>1. t = a
        BY <2>1, <2>15, <2>0, <2>5, <2>6, <2>8 DEF OnlyOf
      <3>2. ASSUME g \in DOMAIN region PROVE FALSE
        <4>1. PICK u \in Servers : region[g].made[u] > 0
          BY <1>0, <3>2 DEF Regions
        <4>2. before = region[g].made /\ u # a
          BY <2>4, <3>2, <4>1 DEF before
        <4>3. made[u] > 0
          BY <2>5, <4>1, <4>2
        <4> QED  BY <2>1, <2>15, <2>6, <2>8, <3>1, <4>2, <4>3 DEF OnlyOf
      <3> QED  BY <3>1, <3>2
    <2>9. \A h \in DOMAIN region : h # g => \A t : OnlyOf(h, t)' <=> OnlyOf(h, t)
      BY <2>6 DEF OnlyOf
    <2>10. Regions'
      <3>1. ASSUME NEW h \in DOMAIN region', h # g
            PROVE  /\ \E t \in Servers : region'[h].made[t] > 0
                   /\ \A t \in Servers : region'[h].made[t] > 0 => MadeBy(h, t)'
        BY <1>0, <2>1, <2>6, <2>9, <3>1 DEF Regions, MadeBy
      <3>2. ASSUME NEW t \in Servers, region'[g].made[t] > 0 PROVE MadeBy(g, t)'
        <4>1. CASE t = a
          BY <2>15, <2>1, <2>2, <2>0, <2>5, <2>6, <4>1 DEF MadeBy, DirectoryTypes
        <4>2. CASE t # a
          <5>1. before[t] > 0
            BY <2>5, <2>6, <3>2, <4>2
          <5>2. g \in DOMAIN region /\ before = region[g].made
            BY <5>1 DEF before
          <5>3. MadeBy(g, t)
            BY <1>0, <5>1, <5>2 DEF Regions
          <5> QED  BY <2>15, <2>1, <2>5, <2>6, <2>8, <4>2, <5>2, <5>3 DEF MadeBy
        <4> QED  BY <4>1, <4>2
      <3>3. region'[g].made[a] > 0
        BY <2>5, <2>6
      <3> QED  BY <2>1, <2>15, <2>0, <3>1, <3>2, <3>3 DEF Regions
    <2>11. Read'
      <3>1. ASSUME NEW h \in DOMAIN region, NEW n, peer.at \in Servers, Shaped(h, n)
            PROVE  Shaped(h, n)'
        <4>1. CASE h = g
          BY <2>15, <2>1, <2>8, <3>1, <4>1 DEF Shaped
        <4>2. CASE h # g
          BY <2>1, <2>6, <2>9, <3>1, <4>2 DEF Shaped
        <4> QED  BY <4>1, <4>2
      <3>2. Shown' = Shown
        BY <2>1 DEF Shown
      <3>3. ASSUME peer.pc \in {"open", "again"}, peer.generation = g
            PROVE  Shaped(g, peer.frames)'
        <4>1. ASSUME OnlyOf(g, peer.at)' PROVE peer.frames = job[s].frames
          <5>1. peer.at = a
            BY <2>1, <2>15, <1>0, <2>8, <3>3, <4>1 DEF Read
          <5> QED  BY <1>0, <2>2, <3>3, <5>1 DEF Read, Shown
        <4> QED  BY <2>15, <2>1, <2>6, <4>1 DEF Shaped, OnlyOf
      <3>4. ASSUME peer.pc \in {"open", "again"}, peer.generation \in DOMAIN region'
            PROVE  Shaped(peer.generation, peer.frames)'
        <4>1. CASE peer.generation = g
          BY <2>1, <2>15, <3>3, <3>4, <4>1
        <4>2. CASE peer.generation # g
          BY <2>1, <2>15, <1>0, <2>6, <3>1, <3>4, <4>2 DEF Read
        <4> QED  BY <4>1, <4>2
      <3>5. ASSUME peer.mapped # None
            PROVE  /\ peer.at \in Servers
                   /\ peer.mapped.generation \in DOMAIN region'
                   /\ Shaped(peer.mapped.generation, peer.mapped.frames)'
        BY <2>1, <2>15, <1>0, <2>6, <3>1, <3>5 DEF Read
      <3>6. peer.pc = "again" => peer.generation \in DOMAIN region'
        BY <1>0, <2>6 DEF Read
      <3> QED  BY <1>0, <2>1, <3>2, <3>4, <3>5, <3>6 DEF Read, Shaped
    <2>12. pc'[s] = "replace" /\ InHand(s)'
      BY <1>0, <2>1 DEF InHand
    <2>13. ASSUME NEW t \in Servers, t # a, NEW h, NotMade(h, t) PROVE NotMade(h, t)'
      <3>1. CASE h = g
        <4>1. before[t] = 0
          BY <2>13, <3>1 DEF NotMade, before
        <4> QED  BY <2>5, <2>6, <2>13, <3>1, <4>1 DEF NotMade
      <3>2. CASE h # g
        BY <2>6, <2>13, <3>2 DEF NotMade
      <3> QED  BY <3>1, <3>2
    <2>14. \A t \in Servers : InHand(t)'
      BY <1>0, <2>0, <2>1, <2>12, <2>13, DirectoryAlone DEF a
    <2> QED  BY <2>7, <2>10, <2>11, <2>14 DEF DirectoryInv
  <1>6. CASE CannotCreate(s)
    <2>1. SameFiles
      BY <1>0, <1>6 DEF SameFiles, DirectoryTypes, CannotCreate, directory
    <2> QED  BY <1>0, <1>6, <2>1, DirectoryAside DEF CannotCreate, directory, DirectoryTypes
  \* A name taken away, and a server back at its loop.
  <1>7. ASSUME NEW h, region' = Unlinked(h),
               /\ \A t \in Servers \ {s} : pc'[t] = pc[t] /\ job'[t] = job[t]
               /\ pc'[s] \notin {"shape", "publish", "create"}
               /\ DOMAIN job' = Servers /\ UNCHANGED <<row, peer>>
        PROVE  DirectoryInv'
    <2>1. SameFiles
      <3>1. region' = [g \in DOMAIN region |-> [region[g] EXCEPT !.linked = @ /\ g # h]]
        BY <1>7 DEF Unlinked
      <3>2. /\ DOMAIN region' = DOMAIN region
            /\ \A g \in DOMAIN region :
                 region'[g] = [region[g] EXCEPT !.linked = region[g].linked /\ g # h]
        BY <3>1
      <3>3. ASSUME NEW g \in DOMAIN region
            PROVE  /\ region'[g] \in Region
                   /\ region'[g].frames = region[g].frames
                   /\ region'[g].made = region[g].made
        <4>1. region[g] \in Region
          BY <1>0 DEF DirectoryTypes
        <4> QED  BY <3>2, <4>1 DEF Region
      <3> QED  BY <3>1, <3>2, <3>3 DEF SameFiles
    <2> QED  BY <1>0, <1>7, <2>1, DirectoryAside
  <1>8. CASE Replace(s)
    BY <1>0, <1>7, <1>8 DEF Replace, DirectoryTypes
  <1>9. CASE Unlink(s)
    BY <1>0, <1>7, <1>9 DEF Unlink, DirectoryTypes
  <1>10. CASE RetireUncreated(s) \/ Clear(s)
    <2> DEFINE g == row[a].generation
               h == IF Odd(g) THEN g + 1 ELSE g
    <2>1. /\ pc[s] \in Serving /\ pc'[s] \in {"idle", "unlink"}
          /\ \A t \in Servers \ {s} : pc'[t] = pc[t] /\ job'[t] = job[t]
          /\ DOMAIN job' = Servers
          /\ row' = Retired(s) /\ UNCHANGED <<region, peer>>
      BY <1>0, <1>10 DEF RetireUncreated, Clear, DirectoryTypes, Serving, Writing
    <2>2. a \in Servers /\ g \in Nat
      BY <1>0, <2>1, ServesOne DEF DirectoryTypes, Shapes
    <2>3. h \in Nat /\ h >= g /\ (h = g \/ ~Odd(h)) /\ row' = [row EXCEPT ![a].generation = h]
      BY <2>1, <2>2, Generations DEF Retired
    <2> HIDE DEF h, a
    <2>4. /\ Regions' /\ Read' /\ row' \in [Servers -> Shapes]
          /\ \A t \in Servers : t # a => row'[t] = row[t]
      BY <2>1, <2>2, <2>3, DirectoryMoves
    <2>5. DirectoryTypes' /\ InHand(s)'
      BY <1>0, <2>1, <2>4 DEF DirectoryTypes, InHand
    <2>6. \A x, t : NotMade(x, t) => NotMade(x, t)'
      BY <2>1 DEF NotMade
    <2>7. \A t \in Servers : InHand(t)'
      BY <1>0, <2>1, <2>4, <2>5, <2>6, DirectoryAlone DEF a
    <2> QED  BY <2>4, <2>5, <2>7 DEF DirectoryInv
  <1> QED  BY <1>1, <1>2, <1>3, <1>4, <1>5, <1>6, <1>8, <1>9, <1>10 DEF Sharing

\* Files that only lose their names.
LEMMA NoneLinkedSame ==
    ASSUME DirectoryTypes, region' = NoneLinked
    PROVE  SameFiles
  <1>1. /\ DOMAIN region' = DOMAIN region
        /\ \A g \in DOMAIN region : region'[g] = [region[g] EXCEPT !.linked = FALSE]
    BY DEF NoneLinked
  <1>2. ASSUME NEW g \in DOMAIN region
        PROVE  /\ region'[g] \in Region
               /\ region'[g].frames = region[g].frames /\ region'[g].made = region[g].made
    <2>1. region[g] \in Region
      BY DEF DirectoryTypes
    <2> QED  BY <1>1, <2>1 DEF Region
  <1>3. region' = [g \in DOMAIN region |-> region'[g]]
    BY DEF NoneLinked
  <1> QED  BY <1>1, <1>2, <1>3 DEF SameFiles

LEMMA DirectoryClaiming ==
    ASSUME ClaimInv, DirectoryInv, NEW s \in Servers, Claiming(s)
    PROVE  DirectoryInv'
  <1>1. /\ DirectoryTypes /\ pc \in [Servers -> Labels] /\ at \in [Servers -> Servers \cup {None}]
        /\ UNCHANGED <<job, row, peer>>
        /\ \A t \in Servers \ {s} : pc'[t] = pc[t] /\ at'[t] = at[t]
        /\ pc'[s] \notin {"shape", "publish", "create"}
    BY DEF Claiming, Open, Load, Ask, Swap, Release, RemoveRegions, Remove, Kill, Goto, directory, ClaimInv,
           DirectoryInv
  <1>2. SameFiles
    <2>1. CASE RemoveRegions(s)
      BY <1>1, <2>1, NoneLinkedSame DEF RemoveRegions
    <2>2. CASE UNCHANGED region
      BY <1>1, <2>2 DEF DirectoryTypes, SameFiles
    <2> QED  BY <2>1, <2>2 DEF Claiming, Open, Load, Ask, Swap, Release, Remove, Kill, directory
  <1> QED  BY <1>1, <1>2, DirectoryAside DEF DirectoryTypes

\* What a peer read under one generation is of one buffer, and so is the region it
\* then finds by that generation's name.
LEMMA DirectoryMapping ==
    ASSUME ClaimInv, DirectoryInv, Mapping
    PROVE  DirectoryInv'
  <1>1. DirectoryTypes /\ Regions /\ Read /\ UNCHANGED <<pc, at, job, row, region>>
    BY DEF DirectoryInv, Mapping, PeerOpens, Look, LookShape, LookSame, OpenRegion, LookAgain, PeerSteps,
           serving, directory
  <1>2. Regions' /\ \A s \in Servers : InHand(s)'
    BY <1>1 DEF DirectoryInv, Regions, MadeBy, OnlyOf, InHand, NotMade
  <1>3. CASE PeerOpens
    BY <1>1, <1>2, <1>3 DEF PeerOpens, ClaimInv, DirectoryInv, DirectoryTypes, Read
  <1>4. CASE Look
    <2>1. peer.at \in Servers /\ Shown.generation \in Nat /\ Odd(Shown.generation) /\ Shown = row[peer.at]
      BY <1>1, <1>4 DEF Look, DirectoryTypes, Shapes, Shown
    <2>2. /\ peer'.pc = "shape" /\ peer'.at = peer.at /\ peer'.generation = Shown.generation
          /\ peer'.mapped = None /\ Shown' = Shown
      BY <1>1, <1>4 DEF Look, DirectoryTypes, Shown
    <2>3. DirectoryTypes'
      BY <1>1, <1>4, <2>1 DEF Look, DirectoryTypes
    <2>4. Read'
      BY <2>1, <2>2 DEF Read
    <2> QED  BY <1>2, <2>3, <2>4 DEF DirectoryInv
  <1>5. CASE LookShape
    <2>1. peer.at \in Servers /\ Shown.frames \in Nat
      BY <1>1, <1>5 DEF LookShape, DirectoryTypes, Shapes, Shown, Read
    <2>2. /\ peer'.pc = "same" /\ peer'.at = peer.at /\ peer'.generation = peer.generation
          /\ peer'.frames = Shown.frames /\ peer'.mapped = peer.mapped /\ Shown' = Shown
      BY <1>1, <1>5 DEF LookShape, DirectoryTypes, Shown
    <2>3. DirectoryTypes'
      BY <1>1, <1>5, <2>1 DEF LookShape, DirectoryTypes
    <2>4. \A g, n : Shaped(g, n)' <=> Shaped(g, n)
      BY <1>1, <2>2 DEF Shaped, OnlyOf
    <2>5. Read'
      BY <1>1, <1>5, <2>1, <2>2, <2>4 DEF Read, LookShape
    <2> QED  BY <1>2, <2>3, <2>5 DEF DirectoryInv
  <1>6. CASE LookSame
    <2>1. DirectoryTypes'
      BY <1>1, <1>6 DEF LookSame, DirectoryTypes
    <2>2. /\ peer'.at = peer.at /\ peer'.generation = peer.generation /\ peer'.frames = peer.frames
          /\ peer'.mapped = peer.mapped /\ peer'.pc \in {"open", "idle"} /\ Shown' = Shown
          /\ (peer'.pc = "open" => Shown.generation = peer.generation)
      BY <1>1, <1>6 DEF LookSame, DirectoryTypes, Shown
    <2>3. \A g, n : Shaped(g, n)' <=> Shaped(g, n)
      BY <1>1, <2>2 DEF Shaped, OnlyOf
    \* The region of the row's generation has the row's shape.
    <2>4. ASSUME peer'.pc = "open", peer.generation \in DOMAIN region
          PROVE  Shaped(peer.generation, peer.frames)
      <3>1. peer.at \in Servers /\ peer.generation = Shown.generation /\ peer.frames = Shown.frames
        BY <1>1, <1>6, <2>2, <2>4 DEF Read, LookSame
      <3>2. ASSUME OnlyOf(peer.generation, peer.at)
            PROVE  region[peer.generation].frames = Shown.frames
        <4>1. MadeBy(peer.generation, peer.at)
          BY <1>1, <2>4, <3>2 DEF Regions, OnlyOf
        <4> QED  BY <3>1, <3>2, <4>1 DEF MadeBy, Shown
      <3> QED  BY <3>1, <3>2 DEF Shaped
    <2>5. Read'
      BY <1>1, <1>6, <2>2, <2>3, <2>4 DEF Read, LookSame
    <2> QED  BY <1>2, <2>1, <2>5 DEF DirectoryInv
  <1>7. CASE OpenRegion
    <2>1. DirectoryTypes'
      BY <1>1, <1>7 DEF OpenRegion, DirectoryTypes
    <2>2. /\ peer'.at = peer.at /\ peer'.generation = peer.generation /\ peer'.frames = peer.frames
          /\ peer'.mapped = peer.mapped /\ peer'.pc \in {"again", "idle"} /\ Shown' = Shown
          /\ (peer'.pc = "again" => peer.generation \in DOMAIN region)
      BY <1>1, <1>7 DEF OpenRegion, DirectoryTypes, Shown
    <2>3. \A g, n : Shaped(g, n)' <=> Shaped(g, n)
      BY <1>1, <2>2 DEF Shaped, OnlyOf
    <2>4. Read'
      BY <1>1, <1>7, <2>2, <2>3 DEF Read, OpenRegion
    <2> QED  BY <1>2, <2>1, <2>4 DEF DirectoryInv
  <1>8. CASE LookAgain
    <2>1. DirectoryTypes'
      BY <1>1, <1>8 DEF LookAgain, DirectoryTypes, Shapes
    <2>2. /\ peer'.at = peer.at /\ peer'.pc = "idle"
          /\ \/ peer'.mapped = peer.mapped
             \/ peer'.mapped = [generation |-> peer.generation, frames |-> peer.frames]
      BY <1>1, <1>8 DEF LookAgain, DirectoryTypes
    <2>3. \A g, n : Shaped(g, n)' <=> Shaped(g, n)
      BY <1>1, <2>2 DEF Shaped, OnlyOf
    <2>4. peer.pc = "again" /\ peer.at \in Servers /\ peer.generation \in DOMAIN region
          /\ Shaped(peer.generation, peer.frames)
      BY <1>1, <1>8 DEF LookAgain, Read
    <2>5. Read'
      BY <1>1, <2>2, <2>3, <2>4 DEF Read
    <2> QED  BY <1>2, <2>1, <2>5 DEF DirectoryInv
  <1> QED  BY <1>3, <1>4, <1>5, <1>6, <1>7, <1>8 DEF Mapping

LEMMA DirectoryNext == ClaimInv /\ DirectoryInv /\ [Next]_vars => DirectoryInv'
  <1> SUFFICES ASSUME ClaimInv, DirectoryInv, [Next]_vars PROVE DirectoryInv'
    OBVIOUS
  <1>1. ASSUME UNCHANGED <<pc, at, job, row, peer>>, SameFiles PROVE DirectoryInv'
    <2>1. (DirectoryTypes /\ Regions /\ Read)'
      BY <1>1, FilesSame DEF DirectoryInv, DirectoryTypes, SameFiles
    <2>2. ASSUME NEW s \in Servers PROVE InHand(s)'
      <3>1. InHand(s) /\ (NotMade(job[s].generation, at[s])' <=> NotMade(job[s].generation, at[s]))
        BY <1>1, FilesSame DEF DirectoryInv, NotMade
      <3> QED  BY <1>1, <3>1 DEF InHand, NotMade
    <2> QED  BY <2>1, <2>2 DEF DirectoryInv
  <1>2. ASSUME UNCHANGED <<pc, at, job, row, region, peer>> PROVE DirectoryInv'
    BY <1>1, <1>2 DEF SameFiles, DirectoryInv, DirectoryTypes
  <1>3. CASE Sweeping
    <2>1. UNCHANGED <<pc, at, job, row, peer>> /\ (region' = region \/ region' = NoneLinked)
      BY <1>3 DEF Sweeping, SweepFinds, SweepRemoves, directory
    <2> QED  BY <1>1, <1>2, <2>1, NoneLinkedSame DEF DirectoryInv
  <1>4. Pushing => UNCHANGED <<pc, at, job, row, region, peer>>
    BY DEF Pushing, ClientOpens, Push, PushDone, ClientDies, serving, directory
  <1>5. Tapping => UNCHANGED <<pc, at, job, row, region, peer>>
    BY DEF Tapping, CopyIn, Count, Window, CopyOut, Recheck, Draw, TapSteps, serving, directory
  <1>6. UNCHANGED vars => UNCHANGED <<pc, at, job, row, region, peer>>
    BY DEF vars, serving, directory
  <1> QED  BY <1>2, <1>3, <1>4, <1>5, <1>6, DirectoryServing, DirectoryClaiming, DirectoryMapping DEF Next

\* However the writers of a row are killed and replaced, whatever they install and
\* clear between a peer's loads, and however often the segment is made again at its
\* path: a peer maps the buffer whose shape it read, unless another segment has used
\* the name it maps by.
THEOREM WhatIsMapped == Spec => []MapsWhatItSays
  <1>1. ASSUME DirectoryInv PROVE MapsWhatItSays
    <2>1. ASSUME NEW g \in DOMAIN region, NEW t \in Servers PROVE region[g].made[t] <= 1
      <3>1. region[g].made[t] \in Nat
        BY <1>1 DEF DirectoryInv, DirectoryTypes, Region
      <3>2. CASE region[g].made[t] > 0
        BY <1>1, <3>2 DEF DirectoryInv, Regions, MadeBy
      <3> QED  BY <3>1, <3>2
    <2> QED  BY <1>1, <2>1 DEF DirectoryInv, Read, Shaped, MapsWhatItSays
  <1> QED  BY <1>1, ClaimInit, ClaimNext, DirectoryInit, DirectoryNext, PTL DEF Spec

-----------------------------------------------------------------------------
(* Places in a ring *)

LEMMA Division ==
    ASSUME NEW N \in Int, N > 0, NEW p \in Int
    PROVE  /\ p \div N \in Int /\ p % N \in 0 .. N - 1
           /\ p = (p \div N) * N + (p % N)
  <1>1. p = (p \div N) * N + (p % N)
    BY SMTT(60)
  <1> QED  BY <1>1

LEMMA Remainder ==
    ASSUME NEW N \in Int, N > 0, NEW k \in Int, NEW r \in 0 .. N - 1
    PROVE  (k * N + r) % N = r
  BY SMTT(60)

\* Two places a ring's length apart, or a few, are one cell; two closer are two cells.
LEMMA SameCell ==
    ASSUME NEW N \in Int, N > 0, NEW p \in Int, NEW k \in Int
    PROVE  (p + k * N) % N = p % N
  <1> DEFINE a == p \div N
             r == p % N
  <1>1. a \in Int /\ r \in 0 .. N - 1 /\ p = a * N + r
    BY Division
  <1> HIDE DEF a, r
  <1>2. p + k * N = (a + k) * N + r
    BY <1>1
  <1>3. ((a + k) * N + r) % N = r /\ (a * N + r) % N = r
    BY <1>1, Remainder
  <1> QED  BY <1>1, <1>2, <1>3

LEMMA Apart ==
    ASSUME NEW N \in Int, N > 0, NEW p \in Int, NEW q \in Int, p < q, p % N = q % N
    PROVE  q - p >= N
  <1> DEFINE a == p \div N
             b == q \div N
             r == p % N
  <1>1. a \in Int /\ b \in Int /\ r \in 0 .. N - 1 /\ p = a * N + r /\ q = b * N + r
    BY Division
  <1> HIDE DEF a, b, r
  <1>2. q - p = (b - a) * N
    BY <1>1
  <1>3. b - a > 0
    <2> SUFFICES ASSUME b - a <= 0 PROVE FALSE
      BY <1>1
    <2>1. (a - b) * N >= 0
      BY <1>1
    <2> QED  BY <2>1, <1>1, <1>2
  <1>4. (b - a) * N >= N
    BY <1>1, <1>3
  <1> QED  BY <1>2, <1>4

-----------------------------------------------------------------------------
(* The tap *)

\* How many samples have been copied in, counted or not.
Copied == tap.cursor + tap.copied

Samples == Nat \cup {None}
Readers == [pc : {"idle", "copy", "told"}, start : Nat, size : Nat, got : Seq(Samples), passed : Nat]
TapTypes ==
    /\ tap \in [cursor : Nat, copied : 0 .. TapBlock, cells : [0 .. TapFrames - 1 -> Samples]]
    /\ reader \in Readers

\* The ring holds the last TapFrames samples of the c copied in.
Cell(p) == p % TapFrames
Holds(cells, c) == \A p \in Nat : c - TapFrames <= p /\ p < c => cells[Cell(p)] = p
Fresh == Holds(tap.cells, Copied)

\* A sample read is the one meant, or the writer has copied over it by now; and the
\* window told is one the cursor had not passed by more than a ring.
Meant(r, i) == r.got[i] = r.start + i - 1
Lost(r, i, c) == r.pc = "copy" /\ r.start + i - 1 < c - TapFrames
Torn(r) == r.pc = "told" /\ r.passed > TapFrames - TapBlock
Reads(r, c) == \A i \in 1 .. Len(r.got) : Meant(r, i) \/ Lost(r, i, c) \/ Torn(r)
Within(r, cursor) ==
    /\ r.start + r.size <= cursor /\ Len(r.got) <= r.size
    /\ r.pc = "told" => Len(r.got) = r.size /\ r.passed <= TapFrames
Told == reader.pc # "idle" => Within(reader, tap.cursor) /\ Reads(reader, Copied)

TapInv == TapTypes /\ Fresh /\ Told

LEMMA Cells ==
    /\ \A p \in Nat : Cell(p) \in 0 .. TapFrames - 1
    /\ \A p, q \in Nat : p < q /\ q - p < TapFrames => Cell(p) # Cell(q)
  <1>1. TapFrames \in Int /\ TapFrames > 0
    BY SegmentAssumption DEF SegmentAssumption
  <1>2. ASSUME NEW p \in Nat PROVE Cell(p) \in 0 .. TapFrames - 1
    BY <1>1, Division DEF Cell
  <1>3. ASSUME NEW p \in Nat, NEW q \in Nat, p < q, q - p < TapFrames PROVE Cell(p) # Cell(q)
    BY <1>1, <1>3, Apart DEF Cell
  <1> QED  BY <1>2, <1>3

\* What is written at one cell, and what is appended to a window.
LEMMA Written ==
    ASSUME NEW D, NEW S, NEW f \in [D -> S], NEW d \in D, NEW v \in S
    PROVE  /\ [f EXCEPT ![d] = v] \in [D -> S]
           /\ [f EXCEPT ![d] = v][d] = v
           /\ \A e \in D : e # d => [f EXCEPT ![d] = v][e] = f[e]
  OBVIOUS

LEMMA Appended ==
    ASSUME NEW S, NEW q \in Seq(S), NEW v \in S
    PROVE  /\ Append(q, v) \in Seq(S) /\ Len(Append(q, v)) = Len(q) + 1
           /\ Append(q, v)[Len(q) + 1] = v
           /\ \A i \in 1 .. Len(q) : Append(q, v)[i] = q[i]
  OBVIOUS

LEMMA Copying ==
    ASSUME NEW start \in Nat, NEW size \in Nat, NEW got \in Seq(Samples), NEW passed \in Nat
    PROVE  [pc |-> "copy", start |-> start, size |-> size, got |-> got, passed |-> passed] \in Readers
  BY DEF Readers

\* A reader with one or two of its fields set.
LEMMA Fields ==
    ASSUME NEW r \in Readers, NEW x, NEW y, NEW z
    PROVE  /\ z = [r EXCEPT !.got = x]
                => z = [pc |-> r.pc, start |-> r.start, size |-> r.size, got |-> x, passed |-> r.passed]
           /\ z = [r EXCEPT !.pc = x, !.passed = y]
                => z = [pc |-> x, start |-> r.start, size |-> r.size, got |-> r.got, passed |-> y]
           /\ z = [r EXCEPT !.start = x, !.got = y]
                => z = [pc |-> r.pc, start |-> x, size |-> r.size, got |-> y, passed |-> r.passed]
           /\ z = [r EXCEPT !.pc = x]
                => z = [pc |-> x, start |-> r.start, size |-> r.size, got |-> r.got, passed |-> r.passed]
  BY DEF Readers

LEMMA ReadsOn ==
    ASSUME NEW r \in Readers, NEW c \in Nat, Reads(r, c)
    PROVE  Reads(r, c + 1)
  <1>1. r.start \in Nat /\ Len(r.got) \in Nat /\ TapFrames \in Nat
    BY SegmentAssumption DEF SegmentAssumption, Readers
  <1> QED  BY <1>1 DEF Reads, Lost

LEMMA NothingRead ==
    ASSUME NEW start \in Nat, NEW size \in Nat, NEW passed \in Nat, NEW c, NEW r,
           r = [pc |-> "copy", start |-> start, size |-> size, got |-> <<>>, passed |-> passed]
    PROVE  r \in Readers /\ Within(r, start + size) /\ Reads(r, c)
  BY DEF Readers, Within, Reads

\* One sample more is read: the one meant, or one the writer has gone past.
LEMMA OneRead ==
    ASSUME NEW r \in Readers, NEW cursor \in Nat, NEW c \in Nat, NEW x \in Samples,
           r.pc = "copy", Len(r.got) < r.size, Within(r, cursor), Reads(r, c),
           x = r.start + Len(r.got) \/ r.start + Len(r.got) < c - TapFrames,
           NEW q, q = Append(r.got, x), NEW more,
           more = [pc |-> "copy", start |-> r.start, size |-> r.size, got |-> q, passed |-> r.passed]
    PROVE  more \in Readers /\ Within(more, cursor) /\ Reads(more, c)
  <1> DEFINE n == Len(r.got)
  <1>1. r.start \in Nat /\ r.size \in Nat /\ n \in Nat /\ r.passed \in Nat /\ TapFrames \in Nat
    BY SegmentAssumption DEF SegmentAssumption, Readers
  <1>2. /\ q \in Seq(Samples) /\ Len(q) = n + 1 /\ q[n + 1] = x
        /\ \A i \in 1 .. n : q[i] = r.got[i]
    BY Appended DEF Readers
  <1>3. more.pc = "copy" /\ more.start = r.start /\ more.size = r.size /\ more.got = q
    OBVIOUS
  <1>4. more \in Readers
    BY <1>1, <1>2, Copying
  <1>5. Within(more, cursor)
    BY <1>1, <1>2, <1>3 DEF Within
  <1>6. ASSUME NEW i \in 1 .. n + 1 PROVE Meant(more, i) \/ Lost(more, i, c)
    <2>1. CASE i \in 1 .. n
      BY <1>2, <1>3, <2>1 DEF Reads, Meant, Lost, Torn
    <2>2. CASE i = n + 1
      BY <1>1, <1>2, <1>3, <2>2 DEF Meant, Lost
    <2> QED  BY <1>1, <2>1, <2>2
  <1> QED  BY <1>2, <1>3, <1>4, <1>5, <1>6 DEF Reads

\* The window is told: what was lost on the way shows in how far the cursor has come.
LEMMA AllRead ==
    ASSUME NEW r \in Readers, NEW cursor \in Nat, NEW c \in Nat, c <= cursor + TapBlock,
           r.pc = "copy", Len(r.got) = r.size, Within(r, cursor), Reads(r, c),
           cursor - r.start <= TapFrames,
           NEW passed, passed = cursor - r.start,
           NEW told, told = [r EXCEPT !.pc = "told", !.passed = passed]
    PROVE  told \in Readers /\ Within(told, cursor) /\ Reads(told, c)
  <1>1. /\ r.start \in Nat /\ r.size \in Nat /\ TapFrames \in Nat /\ TapBlock \in Nat
        /\ Len(r.got) \in Nat /\ r.got \in Seq(Samples)
    BY SegmentAssumption DEF SegmentAssumption, Readers
  <1>2. told = [pc |-> "told", start |-> r.start, size |-> r.size, got |-> r.got,
                passed |-> passed]
    BY DEF Readers
  <1>3. /\ told.pc = "told" /\ told.start = r.start /\ told.size = r.size /\ told.got = r.got
        /\ told.passed = passed
    BY <1>2
  <1>4. cursor - r.start \in Nat
    BY <1>1 DEF Within
  <1>5. told \in Readers
    BY <1>1, <1>2, <1>4 DEF Readers
  <1>6. Within(told, cursor)
    BY <1>1, <1>3 DEF Within
  <1>7. ASSUME NEW i \in 1 .. Len(r.got), Lost(r, i, c) PROVE Torn(told)
    BY <1>1, <1>3, <1>7 DEF Lost, Torn
  <1>8. ASSUME NEW i \in 1 .. Len(r.got), Meant(r, i) PROVE Meant(told, i)
    BY <1>3, <1>8 DEF Meant
  <1>9. ASSUME NEW i \in 1 .. Len(r.got) PROVE ~Torn(r)
    BY DEF Torn
  <1> QED  BY <1>3, <1>5, <1>6, <1>7, <1>8, <1>9 DEF Reads

LEMMA TapInit == Init => TapInv
  BY SegmentAssumption DEF SegmentAssumption, Init, TapInv, TapTypes, Readers, Samples, Fresh, Holds, Told, Copied

LEMMA TapNext == TapInv /\ [Next]_vars => TapInv'
  <1> SUFFICES ASSUME TapInv, [Next]_vars PROVE TapInv'
    OBVIOUS
  <1>0. /\ TapTypes /\ Fresh /\ Told
        /\ TapFrames \in Int /\ TapFrames > 0 /\ TapBlock \in Nat /\ TapBlock > 0
        /\ tap.cursor \in Nat /\ tap.copied \in 0 .. TapBlock /\ Copied \in Nat /\ Copied >= tap.cursor
        /\ tap.cells \in [0 .. TapFrames - 1 -> Samples] /\ Nat \subseteq Samples
        /\ reader.start \in Nat /\ reader.size \in Nat /\ reader.got \in Seq(Samples)
        /\ Len(reader.got) \in Nat /\ reader \in Readers
    BY SegmentAssumption, SMTT(30) DEF SegmentAssumption, TapInv, TapTypes, Readers, Copied, Samples
  <1>1. CASE CopyIn
    <2> DEFINE n == Copied
    <2>1. /\ n \in Nat /\ Cell(n) \in 0 .. TapFrames - 1
          /\ \A p \in Nat : Cell(p) \in 0 .. TapFrames - 1
      BY <1>0, Cells
    <2>2. tap.copied < TapBlock /\ reader' = reader
      BY <1>1 DEF CopyIn
    <2> DEFINE f == [tap.cells EXCEPT ![Cell(n)] = n]
    <2>3. tap' = [cursor |-> tap.cursor, copied |-> tap.copied + 1, cells |-> f]
      BY <1>0, <1>1 DEF CopyIn, TapTypes, Copied, Cell
    <2>4. n \in Samples
      BY <2>1 DEF Samples
    <2>5. /\ f \in [0 .. TapFrames - 1 -> Samples] /\ f[Cell(n)] = n
          /\ \A e \in 0 .. TapFrames - 1 : e # Cell(n) => f[e] = tap.cells[e]
      BY <1>0, <2>1, <2>4, Written
    <2> HIDE DEF f
    <2>6. /\ tap'.cursor = tap.cursor /\ tap'.copied = tap.copied + 1
          /\ tap'.cells = f
      BY <2>3
    <2>7. Copied' = n + 1
      BY <1>0, <2>6, SMTT(30) DEF Copied
    <2>8. TapTypes'
      <3>1. tap.copied + 1 \in 0 .. TapBlock
        BY <1>0, <2>2
      <3> QED  BY <1>0, <2>2, <2>3, <2>5, <3>1 DEF TapTypes
    <2> HIDE DEF n
    <2>9. ASSUME NEW p \in Nat, n + 1 - TapFrames <= p, p < n + 1
          PROVE  f[Cell(p)] = p
      <3>1. CASE p = n
        BY <3>1, <2>5
      <3>2. CASE p < n
        <4>1. Cell(p) # Cell(n)
          BY <1>0, <2>1, <2>9, <3>2, Cells
        <4>2. n = Copied /\ Copied - TapFrames <= p /\ p < Copied
          BY <1>0, <2>1, <2>9, <3>2 DEF n
        <4>3. tap.cells[Cell(p)] = p
          BY <1>0, <4>2 DEF Fresh, Holds
        <4> QED  BY <4>1, <4>3, <2>1, <2>5
      <3> QED  BY <3>1, <3>2, <2>1, <2>9
    <2>10. Fresh'
      <3>1. Holds(f, n + 1)
        BY <1>0, <2>1, <2>9 DEF Holds
      <3> QED  BY <2>6, <2>7, <3>1 DEF Fresh
    <2>11. Told'
      <3>1. Reads(reader, n) => Reads(reader, n + 1)
        BY <1>0, <2>1, ReadsOn
      <3>2. n = Copied
        BY DEF n
      <3> QED  BY <1>0, <2>2, <2>6, <2>7, <3>1, <3>2 DEF Told
    <2> QED  BY <2>8, <2>10, <2>11 DEF TapInv
  <1>2. CASE Count
    <2>1. tap.copied = TapBlock /\ reader' = reader
      BY <1>2 DEF Count
    <2>2. tap' = [cursor |-> tap.cursor + TapBlock, copied |-> 0, cells |-> tap.cells]
      BY <1>0, <1>2 DEF Count, TapTypes
    <2>3. /\ tap'.cursor = tap.cursor + TapBlock /\ tap'.copied = 0 /\ tap'.cells = tap.cells
      BY <2>2
    <2>4. Copied' = Copied
      BY <1>0, <2>1, <2>3 DEF Copied
    <2>5. TapTypes'
      BY <1>0, <2>1, <2>2 DEF TapTypes
    <2>6. Fresh'
      BY <1>0, <2>3, <2>4 DEF Fresh
    <2>7. Told'
      <3>1. Within(reader, tap.cursor) => Within(reader, tap.cursor + TapBlock)
        BY <1>0 DEF Within
      <3> QED  BY <1>0, <2>1, <2>3, <2>4, <3>1 DEF Told
    <2> QED  BY <2>5, <2>6, <2>7 DEF TapInv
  <1>3. ASSUME NEW n \in Windows, Window(n) PROVE TapInv'
    <2>1. n \in Nat
      BY SegmentAssumption DEF SegmentAssumption
    <2> DEFINE start == tap.cursor - n
               r == [pc |-> "copy", start |-> start, size |-> n, got |-> <<>>, passed |-> 0]
    <2>2. tap.cursor >= n /\ tap' = tap /\ reader' = r
      BY <1>3 DEF Window
    <2>3. start \in Nat /\ start + n = tap.cursor
      BY <1>0, <2>1, <2>2
    <2> HIDE DEF start
    <2>4. r \in Readers /\ Within(r, start + n) /\ Reads(r, Copied)
      BY <2>1, <2>3, NothingRead
    <2> HIDE DEF r
    <2> QED  BY <1>0, <2>2, <2>3, <2>4 DEF TapInv, TapTypes, Fresh, Told, Copied
  <1>4. CASE CopyOut
    <2> DEFINE p == reader.start + Len(reader.got)
               x == tap.cells[Cell(p)]
               r == [reader EXCEPT !.got = Append(reader.got, x)]
    <2>1. reader.pc = "copy" /\ Len(reader.got) < reader.size /\ tap' = tap /\ reader' = r
      BY <1>4 DEF CopyOut, Cell
    <2>2. Within(reader, tap.cursor) /\ Reads(reader, Copied)
      BY <1>0, <2>1 DEF Told
    <2>3. p \in Nat /\ Cell(p) \in 0 .. TapFrames - 1 /\ p < tap.cursor
      <3>1. p \in Nat /\ p < tap.cursor
        BY <1>0, <2>1, <2>2, SMTT(30) DEF Within
      <3> QED  BY <3>1, Cells
    <2>4. x \in Samples /\ (x = p \/ p < Copied - TapFrames)
      BY <1>0, <2>3 DEF Fresh, Holds
    <2> HIDE DEF x
    <2> DEFINE q == Append(reader.got, x)
    <2>5. r = [reader EXCEPT !.got = q]
      OBVIOUS
    <2>6. q = Append(reader.got, x)
      OBVIOUS
    <2> HIDE DEF r, q
    <2>7. r = [pc |-> "copy", start |-> reader.start, size |-> reader.size, got |-> q,
               passed |-> reader.passed]
      BY <1>0, <2>1, <2>5 DEF Readers
    <2>8. r \in Readers /\ Within(r, tap.cursor) /\ Reads(r, Copied)
      BY <1>0, <2>1, <2>2, <2>4, <2>6, <2>7, OneRead
    <2> QED  BY <1>0, <2>1, <2>8 DEF TapInv, TapTypes, Fresh, Told, Copied
  \* The block under way is at most TapBlock samples past the cursor asked.
  <1>5. CASE Recheck
    <2> DEFINE back == tap.cursor - reader.size
               passed == tap.cursor - reader.start
               again == [reader EXCEPT !.start = back, !.got = <<>>]
               told == [reader EXCEPT !.pc = "told", !.passed = passed]
    <2>1. /\ reader.pc = "copy" /\ Len(reader.got) = reader.size /\ tap' = tap
          /\ reader' = IF Overtaken(reader.start) THEN again ELSE told
      BY <1>5 DEF Recheck
    <2>2. back = tap.cursor - reader.size /\ passed = tap.cursor - reader.start
      OBVIOUS
    <2> HIDE DEF back, passed
    <2>3. /\ again = [reader EXCEPT !.start = back, !.got = <<>>]
          /\ told = [reader EXCEPT !.pc = "told", !.passed = passed]
      OBVIOUS
    <2> HIDE DEF again, told
    <2>4. Within(reader, tap.cursor) /\ Reads(reader, Copied)
      BY <1>0, <2>1 DEF Told
    <2>5. CASE Overtaken(reader.start)
      <3>1. again = [pc |-> "copy", start |-> back, size |-> reader.size,
                     got |-> <<>>, passed |-> reader.passed]
        BY <1>0, <2>1, <2>3 DEF Readers
      <3>2. reader.passed \in Nat /\ back \in Nat /\ tap.cursor = back + reader.size
        BY <1>0, <2>4, <2>2 DEF TapTypes, Readers, Within
      <3>3. again \in Readers /\ Within(again, tap.cursor) /\ Reads(again, Copied)
        BY <1>0, <3>1, <3>2, NothingRead
      <3> QED  BY <1>0, <2>1, <2>5, <3>3 DEF TapInv, TapTypes, Fresh, Told, Copied
    <2>6. CASE ~Overtaken(reader.start)
      <3>1. tap.cursor - reader.start <= TapFrames /\ Copied <= tap.cursor + TapBlock
        BY <1>0, <2>6 DEF Overtaken, Copied
      <3>2. told \in Readers /\ Within(told, tap.cursor) /\ Reads(told, Copied)
        BY <1>0, <2>1, <2>4, <2>2, <2>3, <3>1, AllRead
      <3> QED  BY <1>0, <2>1, <2>6, <3>2 DEF TapInv, TapTypes, Fresh, Told, Copied
    <2> QED  BY <2>5, <2>6
  <1>6. CASE Draw
    <2>1. tap' = tap /\ reader' = [reader EXCEPT !.pc = "idle"]
      BY <1>6 DEF Draw
    <2>2. reader' = [pc |-> "idle", start |-> reader.start, size |-> reader.size,
                     got |-> reader.got, passed |-> reader.passed]
      BY <1>0, <2>1, Fields
    <2>3. reader' \in Readers /\ reader'.pc = "idle"
      BY <1>0, <2>2 DEF Readers
    <2> QED  BY <1>0, <2>1, <2>3 DEF TapInv, TapTypes, Fresh, Told, Copied
  <1>7. ASSUME UNCHANGED tapping PROVE TapInv'
    BY <1>7 DEF tapping, TapInv, TapTypes, Fresh, Told, Copied
  <1>8. ASSUME NEW s \in Servers, Claiming(s) \/ Draining(s) \/ Sharing(s) PROVE UNCHANGED tapping
    BY <1>8 DEF Claiming, Draining, Sharing, Open, Load, Ask, Swap, Release, RemoveRegions, Remove, Kill, Pop, PopDone,
       Handle, Install, Shape, Publish, Create, CannotCreate, Replace, RetireUncreated, Clear, Unlink
  <1>9. Pushing \/ Mapping => UNCHANGED tapping
    BY DEF Pushing, ClientOpens, Push, PushDone, ClientDies, Mapping, PeerOpens, Look, LookShape, LookSame, OpenRegion,
       LookAgain, PeerSteps
  <1>10. Sweeping => UNCHANGED tapping
    BY DEF Sweeping, SweepFinds, SweepRemoves
  <1> QED  BY <1>1, <1>2, <1>3, <1>4, <1>5, <1>6, <1>7, <1>8, <1>9, <1>10 DEF Next, Tapping, vars

\* Whatever the sizes of ring, block and window, and wherever the writer comes round, a
\* window told is whole but where the block then under way falls on its first samples.
THEOREM WindowsAreWhole == Spec => []WindowIsWhole
  <1>1. ASSUME TapInv, reader.pc = "told", ~(reader.passed > TapFrames - TapBlock)
        PROVE  \A i \in 1 .. reader.size : reader.got[i] = reader.start + i - 1
    BY <1>1 DEF TapInv, Told, Within, Reads, Meant, Lost, Torn
  <1>2. ASSUME TapInv, reader.pc = "told", reader.passed > TapFrames - TapBlock
        PROVE  reader.passed \in TapFrames - TapBlock + 1 .. TapFrames
    BY <1>2, SegmentAssumption DEF SegmentAssumption, TapInv, TapTypes, Readers, Told, Within
  <1>3. TapInv => WindowIsWhole
    BY <1>1, <1>2 DEF WindowIsWhole
  <1> QED  BY <1>3, TapInit, TapNext, PTL DEF Spec

-----------------------------------------------------------------------------
(* The packets *)

Word == [id : Nat, word : Nat, words : Nat]
WordOf(id, j, n) == [id |-> id, word |-> j, words |-> n]

\* Word i of the u words of q lies in a packet that is there whole.
Whole(q, u, i) ==
    LET n == q[i].words
        p == i - q[i].word
    IN  /\ q[i] \in Word /\ q[i].word >= 1 /\ q[i].word <= HeaderWords + n
        /\ p >= 0 /\ p + HeaderWords + n <= u
        /\ \A j \in 1 .. HeaderWords + n : q[p + j] = WordOf(q[i].id, j, n)

\* The u words of q are those of the packets from first up to next, in order.
Packed(q, u, first, next) ==
    /\ \A i \in 1 .. u : Whole(q, u, i)
    /\ \A i \in 2 .. u : q[i].word = 1 => q[i].id = q[i - 1].id + 1
    /\ IF u = 0 THEN first = next ELSE q[1].id = first /\ q[u].id + 1 = next

LEMMA WordFields ==
    ASSUME NEW w \in Word
    PROVE  w.id \in Nat /\ w.word \in Nat /\ w.words \in Nat /\ w = WordOf(w.id, w.word, w.words)
  BY DEF WordOf, Word

\* A packet is put behind the others.
LEMMA PackedPush ==
    ASSUME NEW u \in Nat, NEW first \in Nat, NEW next \in Nat, NEW n \in Nat,
           NEW q, NEW r, Packed(q, u, first, next),
           \A i \in 1 .. u : r[i] = q[i],
           \A j \in 1 .. HeaderWords + n : r[u + j] = WordOf(next, j, n)
    PROVE  Packed(r, u + HeaderWords + n, first, next + 1)
  <1> DEFINE v == u + HeaderWords + n
  <1>1. HeaderWords = 2 /\ v \in Nat /\ v = u + 2 + n
    BY DEF HeaderWords
  <1> HIDE DEF v
  <1>2. ASSUME NEW j \in 1 .. 2 + n
        PROVE  /\ r[u + j] = WordOf(next, j, n) /\ r[u + j] \in Word
               /\ r[u + j].id = next /\ r[u + j].word = j /\ r[u + j].words = n
    BY <1>1 DEF WordOf, Word
  <1>3. ASSUME NEW i \in 1 .. u PROVE Whole(r, v, i)
    <2>1. Whole(q, u, i) /\ r[i] = q[i]
      BY DEF Packed
    <2>2. q[i].words \in Nat /\ q[i].word \in Nat
      BY <2>1, WordFields DEF Whole
    <2>3. \A j \in 1 .. 2 + q[i].words : i - q[i].word + j \in 1 .. u
      BY <1>1, <2>1, <2>2 DEF Whole
    <2> QED  BY <1>1, <2>1, <2>2, <2>3 DEF Whole
  <1>4. ASSUME NEW j \in 1 .. 2 + n PROVE Whole(r, v, u + j)
    <2>1. u + j - r[u + j].word = u
      BY <1>2
    <2> QED  BY <1>1, <1>2, <2>1 DEF Whole
  <1>5. \A i \in 1 .. v : i \in 1 .. u \/ (i - u \in 1 .. 2 + n /\ i = u + (i - u))
    BY <1>1
  <1>6. \A i \in 1 .. v : Whole(r, v, i)
    BY <1>3, <1>4, <1>5
  <1>7. ASSUME NEW i \in 2 .. v, r[i].word = 1 PROVE r[i].id = r[i - 1].id + 1
    <2>1. CASE i \in 1 .. u
      <3>1. i \in 2 .. u /\ i - 1 \in 1 .. u
        BY <2>1
      <3> QED  BY <1>7, <3>1 DEF Packed
    <2>2. CASE i - u \in 1 .. 2 + n /\ i = u + (i - u)
      <3>1. i - u = 1 /\ r[i].id = next
        <4>1. r[u + (i - u)].word = i - u /\ r[u + (i - u)].id = next
          BY <1>2, <2>2
        <4> QED  BY <1>7, <2>2, <4>1
      <3>2. u \in 1 .. u /\ i - 1 = u
        BY <3>1
      <3>3. r[u] = q[u] /\ q[u].id + 1 = next
        BY <3>2 DEF Packed
      <3> QED  BY <3>1, <3>2, <3>3
    <2> QED  BY <1>5, <2>1, <2>2
  <1>8. r[1].id = first /\ r[v].id + 1 = next + 1 /\ v # 0
    <2>1. 2 + n \in 1 .. 2 + n /\ v = u + (2 + n)
      BY <1>1
    <2>2. r[v].id = next
      BY <1>2, <2>1
    <2>3. CASE u = 0
      <3>1. 1 \in 1 .. 2 + n /\ u + 1 = 1 /\ first = next
        BY <2>3 DEF Packed
      <3> QED  BY <1>1, <1>2, <2>2, <3>1
    <2>4. CASE u # 0
      <3>1. 1 \in 1 .. u /\ q[1].id = first
        BY <2>4 DEF Packed
      <3> QED  BY <1>1, <2>2, <3>1
    <2> QED  BY <2>3, <2>4
  <1>9. Packed(r, v, first, next + 1)
    BY <1>6, <1>7, <1>8 DEF Packed
  <1> QED  BY <1>9 DEF v

\* The first packet is there from its first word to its last.
LEMMA PackedFirst ==
    ASSUME NEW u \in Nat, u # 0, NEW first \in Nat, NEW next \in Nat, NEW q,
           Packed(q, u, first, next)
    PROVE  /\ q[1] \in Word /\ q[1].word = 1 /\ q[1].id = first /\ q[1].words \in Nat
           /\ HeaderWords + q[1].words <= u
           /\ \A j \in 1 .. HeaderWords + q[1].words : q[j] = WordOf(first, j, q[1].words)
  <1>1. 1 \in 1 .. u
    OBVIOUS
  <1>2. Whole(q, u, 1) /\ q[1].id = first
    BY <1>1 DEF Packed
  <1>3. q[1].words \in Nat /\ q[1].word \in Nat /\ q[1] \in Word
    BY <1>2, WordFields DEF Whole
  <1>4. q[1].word = 1
    BY <1>2, <1>3 DEF Whole
  <1> QED  BY <1>2, <1>3, <1>4 DEF Whole, HeaderWords

\* Without it the others are as they were.
LEMMA PackedPop ==
    ASSUME NEW u \in Nat, u # 0, NEW first \in Nat, NEW next \in Nat, NEW q, NEW r, NEW m \in Nat,
           Packed(q, u, first, next), m = HeaderWords + q[1].words,
           \A i \in 1 .. u - m : r[i] = q[m + i]
    PROVE  Packed(r, u - m, first + 1, next)
  <1>1. /\ q[1].word = 1 /\ q[1].id = first /\ q[1].words \in Nat
        /\ m <= u /\ HeaderWords = 2 /\ m = 2 + q[1].words
        /\ \A j \in 1 .. m : q[j] = WordOf(first, j, q[1].words)
    BY PackedFirst DEF HeaderWords
  <1>2. ASSUME NEW j \in 1 .. m PROVE q[j].id = first /\ q[j].word = j /\ q[j].words = q[1].words
    <2>1. q[j] = WordOf(first, j, q[1].words)
      BY <1>1
    <2> QED  BY <2>1 DEF WordOf
  <1>3. ASSUME NEW i \in 1 .. u - m
        PROVE  Whole(r, u - m, i)
    <2>1. m + i \in 1 .. u /\ r[i] = q[m + i] /\ Whole(q, u, m + i)
      BY <1>1 DEF Packed
    <2>2. PICK n \in Nat, w \in Nat, p \in Int :
            n = q[m + i].words /\ w = q[m + i].word /\ p = m + i - w
      BY <2>1, WordFields DEF Whole
    <2>3. /\ q[m + i] \in Word /\ w >= 1 /\ w <= 2 + n /\ p >= 0 /\ p + 2 + n <= u
          /\ \A j \in 1 .. 2 + n : q[p + j] = WordOf(q[m + i].id, j, n)
      <3>1. HeaderWords = 2
        BY <1>1
      <3>2. /\ q[m + i] \in Word /\ w >= 1 /\ w <= HeaderWords + n
            /\ p >= 0 /\ p + HeaderWords + n <= u
        BY <2>1, <2>2 DEF Whole
      <3>3. \A j \in 1 .. HeaderWords + n : q[p + j] = WordOf(q[m + i].id, j, n)
        BY <2>1, <2>2 DEF Whole
      <3> QED  BY <3>1, <3>2, <3>3
    <2>4. p >= m
      <3> SUFFICES ASSUME p < m PROVE FALSE
        BY <1>1, <2>2
      <3>1. p + 1 \in 1 .. m /\ 1 \in 1 .. 2 + n
        BY <1>1, <2>2, <2>3, SMTT(30)
      <3>2. q[m + i].id \in Nat
        BY <2>3, WordFields
      <3>3. q[p + 1].word = 1 /\ q[p + 1].words = n
        <4>1. q[p + 1] = WordOf(q[m + i].id, 1, n)
          BY <2>3, <3>1
        <4> QED  BY <4>1 DEF WordOf
      <3>4. p + 1 = 1 /\ n = q[1].words
        BY <1>2, <3>1, <3>3
      <3> QED  BY <1>1, <2>2, <2>3, <3>4, SMTT(30)
    <2>5. ASSUME NEW j \in 1 .. 2 + n PROVE r[p - m + j] = WordOf(q[m + i].id, j, n)
      <3>1. p - m + j \in 1 .. u - m /\ m + (p - m + j) = p + j
        BY <1>1, <2>2, <2>3, <2>4, SMTT(30)
      <3> QED  BY <2>3, <3>1
    <2>6. i - w = p - m /\ p - m >= 0 /\ p - m + 2 + n <= u - m
      BY <1>1, <2>2, <2>3, <2>4, SMTT(30)
    <2> QED  BY <1>1, <2>1, <2>2, <2>3, <2>5, <2>6, ZenonT(30) DEF Whole
  <1>4. ASSUME NEW i \in 2 .. u - m, r[i].word = 1 PROVE r[i].id = r[i - 1].id + 1
    <2>1. m + i \in 2 .. u /\ i \in 1 .. u - m /\ i - 1 \in 1 .. u - m /\ m + (i - 1) = (m + i) - 1
      BY <1>1
    <2> QED  BY <1>4, <2>1 DEF Packed
  <1>5. CASE u - m = 0
    <2>1. m \in 1 .. m /\ q[u].id + 1 = next /\ u = m
      BY <1>1, <1>5 DEF Packed
    <2> QED  BY <1>2, <1>3, <1>4, <1>5, <2>1 DEF Packed
  <1>6. CASE u - m # 0
    <2>1. 1 \in 1 .. u - m /\ u - m \in 1 .. u - m /\ m + (u - m) = u /\ m + 1 \in 2 .. u /\ m \in 1 .. m
          /\ (m + 1) - 1 = m
      BY <1>1, <1>6
    <2>2. q[u].id + 1 = next /\ r[u - m] = q[u] /\ r[1] = q[m + 1]
      BY <2>1 DEF Packed
    <2>3. r[1].word = 1
      <3>1. Whole(r, u - m, 1)
        BY <1>3, <2>1
      <3>2. r[1].word \in Nat
        BY <3>1, WordFields DEF Whole
      <3> QED  BY <3>1, <3>2 DEF Whole
    <2>4. r[1].id = q[m].id + 1
      BY <2>1, <2>2, <2>3 DEF Packed
    <2>5. r[1].id = first + 1
      BY <1>2, <2>1, <2>4
    <2> QED  BY <1>3, <1>4, <1>6, <2>2, <2>5 DEF Packed
  <1> QED  BY <1>5, <1>6

\* A set of naturals has a least member.
LEMMA SmallestOf ==
    ASSUME NEW S \in SUBSET Nat, S # {}
    PROVE  \E n \in S : \A m \in S : n <= m
  <1>1. PICK n \in S : \A m \in S : ~(<<m, n>> \in OpToRel(<, Nat))
    BY NatLessThanWellFounded, WFMin, Zenon
  <1>2. ASSUME NEW m \in S PROVE n <= m
    <2>1. n \in Nat /\ m \in Nat /\ <<m, n>> \in Nat \X Nat
      BY <1>1
    <2>2. ~(m < n)
      BY <1>1, <2>1 DEF OpToRel
    <2> QED
      BY <2>1, <2>2
  <1> QED
    BY <1>2

\* No packet is missing among them.
LEMMA PackedAll ==
    ASSUME NEW u \in Nat, NEW first \in Nat, NEW next \in Nat, NEW q, Packed(q, u, first, next),
           NEW x \in Nat, x >= first, x < next
    PROVE  \E i \in 1 .. u : q[i].id = x
  <1> DEFINE S == {i \in 1 .. u : q[i].id >= x}
  <1>1. u # 0 /\ q[1].id = first /\ q[u].id + 1 = next
    BY DEF Packed
  <1>2. \A i \in 1 .. u : q[i].id \in Nat /\ q[i].word \in Nat /\ q[i].words \in Nat
    BY WordFields DEF Packed, Whole
  <1>3. u \in S
    BY <1>1, <1>2
  <1>4. PICK i \in S : \A j \in S : i <= j
    <2>1. S \in SUBSET Nat /\ S # {}
      BY <1>3
    <2> HIDE DEF S
    <2> QED  BY <2>1, SmallestOf
  <1>5. i \in 1 .. u /\ q[i].id >= x
    OBVIOUS
  <1>6. CASE i = 1
    BY <1>1, <1>2, <1>5, <1>6
  <1>7. CASE i # 1
    <2>1. i \in 2 .. u /\ i - 1 \in 1 .. u /\ i - 1 \notin S
      BY <1>4, <1>5, <1>7
    <2>2. q[i - 1].id < x /\ q[i - 1].id \in Nat
      BY <1>2, <2>1
    <2>3. q[i].word # 1 => q[i].id = q[i - 1].id
      <3> SUFFICES ASSUME q[i].word # 1 PROVE q[i].id = q[i - 1].id
        OBVIOUS
      <3>1. Whole(q, u, i)
        BY <1>5 DEF Packed
      <3>2. q[i].word - 1 \in 1 .. HeaderWords + q[i].words /\ i - q[i].word + (q[i].word - 1) = i - 1
            /\ q[i].word - 1 \in Nat
        BY <1>2, <1>5, <3>1 DEF Whole, HeaderWords
      <3>3. q[i - 1] = WordOf(q[i].id, q[i].word - 1, q[i].words)
        BY <3>1, <3>2 DEF Whole
      <3> QED  BY <1>2, <1>5, <3>2, <3>3 DEF WordOf, Word
    <2>4. q[i].word = 1 => q[i].id = q[i - 1].id + 1
      BY <2>1 DEF Packed
    <2> QED  BY <1>2, <1>5, <2>2, <2>3, <2>4
  <1> QED  BY <1>6, <1>7

-----------------------------------------------------------------------------
(* The ring *)

Place(p) == p % Cap

RingTypes ==
    /\ ring \in [head : 0 .. Cursors - 1, tail : 0 .. Cursors - 1,
                 cells : [0 .. Cap - 1 -> Word \cup {None}]]
    /\ client \in [pc : {"idle", "written"}, next : Nat \ {0}, words : Nat]

\* What a server reads from the tail on, and the packet it comes to first: the next
\* there will be, if none waits.
Line == [i \in 1 .. Cap |-> At(i)]
First == IF Used = 0 THEN client.next ELSE Line[1].id

\* The packets that wait are whole and in order; what a client has written and not
\* yet counted lies behind them.
Queue ==
    /\ Used <= Cap
    /\ Packed(Line, Used, First, client.next)
    /\ client.pc = "written" =>
         /\ Used + HeaderWords + client.words <= Cap
         /\ \A j \in 1 .. HeaderWords + client.words :
                Line[Used + j] = WordOf(client.next, j, client.words)

\* A server between reading a packet and handling it has it in hand; one that was
\* killed there keeps it for good.
Holding(s) == job[s] # None /\ "read" \in DOMAIN job[s]
Popped == [read : Seq(Word), tail : Nat]
HasRead(s, id, n) == job[s].read = Words(id, n)
Above(id) == \A i \in DOMAIN handled : Id(handled[i]) < id

Hands(s) ==
    /\ pc[s] = "popped" =>
         /\ Used > 0 /\ job[s].tail = ring.tail
         /\ job[s] \in Popped /\ HasRead(s, First, Line[1].words)
    /\ pc[s] = "handling" =>
         /\ job[s] \in Popped
         /\ \E id, n \in Nat : id < First /\ Above(id) /\ HasRead(s, id, n)
    /\ pc[s] \notin {"popped", "handling", "gone"} => ~Holding(s)

\* What was handled are packets that waited before those that wait now, in order.
Done ==
    /\ handled \in Seq(Seq(Word))
    /\ \A i \in DOMAIN handled : \E n \in Nat : handled[i] = Words(Id(handled[i]), n)
    /\ \A i, k \in DOMAIN handled : i < k => Id(handled[i]) < Id(handled[k])
    /\ Above(First)

Reached(x) ==
    \/ \E s \in Servers : Holding(s) /\ Id(job[s].read) = x
    \/ \E i \in DOMAIN handled : Id(handled[i]) = x
NoneLost == \A x \in Nat : 1 <= x /\ x < First => Reached(x)

RingInv ==
    /\ RingTypes /\ Queue /\ Done /\ NoneLost
    /\ DOMAIN job = Servers
    /\ \A s \in Servers : Hands(s)

-----------------------------------------------------------------------------
(* Cursors *)

\* A turn more or less of the divisor goes unseen, in the number and in what is added
\* to it or taken from it.
LEMMA Small ==
    ASSUME NEW N \in Int, N > 0, NEW x \in 0 .. N - 1
    PROVE  x % N = x
  <1>1. (0 * N + x) % N = x
    BY Remainder
  <1> QED  BY <1>1

LEMMA Turning ==
    ASSUME NEW N \in Int, N > 0, NEW x \in Int, NEW y \in Int
    PROVE  /\ ((x % N) + y) % N = (x + y) % N
           /\ (x - (y % N)) % N = (x - y) % N
  <1>1. PICK j \in Int, r \in Int : r = x % N /\ x = j * N + r
    BY Division
  <1>2. PICK k \in Int, q \in Int : q = y % N /\ y = k * N + q
    BY Division
  <1>3. (r + y + j * N) % N = (r + y) % N /\ r + y + j * N = x + y
    <2>1. r + y \in Int /\ r + y + j * N = x + y
      BY <1>1
    <2>2. (r + y + j * N) % N = (r + y) % N
      BY <1>1, <2>1, SameCell, Zenon
    <2> QED  BY <2>1, <2>2
  <1>4. (x - y + k * N) % N = (x - y) % N /\ x - y + k * N = x - q
    <2>1. x - y \in Int /\ x - y + k * N = x - q
      BY <1>2
    <2>2. (x - y + k * N) % N = (x - y) % N
      BY <1>2, <2>1, SameCell, Zenon
    <2> QED  BY <2>1, <2>2
  <1> QED  BY <1>1, <1>2, <1>3, <1>4

\* A cursor that starts again at zero is at the start of the ring: what it counts up to
\* is a number of rings.
LEMMA Rings ==
    /\ Cap \in Int /\ Cap > 0 /\ Cursors \in Int /\ Cursors > Cap
    /\ \A p \in Int : Place(p) \in 0 .. Cap - 1 /\ p % Cursors \in 0 .. Cursors - 1
    /\ \A p, x \in Int : Place((p % Cursors) + x) = Place(p + x)
    /\ \A p, q \in Int : p < q /\ q - p < Cap => Place(p) # Place(q)
  <1>1. Cap \in Int /\ Cap > 0 /\ Cursors \in Int /\ Cursors > Cap /\ Cursors % Cap = 0
    BY SegmentAssumption DEF SegmentAssumption
  <1>2. PICK c \in Int : Cursors = c * Cap
    BY <1>1, Division
  <1>3. ASSUME NEW p \in Int PROVE Place(p) \in 0 .. Cap - 1 /\ p % Cursors \in 0 .. Cursors - 1
    BY <1>1, Division DEF Place
  <1>4. ASSUME NEW p \in Int, NEW x \in Int PROVE Place((p % Cursors) + x) = Place(p + x)
    <2>1. PICK k \in Int, r \in Int : r = p % Cursors /\ p = k * Cursors + r
      BY <1>1, Division
    <2>2. (k * c) \in Int /\ k * Cursors = (k * c) * Cap
      BY <1>1, <1>2, <2>1
    <2>3. r + x + (k * c) * Cap = p + x
      BY <1>1, <2>1, <2>2
    <2>4. (r + x + (k * c) * Cap) % Cap = (r + x) % Cap
      <3>1. r + x \in Int
        BY <2>1
      <3> QED  BY <1>1, <2>2, <3>1, SameCell, Zenon
    <2> QED  BY <2>1, <2>3, <2>4 DEF Place
  <1>5. ASSUME NEW p \in Int, NEW q \in Int, p < q, q - p < Cap PROVE Place(p) # Place(q)
    BY <1>1, <1>5, Apart DEF Place
  <1> QED  BY <1>1, <1>3, <1>4, <1>5

\* Of u words waiting from the tail t on, the head h is the place behind the last.
Spaced(h, t, u) == u = (h - t) % Cursors

LEMMA Ends ==
    ASSUME NEW h \in Int, NEW t \in Int, NEW u \in Int, Spaced(h, t, u),
           NEW p \in Int, NEW q \in Int, q - p = t + u - h
    PROVE  Place(p) = Place(q)
  <1>1. PICK d \in Int, x \in Int : d = h - t /\ x = p - d
    OBVIOUS
  <1>2. Place((d % Cursors) + x) = Place(d + x)
    BY Rings, Zenon
  <1>3. d % Cursors = u
    BY <1>1 DEF Spaced
  <1>4. u + x = q /\ d + x = p
    BY <1>1
  <1> QED  BY <1>2, <1>3, <1>4

\* A cell of the ring is that many from the head on.
LEMMA FromHead ==
    ASSUME NEW h \in Int
    PROVE  /\ \A a \in 0 .. Cap - 1 : (a - h) % Cap \in 0 .. Cap - 1 /\ a = Place(h + ((a - h) % Cap))
           /\ \A x \in 0 .. Cap - 1 : (Place(h + x) - h) % Cap = x
  <1>1. Cap \in Int /\ Cap > 0
    BY Rings
  <1>2. ASSUME NEW a \in 0 .. Cap - 1
        PROVE  (a - h) % Cap \in 0 .. Cap - 1 /\ a = Place(h + ((a - h) % Cap))
    <2>1. (a - h) % Cap \in 0 .. Cap - 1
      BY <1>1, Division
    <2>2. (((a - h) % Cap) + h) % Cap = ((a - h) + h) % Cap
      <3>1. a - h \in Int
        BY <1>1
      <3> QED  BY <1>1, <3>1, Turning, Zenon
    <2>3. ((a - h) % Cap) + h = h + ((a - h) % Cap) /\ (a - h) + h = a
      BY <2>1
    <2>4. a % Cap = a
      BY <1>1, Small
    <2> QED  BY <2>1, <2>2, <2>3, <2>4 DEF Place
  <1>3. ASSUME NEW x \in 0 .. Cap - 1 PROVE (Place(h + x) - h) % Cap = x
    <2>1. (((h + x) % Cap) + (0 - h)) % Cap = ((h + x) + (0 - h)) % Cap
      <3>1. h + x \in Int /\ 0 - h \in Int
        BY <1>1
      <3> QED  BY <1>1, <3>1, Turning, Zenon
    <2>2. (h + x) + (0 - h) = x /\ (h + x) % Cap \in Int
      BY <1>1, Division
    <2>3. ((h + x) % Cap) + (0 - h) = ((h + x) % Cap) - h
      BY <2>2
    <2>4. x % Cap = x
      BY <1>1, Small
    <2> QED  BY <2>1, <2>2, <2>3, <2>4 DEF Place
  <1> QED  BY <1>2, <1>3

\* Moving the head on by m adds m words, moving the tail takes them away.
LEMMA Moved ==
    ASSUME NEW h \in Int, NEW t \in Int, NEW u \in Int, Spaced(h, t, u),
           NEW v \in 0 .. Cap, NEW c
    PROVE  /\ c = (h + (v - u)) % Cursors => Spaced(c, t, v)
           /\ c = (t + (u - v)) % Cursors => Spaced(h, c, v)
  <1>1. PICK N \in Int : N = Cursors
    BY Rings
  <1>0. N > 0
    BY <1>1, Rings
  <1>2. u = (h - t) % N /\ v \in Int
    BY <1>1, Rings DEF Spaced
  <1>3. v % N = v
    <2>1. v \in 0 .. N - 1
      BY <1>1, Rings
    <2> QED  BY <1>0, <1>2, <2>1, Small
  <1>4. PICK m \in Int, d \in Int, e \in Int, f \in Int, g \in Int :
          m = v - u /\ d = h - t /\ e = h + m /\ f = 0 - t /\ g = t - m
    BY <1>2
  <1>5. (d + m) % N = v
    <2>1. ((d % N) + m) % N = (d + m) % N
      BY <1>0, Turning, ZenonT(40)
    <2>2. (d % N) + m = v
      BY <1>2, <1>4
    <2> QED  BY <1>3, <2>1, <2>2
  <1>6. ((e % N) - t) % N = v
    <2>1. ((e % N) + f) % N = (e + f) % N
      BY <1>0, Turning, ZenonT(40)
    <2>2. e % N \in Int
      BY <1>0, Division
    <2>3. (e % N) + f = (e % N) - t /\ e + f = d + m
      BY <1>4, <2>2
    <2> QED  BY <1>5, <2>1, <2>3
  <1>7. (h - (g % N)) % N = v
    <2>1. (h - (g % N)) % N = (h - g) % N
      BY <1>0, Turning, ZenonT(40)
    <2>2. h - g = d + m
      BY <1>4
    <2> QED  BY <1>5, <2>1, <2>2
  <1>8. e = h + (v - u) /\ g = t + (u - v)
    BY <1>2, <1>4
  <1>9. v = ((e % N) - t) % N /\ v = (h - (g % N)) % N
    BY <1>6, <1>7
  <1>10. e % N = (h + (v - u)) % Cursors /\ g % N = (t + (u - v)) % Cursors
    BY <1>1, <1>8
  <1>11. c = e % N => v = (c - t) % Cursors
    BY <1>1, <1>9
  <1>12. c = g % N => v = (h - c) % Cursors
    BY <1>1, <1>9
  <1> QED  BY <1>10, <1>11, <1>12 DEF Spaced

-----------------------------------------------------------------------------
(* The packets on their way *)

LEMMA WordsAre ==
    ASSUME NEW id \in Nat, NEW n \in Nat
    PROVE  /\ Words(id, n) \in Seq(Word) /\ Len(Words(id, n)) = HeaderWords + n
           /\ Id(Words(id, n)) = id
           /\ \A i \in 1 .. HeaderWords + n : Words(id, n)[i] = WordOf(id, i, n)
  <1>1. HeaderWords + n \in Nat /\ 1 \in 1 .. HeaderWords + n
    BY DEF HeaderWords
  <1>2. \A i \in 1 .. HeaderWords + n :
            Words(id, n)[i] = WordOf(id, i, n) /\ WordOf(id, i, n) \in Word
    BY <1>1 DEF Words, WordOf, Word
  <1>3. Words(id, n) \in [1 .. HeaderWords + n -> Word]
    BY <1>1, <1>2 DEF Words
  <1>4. Words(id, n) \in Seq(Word) /\ Len(Words(id, n)) = HeaderWords + n
    BY <1>1, <1>3
  <1>5. Id(Words(id, n)) = id
    <2>1. Words(id, n)[1] = WordOf(id, 1, n)
      BY <1>1, <1>2
    <2> QED  BY <2>1 DEF Id, WordOf
  <1> QED  BY <1>2, <1>4, <1>5

\* Only the words that wait matter.
LEMMA PackedSame ==
    ASSUME NEW u \in Nat, NEW first \in Nat, NEW next \in Nat, NEW q, NEW r,
           Packed(q, u, first, next), \A i \in 1 .. u : r[i] = q[i]
    PROVE  Packed(r, u, first, next)
  <1>1. ASSUME NEW i \in 1 .. u PROVE Whole(r, u, i)
    <2>1. Whole(q, u, i) /\ r[i] = q[i]
      BY DEF Packed
    <2>2. q[i].words \in Nat /\ q[i].word \in Nat
      BY <2>1, WordFields DEF Whole
    <2>3. \A j \in 1 .. HeaderWords + q[i].words : i - q[i].word + j \in 1 .. u
      BY <2>1, <2>2 DEF Whole, HeaderWords
    <2> QED  BY <2>1, <2>2, <2>3 DEF Whole
  <1>2. u # 0 => 1 \in 1 .. u /\ u \in 1 .. u
    OBVIOUS
  <1>3. \A i \in 2 .. u : i \in 1 .. u /\ i - 1 \in 1 .. u
    OBVIOUS
  <1> QED  BY <1>1, <1>2, <1>3 DEF Packed

LEMMA QueueTypes ==
    ASSUME RingTypes, Queue
    PROVE  /\ Used \in 0 .. Cap /\ Used \in Nat /\ First \in Nat /\ client.next \in Nat /\ client.words \in Nat
           /\ ring.head \in Int /\ ring.tail \in Int /\ Cap \in Nat /\ HeaderWords = 2
           /\ \A i \in 1 .. Cap : Line[i] = ring.cells[Place(ring.tail + i - 1)]
           /\ Used > 0 => /\ Line[1] \in Word /\ Line[1].word = 1 /\ Line[1].id = First
                          /\ Line[1].words \in Nat /\ HeaderWords + Line[1].words <= Used
                          /\ \A j \in 1 .. HeaderWords + Line[1].words :
                                 Line[j] = WordOf(First, j, Line[1].words)
  <1>1. ring.head \in Int /\ ring.tail \in Int /\ client.next \in Nat /\ client.words \in Nat
    BY Rings DEF RingTypes
  <1>2. Cap \in Nat /\ HeaderWords = 2
    BY Rings DEF HeaderWords
  <1>3. Used \in 0 .. Cap /\ Used \in Nat
    <2>1. ring.head - ring.tail \in Int
      BY <1>1
    <2>2. Used \in 0 .. Cursors - 1
      BY <2>1, Rings DEF Used
    <2> QED  BY <1>2, <2>2, Rings DEF Queue
  <1>4. \A i \in 1 .. Cap : Line[i] = ring.cells[Place(ring.tail + i - 1)]
    BY DEF Line, At, Place
  <1>5. Packed(Line, Used, First, client.next)
    BY DEF Queue
  <1>6. First \in Nat
    <2>1. CASE Used = 0
      BY <1>1, <2>1 DEF First
    <2>2. CASE Used # 0
      <3>1. 1 \in 1 .. Used
        BY <1>3, <2>2
      <3>2. Line[1] \in Word
        BY <1>5, <3>1 DEF Packed, Whole
      <3> QED  BY <2>2, <3>2, WordFields DEF First
    <2> QED  BY <2>1, <2>2
  <1>7. ASSUME Used > 0
        PROVE  /\ Line[1] \in Word /\ Line[1].word = 1 /\ Line[1].id = First
               /\ Line[1].words \in Nat /\ HeaderWords + Line[1].words <= Used
               /\ \A j \in 1 .. HeaderWords + Line[1].words :
                      Line[j] = WordOf(First, j, Line[1].words)
    <2>1. Used # 0
      BY <1>3, <1>7
    <2> QED  BY <1>1, <1>3, <1>5, <1>6, <2>1, PackedFirst
  <1> QED  BY <1>1, <1>2, <1>3, <1>4, <1>6, <1>7

LEMMA RingInit == Init => RingInv
  <1> SUFFICES ASSUME Init PROVE RingInv
    OBVIOUS
  <1>1. Cap \in Nat /\ Cursors \in Nat /\ Cap > 0 /\ Cursors > 0
    BY SegmentAssumption DEF SegmentAssumption
  <1>2. ring = [head |-> 0, tail |-> 0, cells |-> [a \in 0 .. Cap - 1 |-> None]]
        /\ client = [pc |-> "idle", next |-> 1, words |-> 0] /\ handled = <<>>
    BY DEF Init
  <1>3. RingTypes
    BY <1>1, <1>2 DEF RingTypes
  <1>4. Used = 0 /\ First = 1
    <2>1. 0 % Cursors = 0
      BY <1>1, Small
    <2> QED  BY <1>2, <2>1 DEF Used, First
  <1>5. Queue
    BY <1>1, <1>2, <1>4 DEF Queue, Packed
  <1>6. Done
    BY <1>2 DEF Done, Above
  <1>7. NoneLost
    BY <1>4 DEF NoneLost
  <1>8. DOMAIN job = Servers /\ \A s \in Servers : Hands(s)
    BY DEF Init, Hands, Holding
  <1> QED  BY <1>3, <1>5, <1>6, <1>7, <1>8 DEF RingInv

\* A server moves, and what it has in hand of the packets stays in it.
LEMMA RingAside ==
    ASSUME RingInv, NEW s \in Servers, UNCHANGED <<ring, client, handled>>,
           \A t \in Servers \ {s} : pc'[t] = pc[t] /\ job'[t] = job[t],
           DOMAIN job' = Servers, Holding(s) => job'[s] = job[s], Hands(s)'
    PROVE  RingInv'
  <1>1. UNCHANGED <<ring, client, handled>>
    OBVIOUS
  <1>2. UNCHANGED <<Used, Line, First>>
    BY <1>1 DEF Used, Line, At, First
  <1>3. RingTypes' /\ Queue' /\ Done'
    BY <1>1, <1>2 DEF RingInv, RingTypes, Queue, Done, Above
  <1>4. ASSUME NEW t \in Servers PROVE Hands(t)'
    <2>1. CASE t = s
      BY <2>1
    <2>2. CASE t # s
      <3>1. Hands(t) /\ pc'[t] = pc[t] /\ job'[t] = job[t]
        BY <2>2 DEF RingInv
      <3> QED  BY <1>1, <1>2, <3>1 DEF Hands, Holding, HasRead, Above
    <2> QED  BY <2>1, <2>2
  <1>5. ASSUME NEW t \in Servers, Holding(t) PROVE Holding(t)' /\ job'[t] = job[t]
    BY <1>5 DEF Holding
  <1>6. ASSUME NEW x \in Nat, Reached(x) PROVE Reached(x)'
    BY <1>1, <1>5, <1>6 DEF Reached
  <1>7. NoneLost'
    BY <1>2, <1>6 DEF RingInv, NoneLost
  <1> QED  BY <1>3, <1>4, <1>7 DEF RingInv

\* The client's steps leave the packet at the tail where it is.
LEMMA RingBehind ==
    ASSUME RingInv, UNCHANGED <<serving, handled>>, RingTypes', Queue',
           First' = First, Used > 0 => Used' > 0 /\ Line'[1] = Line[1], ring'.tail = ring.tail
    PROVE  RingInv'
  <1>1. UNCHANGED <<pc, job, handled>>
    BY DEF serving
  <1>2. Done' /\ NoneLost'
    BY <1>1 DEF RingInv, Done, Above, NoneLost, Reached, Holding
  <1>3. ASSUME NEW s \in Servers PROVE Hands(s)'
    <2>1. Hands(s)
      BY DEF RingInv
    <2> QED  BY <1>1, <2>1 DEF Hands, Holding, HasRead, Above
  <1> QED  BY <1>1, <1>2, <1>3 DEF RingInv

LEMMA RingPush ==
    ASSUME RingInv, NEW n \in PacketWords, Push(n)
    PROVE  RingInv'
  <1>0. RingTypes /\ Queue
    BY DEF RingInv
  <1>1. PICK h \in Int, t \in Int, u \in Nat, m \in Nat :
          h = ring.head /\ t = ring.tail /\ u = Used /\ m = 2 + n
    BY <1>0, QueueTypes, SegmentAssumption DEF SegmentAssumption
  <1>2. /\ u \in 0 .. Cap /\ First \in Nat /\ client.next \in Nat /\ Cap \in Nat /\ HeaderWords = 2
        /\ n \in Nat /\ m >= 1 /\ Cap - u >= m
        /\ client.pc = "idle" /\ UNCHANGED <<serving, handled>>
    BY <1>0, <1>1, QueueTypes, SegmentAssumption DEF SegmentAssumption, Push
  <1> DEFINE f == Words(client.next, n)
             g == [a \in 0 .. Cap - 1 |-> LET i == 1 + ((a - h) % Cap)
                                          IN  IF i \in DOMAIN f THEN f[i] ELSE ring.cells[a]]
  <1>3. /\ ring' = [ring EXCEPT !.cells = g]
        /\ client' = [client EXCEPT !.pc = "written", !.words = n]
    BY <1>1 DEF Push
  <1>4. DOMAIN f = 1 .. m /\ \A j \in 1 .. m : f[j] = WordOf(client.next, j, n) /\ f[j] \in Word
    <2>1. \A j \in 1 .. m : f[j] = WordOf(client.next, j, n)
      BY <1>1, <1>2, WordsAre
    <2>2. \A j \in 1 .. m : WordOf(client.next, j, n) \in Word
      BY <1>1, <1>2 DEF WordOf, Word
    <2>3. DOMAIN f = 1 .. m
      BY <1>1, <1>2 DEF Words
    <2> QED  BY <2>1, <2>2, <2>3
  <1> HIDE DEF f
  <1>5. \A a \in 0 .. Cap - 1 : ring.cells[a] \in Word \cup {None}
    BY <1>0 DEF RingTypes
  <1>6. g \in [0 .. Cap - 1 -> Word \cup {None}]
    BY <1>4, <1>5
  <1>7. ASSUME NEW x \in Int PROVE Place(h + x) = Place(t + u + x)
    <2>1. Spaced(h, t, u) /\ u \in Int
      BY <1>1 DEF Used, Spaced
    <2>2. PICK p \in Int, q \in Int : p = h + x /\ q = t + u + x
      BY <2>1
    <2>3. q - p = t + u - h
      BY <2>1, <2>2
    <2> QED  BY <2>1, <2>2, <2>3, Ends
  \* The words go where the last of those waiting ends.
  <1>8. ASSUME NEW j \in 1 .. m PROVE g[Place(t + (u + j) - 1)] = WordOf(client.next, j, n)
    <2>1. PICK x \in Int : x = j - 1 /\ x \in 0 .. Cap - 1
      BY <1>1, <1>2
    <2>2. t + (u + j) - 1 = t + u + x
      BY <2>1
    <2>3. Place(h + x) = Place(t + u + x)
      BY <2>1, <1>7
    <2>4. (Place(h + x) - h) % Cap = x
      BY <2>1, FromHead
    <2>5. Place(h + x) \in 0 .. Cap - 1
      <3>1. h + x \in Int
        OBVIOUS
      <3> QED  BY <3>1, Rings
    <2>6. 1 + x = j
      BY <2>1
    <2>7. g[Place(h + x)] = f[j]
      BY <1>4, <2>4, <2>5, <2>6
    <2> QED  BY <1>4, <2>2, <2>3, <2>7
  \* And not where those do.
  <1>9. ASSUME NEW i \in 1 .. u PROVE g[Place(t + i - 1)] = ring.cells[Place(t + i - 1)]
    <2>1. PICK p \in Int, a \in 0 .. Cap - 1 : p = t + i - 1 /\ a = Place(p)
      <3>1. t + i - 1 \in Int
        BY <1>1
      <3> QED  BY <3>1, Rings
    <2>2. PICK x \in 0 .. Cap - 1 : x = (a - h) % Cap /\ a = Place(h + x)
      BY FromHead
    <2>3. PICK q \in Int : q = t + u + x
      BY <1>1, <2>2
    <2>4. a = Place(q)
      <3>1. x \in Int
        OBVIOUS
      <3> QED  BY <1>7, <2>2, <2>3, <3>1
    <2>5. 1 + x \notin 1 .. m
      <3> SUFFICES ASSUME 1 + x \in 1 .. m PROVE FALSE
        OBVIOUS
      <3>1. p < q /\ q - p < Cap
        BY <1>1, <1>2, <2>1, <2>2, <2>3
      <3> QED  BY <2>1, <2>4, <3>1, Rings
    <2>6. g[a] = ring.cells[a]
      BY <1>4, <2>2, <2>5
    <2> QED  BY <2>1, <2>6
  <1> HIDE DEF g
  <1>10. /\ ring'.head = h /\ ring'.tail = t /\ ring'.cells = g
        /\ client'.pc = "written" /\ client'.next = client.next /\ client'.words = n
        /\ RingTypes'
    BY <1>0, <1>1, <1>2, <1>3, <1>6 DEF RingTypes
  <1>11. Used' = u
    BY <1>1, <1>10 DEF Used
  <1>12. \A i \in 1 .. Cap : Line'[i] = g[Place(t + i - 1)]
    BY <1>10 DEF Line, At, Place
  <1>13. \A i \in 1 .. u : Line'[i] = Line[i]
    <2>1. \A i \in 1 .. u : Line[i] = ring.cells[Place(t + i - 1)]
      BY <1>0, <1>1, <1>2, QueueTypes
    <2> QED  BY <1>2, <1>9, <1>12, <2>1
  <1>14. First' = First /\ (u > 0 => Line'[1] = Line[1])
    BY <1>1, <1>10, <1>11, <1>13 DEF First
  <1>15. Packed(Line', u, First, client.next)
    BY <1>0, <1>1, <1>2, <1>13, PackedSame DEF Queue
  <1>16. \A j \in 1 .. m : Line'[u + j] = WordOf(client.next, j, n)
    <2>1. \A j \in 1 .. m : u + j \in 1 .. Cap
      BY <1>1, <1>2
    <2> QED  BY <1>8, <1>12, <2>1
  <1>17. Queue'
    BY <1>1, <1>2, <1>10, <1>11, <1>14, <1>15, <1>16 DEF Queue
  <1> QED  BY <1>1, <1>2, <1>10, <1>11, <1>14, <1>17, RingBehind

LEMMA RingPushDone ==
    ASSUME RingInv, PushDone
    PROVE  RingInv'
  <1>0. RingTypes /\ Queue
    BY DEF RingInv
  <1>1. PICK h \in Int, t \in Int, u \in Nat, n \in Nat, m \in Nat :
          h = ring.head /\ t = ring.tail /\ u = Used /\ n = client.words /\ m = 2 + n
    BY <1>0, QueueTypes
  <1>2. /\ First \in Nat /\ client.next \in Nat /\ Cap \in Nat /\ HeaderWords = 2
        /\ client.pc = "written" /\ UNCHANGED <<serving, handled>>
    BY <1>0, QueueTypes DEF PushDone
  <1>3. /\ ring' = [ring EXCEPT !.head = (h + m) % Cursors]
        /\ client' = [pc |-> "idle", next |-> client.next + 1, words |-> 0]
    <2>1. ring' = [ring EXCEPT !.head = (h + 2 + n) % Cursors] /\ h + 2 + n = h + m
      BY <1>1, <1>2 DEF PushDone
    <2> QED  BY <2>1 DEF PushDone
  <1>4. u + m <= Cap /\ \A j \in 1 .. m : Line[u + j] = WordOf(client.next, j, n)
    BY <1>0, <1>1, <1>2 DEF Queue
  <1>5. (h + m) % Cursors \in 0 .. Cursors - 1
    <2>1. h + m \in Int
      OBVIOUS
    <2> QED  BY <2>1, Rings
  <1>6. /\ ring'.head = (h + m) % Cursors /\ ring'.tail = t /\ ring'.cells = ring.cells
        /\ client'.pc = "idle" /\ client'.next = client.next + 1
    BY <1>0, <1>1, <1>3 DEF RingTypes
  <1>7. RingTypes'
    <2>1. client.next \in Nat \ {0} /\ client.next + 1 \in Nat \ {0}
      BY <1>0 DEF RingTypes
    <2>2. ring' \in [head : 0 .. Cursors - 1, tail : 0 .. Cursors - 1,
                     cells : [0 .. Cap - 1 -> Word \cup {None}]]
      BY <1>0, <1>3, <1>5 DEF RingTypes
    <2> QED  BY <1>3, <2>1, <2>2 DEF RingTypes
  <1>8. Used' = u + m
    <2>1. PICK v \in 0 .. Cap, c \in 0 .. Cursors - 1 : v = u + m /\ c = (h + m) % Cursors
      BY <1>1, <1>2, <1>4, <1>5
    <2>2. Spaced(h, t, u) /\ u \in Int /\ m = v - u
      BY <1>1, <2>1 DEF Used, Spaced
    <2>3. Spaced(c, t, v)
      BY <2>1, <2>2, Moved
    <2> QED  BY <1>6, <2>1, <2>3 DEF Used, Spaced
  <1>9. Line' = Line
    BY <1>6, <1>1 DEF Line, At
  <1>10. Packed(Line, u + 2 + n, First, client.next + 1)
    <2>1. Packed(Line, u, First, client.next)
      BY <1>0, <1>1 DEF Queue
    <2>2. \A j \in 1 .. HeaderWords + n : Line[u + j] = WordOf(client.next, j, n)
      BY <1>1, <1>2, <1>4
    <2>3. Packed(Line, u + HeaderWords + n, First, client.next + 1)
      BY <1>2, <2>1, <2>2, PackedPush
    <2> QED  BY <1>2, <2>3
  <1>11. u + 2 + n = u + m /\ u + m # 0
    BY <1>1
  <1>12. Packed(Line, u + m, First, client.next + 1)
    BY <1>10, <1>11
  <1>13. First' = First
    BY <1>8, <1>9, <1>11, <1>12 DEF First, Packed
  <1>14. Queue'
    BY <1>4, <1>6, <1>8, <1>9, <1>12, <1>13 DEF Queue
  <1>15. ring'.tail = ring.tail /\ Used' > 0 /\ Line'[1] = Line[1]
    BY <1>1, <1>6, <1>8, <1>9
  <1> QED  BY <1>2, <1>7, <1>13, <1>14, <1>15, RingBehind

LEMMA RingClientDies ==
    ASSUME RingInv, ClientDies
    PROVE  RingInv'
  <1>1. /\ RingTypes /\ Queue /\ UNCHANGED <<serving, handled, ring>>
        /\ client' = [client EXCEPT !.pc = "idle", !.words = 0]
    BY DEF RingInv, ClientDies
  <1>2. RingTypes' /\ client'.pc = "idle" /\ client'.next = client.next
    BY <1>1 DEF RingTypes
  <1>3. Used' = Used /\ Line' = Line
    BY <1>1 DEF Used, Line, At
  <1>4. First' = First
    BY <1>2, <1>3 DEF First
  <1>5. Queue'
    BY <1>1, <1>2, <1>3, <1>4 DEF Queue
  <1> QED  BY <1>1, <1>2, <1>3, <1>4, <1>5, RingBehind

\* What is at the tail begins with a header and is all there, and is read as it was
\* pushed: the ring is never thrown away.
LEMMA RingPop ==
    ASSUME ClaimInv, RingInv, NEW s \in Servers, Pop(s)
    PROVE  RingInv'
  <1>0. RingTypes /\ Queue /\ Hands(s) /\ DOMAIN job = Servers
    BY DEF RingInv
  <1>1. PICK u \in Nat, n \in Nat : u = Used /\ n = Line[1].words /\ u > 0
    BY <1>0, QueueTypes DEF Pop
  <1>2. /\ First \in Nat /\ 2 + n <= u /\ u <= Cap /\ HeaderWords = 2 /\ Cap \in Nat
        /\ \A j \in 1 .. 2 + n : Line[j] = WordOf(First, j, n)
        /\ Line[1].word = 1 /\ ring.tail \in Nat
    BY <1>0, <1>1, QueueTypes, SMTT(30) DEF RingTypes
  <1>3. \A i \in 1 .. Cap : Line[i] = At(i)
    BY DEF Line
  <1>4. 1 \in 1 .. Cap /\ At(1) = Line[1]
    BY <1>1, <1>2, <1>3
  <1> DEFINE read == [i \in 1 .. 2 + n |-> At(i)]
  <1>5. /\ pc[s] = "idle" /\ UNCHANGED <<ring, client, handled>>
        /\ job' = [job EXCEPT ![s] = [read |-> read, tail |-> ring.tail]]
        /\ pc' = [pc EXCEPT ![s] = "popped"]
    BY <1>1, <1>2, <1>4 DEF Pop, Goto
  <1>6. read = Words(First, n)
    <2>1. ASSUME NEW j \in 1 .. 2 + n PROVE At(j) = [id |-> First, word |-> j, words |-> n]
      <3>1. j \in 1 .. Cap
        BY <1>1, <1>2
      <3> QED  BY <1>2, <1>3, <3>1 DEF WordOf
    <2> QED  BY <1>2, <2>1 DEF Words
  <1>7. read \in Seq(Word)
    BY <1>1, <1>2, <1>6, WordsAre
  <1> HIDE DEF read
  <1>8. job'[s] = [read |-> read, tail |-> ring.tail] /\ pc'[s] = "popped"
    BY <1>0, <1>5 DEF ClaimInv
  <1>9. UNCHANGED <<Used, Line, First, ring, client, handled>>
    BY <1>5 DEF Used, Line, At, First
  <1>10. Hands(s)'
    <2>1. job'[s] \in Popped
      BY <1>2, <1>7, <1>8 DEF Popped
    <2>2. job'[s].tail = ring'.tail /\ job'[s].read = Words(First', Line'[1].words)
      BY <1>1, <1>6, <1>8, <1>9
    <2> QED  BY <1>1, <1>8, <1>9, <2>1, <2>2 DEF Hands, HasRead
  <1>11. ~Holding(s)
    BY <1>0, <1>5 DEF Hands
  <1> QED  BY <1>0, <1>5, <1>10, <1>11, RingAside DEF ClaimInv

\* The packet read is taken off, and whoever read it is the only one to do so.
LEMMA RingPopDone ==
    ASSUME ClaimInv, RingInv, NEW s \in Servers, PopDone(s)
    PROVE  RingInv'
  <1>0. RingTypes /\ Queue /\ Hands(s) /\ Done /\ NoneLost /\ DOMAIN job = Servers
    BY DEF RingInv
  <1>1. PICK h \in Int, t \in Int, u \in Nat, n \in Nat, m \in Nat :
          /\ h = ring.head /\ t = ring.tail /\ u = Used /\ n = Line[1].words /\ m = 2 + n /\ u > 0
    BY <1>0, QueueTypes DEF PopDone, Hands
  <1>2. /\ First \in Nat /\ client.next \in Nat /\ m <= u /\ u <= Cap /\ Cap \in Nat /\ HeaderWords = 2
    BY <1>0, <1>1, QueueTypes
  <1>3. /\ job[s] \in Popped /\ job[s].tail = t /\ job[s].read = Words(First, n)
        /\ Len(job[s].read) = m /\ Id(job[s].read) = First
    BY <1>0, <1>1, <1>2, WordsAre DEF PopDone, Hands, HasRead
  <1>4. /\ ring' = [ring EXCEPT !.tail = (t + m) % Cursors]
        /\ pc' = [pc EXCEPT ![s] = "handling"] /\ UNCHANGED <<client, handled, job>>
    BY <1>3 DEF PopDone, Goto
  <1>5. (t + m) % Cursors \in 0 .. Cursors - 1
    <2>1. t + m \in Int
      OBVIOUS
    <2> QED  BY <2>1, Rings
  <1>6. /\ ring'.head = h /\ ring'.tail = (t + m) % Cursors /\ ring'.cells = ring.cells
        /\ RingTypes'
    BY <1>0, <1>1, <1>4, <1>5 DEF RingTypes
  <1>7. Used' = u - m
    <2>1. PICK v \in 0 .. Cap, c \in 0 .. Cursors - 1 : v = u - m /\ c = (t + m) % Cursors
      BY <1>1, <1>2, <1>5
    <2>2. Spaced(h, t, u) /\ u \in Int /\ m = u - v
      BY <1>1, <2>1 DEF Used, Spaced
    <2>3. Spaced(h, c, v)
      BY <2>1, <2>2, Moved
    <2> QED  BY <1>6, <2>1, <2>3 DEF Used, Spaced
  <1>8. ASSUME NEW i \in 1 .. Cap, m + i <= Cap PROVE Line'[i] = Line[m + i]
    <2>1. Line'[i] = ring.cells[Place(((t + m) % Cursors) + i - 1)]
      BY <1>6 DEF Line, At, Place
    <2>2. m + i \in 1 .. Cap /\ Line[m + i] = ring.cells[Place(t + (m + i) - 1)]
      BY <1>0, <1>1, <1>2, <1>8, QueueTypes
    <2>3. PICK p \in Int, x \in Int : p = t + m /\ x = i - 1
      OBVIOUS
    <2>4. Place((p % Cursors) + x) = Place(p + x)
      BY Rings, Zenon
    <2>5. p % Cursors \in Int
      BY Rings
    <2>6. ((t + m) % Cursors) + i - 1 = (p % Cursors) + x /\ t + (m + i) - 1 = p + x
      BY <2>3, <2>5
    <2> QED  BY <2>1, <2>2, <2>4, <2>6
  <1>9. Packed(Line', u - m, First + 1, client.next)
    <2>1. Packed(Line, u, First, client.next)
      BY <1>0, <1>1 DEF Queue
    <2>2. ASSUME NEW i \in 1 .. u - m PROVE Line'[i] = Line[m + i]
      <3>1. i \in 1 .. Cap /\ m + i <= Cap
        BY <1>1, <1>2
      <3> QED  BY <1>8, <3>1
    <2>3. m = HeaderWords + Line[1].words /\ u # 0
      BY <1>1, <1>2
    <2> QED  BY <1>1, <1>2, <2>1, <2>2, <2>3, PackedPop
  <1>10. First' = First + 1
    BY <1>4, <1>7, <1>9 DEF First, Packed
  <1>11. Queue'
    <2>1. u - m <= Cap /\ Packed(Line', Used', First', client'.next)
      BY <1>1, <1>2, <1>4, <1>7, <1>9, <1>10
    <2>2. ASSUME client.pc = "written"
          PROVE  /\ Used' + HeaderWords + client.words <= Cap
                 /\ \A j \in 1 .. HeaderWords + client.words :
                        Line'[Used' + j] = WordOf(client.next, j, client.words)
      <3>1. PICK w \in Nat : w = 2 + client.words
        BY <1>0, QueueTypes
      <3>2. u + w <= Cap /\ \A j \in 1 .. w : Line[u + j] = WordOf(client.next, j, client.words)
        <4>1. client.words \in Nat
          BY <1>0, QueueTypes
        <4> QED  BY <1>0, <1>1, <1>2, <2>2, <3>1, <4>1 DEF Queue
      <3>3. ASSUME NEW j \in 1 .. w PROVE Line'[(u - m) + j] = Line[u + j]
        <4>1. (u - m) + j \in 1 .. Cap /\ m + ((u - m) + j) = u + j /\ u + j <= Cap
          BY <1>1, <1>2, <3>1, <3>2
        <4>2. PICK i \in 1 .. Cap : i = (u - m) + j
          BY <4>1
        <4>3. m + i = u + j /\ m + i <= Cap
          BY <4>1, <4>2
        <4>4. Line'[i] = Line[m + i]
          BY <1>8, <4>3
        <4> QED  BY <4>2, <4>3, <4>4
      <3>4. client.words \in Nat
        BY <1>0, QueueTypes
      <3> QED  BY <1>1, <1>2, <1>7, <3>1, <3>2, <3>3, <3>4
    <2> QED  BY <1>4, <1>7, <2>1, <2>2 DEF Queue
  <1>12. Done'
    <2>1. \A i \in DOMAIN handled : Id(handled[i]) \in Int
      <3>1. ASSUME NEW i \in DOMAIN handled PROVE Id(handled[i]) \in Int
        <4>1. handled[i] \in Seq(Word) /\ Len(handled[i]) >= 1
          <5>1. handled[i] \in Seq(Word)
            BY <1>0 DEF Done
          <5>2. PICK k \in Nat : handled[i] = Words(Id(handled[i]), k)
            BY <1>0 DEF Done
          <5>3. DOMAIN handled[i] = 1 .. 2 + k
            BY <1>2, <5>2 DEF Words
          <5> QED  BY <5>1, <5>3
        <4>2. handled[i][1] \in Word
          BY <4>1
        <4> QED  BY <4>2 DEF Id, Word
      <3> QED  BY <3>1
    <2>2. Above(First)'
      BY <1>0, <1>2, <1>4, <1>10, <2>1 DEF Done, Above
    <2> QED  BY <1>0, <1>4, <2>2, <1>10 DEF Done, Above
  <1>13. NoneLost'
    <2>1. Holding(s)
      <3>1. job[s] # None
        BY <1>3, SegmentAssumption DEF SegmentAssumption, Popped, Word
      <3>2. "read" \in DOMAIN job[s]
        BY <1>3 DEF Popped
      <3> QED  BY <3>1, <3>2 DEF Holding
    <2>2. Reached(First)
      BY <1>3, <2>1 DEF Reached
    <2>3. ASSUME NEW x \in Nat, 1 <= x, x < First + 1 PROVE Reached(x)
      <3>1. x = First \/ x < First
        BY <1>2, <2>3
      <3> QED  BY <1>0, <2>2, <2>3, <3>1 DEF NoneLost
    <2>4. ASSUME NEW x \in Nat, Reached(x) PROVE Reached(x)'
      BY <1>4, <2>4 DEF Reached, Holding
    <2> QED  BY <1>10, <2>3, <2>4 DEF NoneLost
  <1>14. Hands(s)'
    <2>1. pc'[s] = "handling"
      BY <1>4 DEF ClaimInv
    <2>2. First < First' /\ job'[s] \in Popped /\ job'[s].read = Words(First, n)
          /\ \A i \in DOMAIN handled' : Id(handled'[i]) < First
      <3>1. First < First'
        BY <1>2, <1>10
      <3>2. \A i \in DOMAIN handled' : Id(handled'[i]) < First
        BY <1>0, <1>4 DEF Done, Above
      <3>3. job'[s].read = Words(First, n) /\ job'[s] \in Popped
        BY <1>3, <1>4
      <3> QED  BY <3>1, <3>2, <3>3
    <2> QED  BY <1>1, <1>2, <2>1, <2>2 DEF Hands, HasRead, Above
  <1>15. ASSUME NEW r \in Servers PROVE Hands(r)'
    <2>1. CASE r = s
      BY <1>14, <2>1
    <2>2. CASE r # s
      <3>1. pc[r] \notin {"popped", "handling"}
        BY <2>2 DEF ClaimInv, OneServes, Serving, PopDone
      <3>2. pc'[r] = pc[r] /\ job'[r] = job[r] /\ Hands(r)
        BY <1>4, <2>2 DEF RingInv
      <3> QED  BY <3>1, <3>2 DEF Hands, Holding
    <2> QED  BY <2>1, <2>2
  <1> QED  BY <1>0, <1>4, <1>6, <1>11, <1>12, <1>13, <1>15 DEF RingInv

LEMMA RingHandle ==
    ASSUME ClaimInv, RingInv, NEW s \in Servers, Handle(s)
    PROVE  RingInv'
  <1>0. RingTypes /\ Queue /\ Hands(s) /\ Done /\ NoneLost /\ DOMAIN job = Servers
    BY DEF RingInv
  <1>1. /\ pc[s] = "handling" /\ pc' = [pc EXCEPT ![s] = "idle"]
        /\ job' = [job EXCEPT ![s] = None] /\ handled' = Append(handled, job[s].read)
        /\ UNCHANGED <<ring, client>>
    BY DEF Handle, Goto
  <1>2. PICK id \in Nat, n \in Nat : id < First /\ Above(id) /\ job[s].read = Words(id, n)
    BY <1>0, <1>1 DEF Hands, HasRead
  <1>3. Words(id, n) \in Seq(Word) /\ Id(Words(id, n)) = id
    BY <1>2, WordsAre
  <1> DEFINE l == Len(handled)
  <1>4. /\ handled' \in Seq(Seq(Word)) /\ l \in Nat /\ DOMAIN handled' = 1 .. l + 1
        /\ DOMAIN handled = 1 .. l
        /\ handled'[l + 1] = Words(id, n) /\ \A i \in 1 .. l : handled'[i] = handled[i]
    BY <1>0, <1>1, <1>2, <1>3, Appended DEF Done
  <1> HIDE DEF l
  <1>5. UNCHANGED <<Used, Line, First>>
    BY <1>1 DEF Used, Line, At, First
  <1>6. RingTypes' /\ Queue'
    BY <1>0, <1>1, <1>5 DEF RingTypes, Queue
  <1>7. Done'
    <2>1. ASSUME NEW i \in 1 .. l + 1 PROVE i \in 1 .. l \/ i = l + 1
      BY <1>4
    <2>2. \A i \in DOMAIN handled' : \E k \in Nat : handled'[i] = Words(Id(handled'[i]), k)
      BY <1>0, <1>3, <1>4, <2>1 DEF Done
    <2>3. ASSUME NEW i \in DOMAIN handled', NEW k \in DOMAIN handled', i < k
          PROVE  Id(handled'[i]) < Id(handled'[k])
      <3>1. i \in 1 .. l
        BY <1>4, <2>1, <2>3
      <3>2. CASE k \in 1 .. l
        BY <1>0, <1>4, <2>3, <3>1, <3>2 DEF Done
      <3>3. CASE k = l + 1
        BY <1>2, <1>3, <1>4, <3>1, <3>3 DEF Above
      <3> QED  BY <1>4, <2>1, <3>2, <3>3
    <2>4. \A i \in DOMAIN handled' : Id(handled'[i]) < First
      BY <1>0, <1>2, <1>3, <1>4, <2>1 DEF Done, Above
    <2> QED  BY <1>4, <1>5, <2>2, <2>3, <2>4 DEF Done, Above
  <1>8. ASSUME NEW x \in Nat, Reached(x) PROVE Reached(x)'
    <2>1. CASE \E i \in DOMAIN handled : Id(handled[i]) = x
      <3>1. PICK i \in DOMAIN handled : Id(handled[i]) = x
        BY <2>1
      <3>2. i \in DOMAIN handled' /\ Id(handled'[i]) = x
        BY <1>4, <3>1
      <3> QED  BY <3>2 DEF Reached
    <2>2. CASE x = id
      <3>1. l + 1 \in DOMAIN handled' /\ Id(handled'[l + 1]) = x
        BY <1>3, <1>4, <2>2
      <3> QED  BY <3>1 DEF Reached
    <2>3. ASSUME NEW r \in Servers, r # s, Holding(r), Id(job[r].read) = x PROVE Reached(x)'
      <3>1. job'[r] = job[r]
        BY <1>1, <2>3
      <3> QED  BY <2>3, <3>1 DEF Reached, Holding
    <2> QED  BY <1>2, <1>3, <1>8, <2>1, <2>2, <2>3 DEF Reached
  <1>9. NoneLost'
    BY <1>0, <1>5, <1>8 DEF NoneLost
  <1>10. ASSUME NEW r \in Servers PROVE Hands(r)'
    <2>1. CASE r = s
      <3>1. pc'[r] = "idle" /\ job'[r] = None
        BY <1>0, <1>1, <2>1 DEF ClaimInv
      <3> QED  BY <3>1 DEF Hands, Holding
    <2>2. CASE r # s
      <3>1. pc[r] \notin {"popped", "handling"}
        BY <1>1, <2>2 DEF ClaimInv, OneServes, Serving
      <3>2. pc'[r] = pc[r] /\ job'[r] = job[r] /\ Hands(r)
        BY <1>1, <2>2 DEF RingInv
      <3> QED  BY <3>1, <3>2 DEF Hands, Holding
    <2> QED  BY <2>1, <2>2
  <1>11. DOMAIN job' = Servers
    BY <1>0, <1>1
  <1> QED  BY <1>6, <1>7, <1>9, <1>10, <1>11 DEF RingInv

\* What a server does with the claim and the directory is no concern of the packets.
LEMMA RingServing ==
    ASSUME ClaimInv, RingInv, NEW s \in Servers, Claiming(s) \/ Sharing(s)
    PROVE  RingInv'
  <1> USE DEF Goto
  <1>0. Hands(s) /\ DOMAIN job = Servers /\ pc \in [Servers -> Labels]
    BY DEF RingInv, ClaimInv
  <1>1. CASE Claiming(s)
    <2>1. UNCHANGED <<ring, client, handled, job>>
      BY <1>1 DEF Claiming, Open, Load, Ask, Swap, Release, RemoveRegions, Remove, Kill, plane
    <2>2. \A r \in Servers \ {s} : pc'[r] = pc[r]
      BY <1>0, <1>1 DEF Claiming, Open, Load, Ask, Swap, Release, RemoveRegions, Remove, Kill
    <2>3. /\ pc'[s] \notin {"popped", "handling"}
          /\ pc'[s] = "gone" \/ pc[s] \notin {"popped", "handling", "gone"}
      BY <1>0, <1>1 DEF Claiming, Open, Load, Ask, Swap, Release, RemoveRegions, Remove, Kill
    <2>4. Hands(s)'
      BY <1>0, <2>1, <2>3 DEF Hands, Holding
    <2> QED  BY <1>0, <2>1, <2>2, <2>4, RingAside
  <1>2. CASE Sharing(s)
    <2>1. /\ UNCHANGED <<ring, client, handled>>
          /\ pc[s] \notin {"popped", "handling", "gone"}
          /\ \E label \in Labels : pc' = [pc EXCEPT ![s] = label] /\ label \notin {"popped", "handling"}
      BY <1>2 DEF Sharing, Install, Shape, Publish, Create, CannotCreate, Replace, RetireUncreated,
                  Clear, Unlink, Labels, Serving, Writing, plane
    <2>2. \/ UNCHANGED job \/ job' = [job EXCEPT ![s] = None]
          \/ \E g, n : job' = [job EXCEPT ![s] = [generation |-> g, frames |-> n]]
      BY <1>2 DEF Sharing, Install, Shape, Publish, Create, CannotCreate, Replace, RetireUncreated,
                  Clear, Unlink
    <2>3. ~Holding(s)
      BY <1>0, <2>1 DEF Hands
    <2>4. ~Holding(s)'
      <3>1. CASE UNCHANGED job
        BY <2>3, <3>1 DEF Holding
      <3>2. CASE job' = [job EXCEPT ![s] = None]
        BY <1>0, <3>2 DEF Holding
      <3>3. ASSUME NEW g, NEW n, job' = [job EXCEPT ![s] = [generation |-> g, frames |-> n]]
            PROVE  ~Holding(s)'
        <4>1. job'[s] = [generation |-> g, frames |-> n]
          BY <1>0, <3>3
        <4>2. DOMAIN [generation |-> g, frames |-> n] = {"generation", "frames"}
          OBVIOUS
        <4> QED  BY <4>1, <4>2 DEF Holding
      <3> QED  BY <2>2, <3>1, <3>2, <3>3
    <2>5. /\ DOMAIN job' = Servers
          /\ \A r \in Servers \ {s} : pc'[r] = pc[r] /\ job'[r] = job[r]
          /\ pc'[s] \notin {"popped", "handling"}
      BY <1>0, <2>1, <2>2
    <2>6. Hands(s)'
      BY <2>4, <2>5 DEF Hands
    <2> QED  BY <2>1, <2>3, <2>5, <2>6, RingAside
  <1> QED  BY <1>1, <1>2

LEMMA RingNext == ClaimInv /\ RingInv /\ [Next]_vars => RingInv'
  <1> SUFFICES ASSUME ClaimInv, RingInv, [Next]_vars PROVE RingInv'
    OBVIOUS
  <1>1. ASSUME NEW s \in Servers, Claiming(s) \/ Draining(s) \/ Sharing(s) PROVE RingInv'
    BY <1>1, RingServing, RingPop, RingPopDone, RingHandle DEF Draining
  <1>2. Pushing => RingInv' \/ ClientOpens
    BY RingPush, RingPushDone, RingClientDies DEF Pushing
  <1>3. ASSUME UNCHANGED <<ring, client, handled, pc, job>> PROVE RingInv'
    <2>1. UNCHANGED <<ring, client, handled, pc, job>>
      BY <1>3
    <2>2. UNCHANGED <<Used, Line, First>>
      BY <2>1 DEF Used, Line, At, First
    <2>3. (RingTypes /\ Queue /\ Done /\ NoneLost)'
      BY <2>1, <2>2 DEF RingInv, RingTypes, Queue, Done, Above, NoneLost, Reached, Holding
    <2>4. ASSUME NEW s \in Servers PROVE Hands(s)'
      <3>1. Hands(s)
        BY DEF RingInv
      <3> QED  BY <2>1, <2>2, <3>1 DEF Hands, HasRead, Holding, Above
    <2> QED  BY <2>1, <2>3, <2>4 DEF RingInv
  <1>4. Sweeping \/ ClientOpens \/ Mapping \/ Tapping \/ UNCHANGED vars
          => UNCHANGED <<ring, client, handled, pc, job>>
    BY DEF Sweeping, SweepFinds, SweepRemoves, ClientOpens, Mapping, PeerOpens, Look, LookShape,
           LookSame, OpenRegion, LookAgain, PeerSteps, Tapping, CopyIn, Count, Window, CopyOut,
           Recheck, Draw, TapSteps, vars, serving, plane
  <1> QED  BY <1>1, <1>2, <1>3, <1>4 DEF Next

\* However often the two cursors come round, and whichever servers take the claim over
\* or are killed with a packet read and not yet counted, or not yet handled: what a
\* client pushed is handled once, whole and in order, waits, or died in hand.
THEOREM NoPacketTwiceOrLost == Spec => []EachPacketOnce
  <1>1. ASSUME RingInv PROVE EachPacketOnce
    <2>0. RingTypes /\ Queue /\ Done /\ NoneLost
      BY <1>1 DEF RingInv
    <2>1. ASSUME NEW i \in DOMAIN handled
          PROVE  handled[i] = Words(Id(handled[i]), Len(handled[i]) - HeaderWords)
      <3>1. PICK n \in Nat : handled[i] = Words(Id(handled[i]), n)
        BY <2>0 DEF Done
      <3>2. Len(handled[i]) = HeaderWords + n
        <4>1. DOMAIN handled[i] = 1 .. HeaderWords + n
          BY <3>1 DEF Words
        <4>2. handled[i] \in Seq(Word) /\ HeaderWords + n \in Nat
          BY <2>0 DEF Done, HeaderWords
        <4> QED  BY <4>1, <4>2
      <3>3. Len(handled[i]) - HeaderWords = n
        BY <3>2 DEF HeaderWords
      <3> QED  BY <3>1, <3>3
    <2>2. \A i, k \in DOMAIN handled : i < k => Id(handled[i]) < Id(handled[k])
      BY <2>0 DEF Done
    <2>3. ASSUME NEW x \in 1 .. client.next - 1
          PROVE  Reached(x) \/ \E i \in 1 .. Used : At(i).id = x
      <3>1. /\ Used \in Nat /\ Used <= Cap /\ First \in Nat /\ client.next \in Nat
            /\ Packed(Line, Used, First, client.next) /\ Cap \in Nat
        BY <2>0, QueueTypes DEF Queue
      <3>2. CASE x < First
        BY <2>0, <3>2 DEF NoneLost
      <3>3. CASE x >= First
        <4>1. x \in Nat /\ x < client.next
          BY <3>1
        <4>2. PICK i \in 1 .. Used : Line[i].id = x
          BY <3>1, <3>3, <4>1, PackedAll
        <4>3. Line[i] = At(i)
          BY <3>1 DEF Line
        <4> QED  BY <4>2, <4>3
      <3> QED  BY <3>1, <3>2, <3>3
    <2> QED  BY <2>1, <2>2, <2>3 DEF EachPacketOnce, Reached, Holding, At
  <1> QED  BY <1>1, ClaimInit, ClaimNext, RingInit, RingNext, PTL DEF Spec

=============================================================================
