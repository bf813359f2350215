--------------------------- MODULE LaneFeedProofs ---------------------------
(***************************************************************************)
(* Theorems of LaneFeed.tla for every score, window, FIFO and queue: an    *)
(* event marked as queued is on its way, the engine's lane queue holds no  *)
(* event twice, and none sounds twice in one pass.  LaneInvariant follows  *)
(* an entry over the command FIFO, the lane queue and the garbage FIFO:    *)
(* what is on its way is in one place only, marked, and cut off by a clear *)
(* from the entries of the generation before.                              *)
(*                                                                         *)
(* A network handler touches the lane and the command FIFO alone, so the   *)
(* parts of the invariant are stated of any lane l and commands c: a       *)
(* handler is a chain of appending, clearing and feeding, one lemma each.  *)
(***************************************************************************)
EXTENDS LaneFeed, SequenceTheorems, FiniteSetTheorems, WellFoundedInduction, TLAPS

-----------------------------------------------------------------------------
(* Sequences and ranks. *)

\* A set of naturals that is not empty has a smallest member.
LEMMA SmallestOf ==
    ASSUME NEW S \in SUBSET Nat, S # {}
    PROVE  \E n \in S : \A m \in S : n <= m
  <1>1. PICK n \in S : \A m \in S : ~(<<m, n>> \in OpToRel(<, Nat))
    BY NatLessThanWellFounded, WFMin, Zenon
  <1>2. ASSUME NEW m \in S PROVE n <= m
    <2>1. n \in Nat /\ m \in Nat /\ <<m, n>> \in Nat \X Nat
      BY <1>1
    <2>2. ~(m < n)
      BY <1>1, <2>1 DEF OpToRel
    <2> QED
      BY <2>1, <2>2
  <1> QED
    BY <1>2

\* The places of a sorted queue up to a stamp are its first ones.
LEMMA FirstOnes ==
    ASSUME NEW n \in Nat, NEW B \in SUBSET (1 .. n), \A i \in B : \A j \in 1 .. n : j < i => j \in B
    PROVE  B = 1 .. Cardinality(B)
  <1> DEFINE out == {i \in Nat \ {0} : i \notin B}
  <1>1. n + 1 \in out /\ out \in SUBSET Nat
    OBVIOUS
  <1>2. PICK s \in out : \A m \in out : s <= m
    <2> HIDE DEF out
    <2> QED  BY <1>1, SmallestOf
  <1>3. s \in Nat \ {0} /\ s \notin B /\ s <= n + 1 /\ s - 1 \in Nat
    BY <1>1, <1>2
  <1>4. ASSUME NEW i \in B PROVE i \in 1 .. s - 1
    <2>1. ~(s < i)
      BY <1>3
    <2> QED  BY <1>3, <2>1
  <1>5. ASSUME NEW i \in 1 .. s - 1 PROVE i \in B
    BY <1>2, <1>3
  <1>6. B = 1 .. s - 1
    BY <1>4, <1>5
  <1>7. Cardinality(1 .. s - 1) = s - 1
    <2>1. Cardinality(1 .. s - 1) = IF 1 > s - 1 THEN 0 ELSE (s - 1) - 1 + 1
      BY <1>3, FS_Interval
    <2> QED  BY <1>3, <2>1
  <1> QED  BY <1>6, <1>7

\* Sequence r is q with e at place i, and what stood there and after it shifted.
HasJoined(r, q, i, e) ==
    /\ Len(r) = Len(q) + 1
    /\ \A j \in 1 .. Len(q) + 1 : r[j] = IF j < i THEN q[j] ELSE IF j = i THEN e ELSE q[j - 1]

\* Insertion shifts what stood at the place and after it.
LEMMA Inserted ==
    ASSUME NEW S, NEW q \in Seq(S), NEW e \in S, NEW i \in 1 .. Len(q) + 1
    PROVE  InsertAt(q, i, e) \in Seq(S) /\ HasJoined(InsertAt(q, i, e), q, i, e)
  <1> DEFINE front == SubSeq(q, 1, i - 1)
             back == SubSeq(q, i, Len(q))
             mid == << e >>
  <1>1. /\ front \in Seq(S) /\ Len(front) = i - 1 /\ \A j \in 1 .. i - 1 : front[j] = q[j]
        /\ back \in Seq(S) /\ Len(back) = Len(q) - i + 1
        /\ \A j \in 1 .. Len(q) - i + 1 : back[j] = q[i + j - 1]
    BY SubSeqProperties
  <1>2. mid \in Seq(S) /\ Len(mid) = 1 /\ mid[1] = e
    OBVIOUS
  <1> HIDE DEF front, back, mid
  <1> DEFINE head == front \o mid
  <1>3. /\ head \in Seq(S) /\ Len(head) = i /\ \A j \in 1 .. i - 1 : head[j] = q[j]
        /\ head[i] = e
    <2>1. /\ head \in Seq(S) /\ Len(head) = (i - 1) + 1
          /\ \A j \in 1 .. (i - 1) + 1 : head[j] = IF j <= i - 1 THEN front[j] ELSE mid[j - (i - 1)]
      <3>1. /\ head \in Seq(S) /\ Len(head) = Len(front) + Len(mid)
            /\ \A j \in 1 .. Len(front) + Len(mid) :
                 head[j] = IF j <= Len(front) THEN front[j] ELSE mid[j - Len(front)]
        BY <1>1, <1>2, ConcatProperties
      <3> HIDE DEF head
      <3> QED  BY <1>1, <1>2, <3>1
    <2>2. head[i] = mid[1]
      <3>1. i \in 1 .. (i - 1) + 1 /\ ~(i <= i - 1) /\ i - (i - 1) = 1
        OBVIOUS
      <3> QED  BY <2>1, <3>1
    <2>3. ASSUME NEW j \in 1 .. i - 1 PROVE head[j] = q[j]
      BY <1>1, <2>1
    <2> QED  BY <1>2, <2>1, <2>2, <2>3
  <1> HIDE DEF head
  <1>4. head \o back \in Seq(S) /\ Len(head \o back) = Len(q) + 1
    BY <1>1, <1>3, ConcatProperties
  <1>5. ASSUME NEW j \in 1 .. Len(q) + 1
        PROVE  (head \o back)[j] = IF j < i THEN q[j] ELSE IF j = i THEN e ELSE q[j - 1]
    <2>1. CASE j <= i
      BY <1>1, <1>3, <2>1, ConcatProperties
    <2>2. CASE j > i
      <3>1. (head \o back)[j] = back[j - i] /\ j - i \in 1 .. Len(q) - i + 1
        BY <1>1, <1>3, <2>2, ConcatProperties
      <3>2. back[j - i] = q[i + (j - i) - 1] /\ i + (j - i) - 1 = j - 1
        BY <1>1, <3>1, SMTT(30)
      <3>3. ~(j < i) /\ j # i
        BY <2>2
      <3>4. (head \o back)[j] = q[j - 1]
        BY <3>1, <3>2, Zenon
      <3> HIDE DEF head, back
      <3> QED  BY <3>3, <3>4
    <2>3. j <= i \/ j > i
      OBVIOUS
    <2> QED  BY <2>1, <2>2, <2>3, Zenon
  <1>6. InsertAt(q, i, e) = head \o back
    BY DEF InsertAt, head, front, back, mid
  <1> HIDE DEF head, back
  <1>7. HasJoined(head \o back, q, i, e)
    BY <1>4, <1>5 DEF HasJoined
  <1> QED  BY <1>4, <1>6, <1>7, Zenon

\* A set of places is no larger than the queue.
LEMMA Below ==
    ASSUME NEW n \in Nat, NEW B \in SUBSET (1 .. n)
    PROVE  Cardinality(B) \in 0 .. n
  <1>1. IsFiniteSet(1 .. n) /\ Cardinality(1 .. n) = n
    BY FS_Interval
  <1>2. Cardinality(B) <= n /\ IsFiniteSet(B)
    BY <1>1, FS_Subset
  <1>3. Cardinality(B) \in Nat
    BY <1>2, FS_CardinalityType
  <1> QED  BY <1>2, <1>3

\* A finite set has as many places as members when every member has a place of
\* its own: each place is some member's.
LEMMA EveryPlaceTaken ==
    ASSUME NEW D, IsFiniteSet(D), NEW rank \in [D -> 1 .. Cardinality(D)],
           \A d, e \in D : rank[d] = rank[e] => d = e
    PROVE  \A i \in 1 .. Cardinality(D) : \E d \in D : rank[d] = i
  <1> DEFINE n == Cardinality(D)
  <1>1. n \in Nat
    BY FS_CardinalityType
  <1>2. IsFiniteSet(1 .. n) /\ Cardinality(1 .. n) = n
    BY <1>1, FS_Interval
  <1>3. rank \in Injection(D, 1 .. n)
    BY DEF Injection, IsInjective
  <1>4. rank \in Surjection(D, 1 .. n)
    BY <1>2, <1>3, FS_Injection
  <1> QED  BY <1>4 DEF Surjection

\* Of two members of an ordered set, one precedes the other and has fewer
\* before it.
LEMMA FewerBefore ==
    ASSUME NEW D, IsFiniteSet(D), NEW B \in [D -> SUBSET D],
           NEW d \in D, NEW e \in D, d \in B[e], d \notin B[d], B[d] \subseteq B[e]
    PROVE  Cardinality(B[d]) < Cardinality(B[e])
  <1>1. IsFiniteSet(B[d]) /\ IsFiniteSet(B[e])
    BY FS_Subset
  <1>2. Cardinality(B[d]) \in Nat /\ Cardinality(B[e]) \in Nat
    BY <1>1, FS_CardinalityType
  <1>3. Cardinality(B[d]) <= Cardinality(B[e]) /\ Cardinality(B[e]) # Cardinality(B[d])
    BY <1>1, FS_Subset
  <1> QED  BY <1>2, <1>3

\* A lane: what TypeOK says of one.
Lanes == [generation: Nat, score: Scores \cup {NoScore}, queued: SUBSET Nat]

\* A set of numbers in increasing order: each once.
LEMMA InOrderIs ==
    ASSUME NEW k \in Nat, NEW D \in SUBSET (1 .. k)
    PROVE  /\ InOrder(D) \in Seq(D) /\ Len(InOrder(D)) \in Nat
           /\ \A i, j \in 1 .. Len(InOrder(D)) : InOrder(D)[i] = InOrder(D)[j] => i = j
  <1> DEFINE n == Cardinality(D)
             Rank(e) == Cardinality({d \in D : d < e}) + 1
             before == [e \in D |-> {d \in D : d < e}]
             rank == [e \in D |-> Rank(e)]
  <1>2. IsFiniteSet(D) /\ n \in Nat /\ D \subseteq Nat
    <2>1. IsFiniteSet(1 .. k) /\ D \subseteq Nat
      BY FS_Interval
    <2> QED  BY <2>1, FS_Subset, FS_CardinalityType
  <1>4. before \in [D -> SUBSET D]
    OBVIOUS
  <1>5. ASSUME NEW d \in D, NEW e \in D, d < e PROVE rank[d] < rank[e]
    <2>1. d \in before[e] /\ d \notin before[d] /\ before[d] \subseteq before[e]
      <3>1. \A c \in D : c \in Nat
        BY <1>2
      <3>2. ~(d < d) /\ \A c \in D : c < d => c < e
        BY <1>5, <3>1
      <3>3. before[d] = {c \in D : c < d} /\ before[e] = {c \in D : c < e}
        OBVIOUS
      <3> HIDE DEF before
      <3> QED  BY <1>5, <3>2, <3>3
    <2>2. Cardinality(before[d]) < Cardinality(before[e])
      <3> HIDE DEF before
      <3> QED  BY <1>2, <1>4, <2>1, FewerBefore
    <2>3. Cardinality(before[d]) \in Nat /\ Cardinality(before[e]) \in Nat
      <3> HIDE DEF before
      <3> QED  BY <1>2, <1>4, FS_Subset, FS_CardinalityType
    <2>4. rank[d] = Cardinality(before[d]) + 1 /\ rank[e] = Cardinality(before[e]) + 1
      OBVIOUS
    <2> HIDE DEF rank, before
    <2> QED  BY <2>2, <2>3, <2>4
  <1>6. \A d, e \in D : rank[d] = rank[e] => d = e
    <2> SUFFICES ASSUME NEW d \in D, NEW e \in D, d # e PROVE rank[d] # rank[e]
      BY Zenon
    <2>0. \A x \in D : rank[x] \in Nat
      <3> TAKE x \in D
      <3>1. rank[x] = Cardinality(before[x]) + 1
        OBVIOUS
      <3>2. Cardinality(before[x]) \in Nat
        <4> HIDE DEF before
        <4> QED  BY <1>2, <1>4, FS_Subset, FS_CardinalityType
      <3> HIDE DEF rank, before
      <3> QED  BY <3>1, <3>2
    <2>1. rank[d] < rank[e] \/ rank[e] < rank[d]
      <3>1. d < e \/ e < d
        BY <1>2
      <3> HIDE DEF rank
      <3> QED  BY <1>5, <3>1
    <2> HIDE DEF rank
    <2> QED  BY <2>0, <2>1
  <1>7. ASSUME NEW e \in D PROVE rank[e] \in 1 .. n
    <2>1. before[e] \in SUBSET (D \ {e})
      BY <1>2
    <2>2. rank[e] = Cardinality(before[e]) + 1
      OBVIOUS
    <2> HIDE DEF before, rank
    <2>3. IsFiniteSet(D \ {e}) /\ Cardinality(D \ {e}) = n - 1
      BY <1>2, FS_RemoveElement
    <2>4. Cardinality(before[e]) <= n - 1 /\ IsFiniteSet(before[e])
      BY <2>1, <2>3, FS_Subset
    <2>5. Cardinality(before[e]) \in Nat
      BY <2>4, FS_CardinalityType
    <2> QED  BY <1>2, <2>2, <2>4, <2>5
  <1>8. \A i \in 1 .. n : \E e \in D : rank[e] = i
    <2>1. rank \in [D -> 1 .. n]
      BY <1>7
    <2> HIDE DEF rank
    <2> QED  BY <1>2, <1>6, <2>1, EveryPlaceTaken
  <1>9. InOrder(D) = [i \in 1 .. n |-> CHOOSE e \in D : Rank(e) = i]
    BY DEF InOrder
  <1>10. ASSUME NEW i \in 1 .. n
         PROVE  InOrder(D)[i] \in D /\ Rank(InOrder(D)[i]) = i
    <2>1. \E e \in D : Rank(e) = i
      BY <1>8
    <2>2. InOrder(D)[i] = CHOOSE e \in D : Rank(e) = i
      BY <1>9
    <2> HIDE DEF Rank
    <2> QED  BY <2>1, <2>2
  <1> HIDE DEF Rank
  <1>11. InOrder(D) \in [1 .. n -> D]
    BY <1>9, <1>10
  <1>12. InOrder(D) \in Seq(D) /\ Len(InOrder(D)) = n
    <2> HIDE DEF n
    <2> QED  BY <1>2, <1>11
  <1>13. \A i, j \in 1 .. n : InOrder(D)[i] = InOrder(D)[j] => i = j
    BY <1>10
  <1> QED  BY <1>2, <1>12, <1>13

DueSet(l, p, loop, stop) == Unqueued(l, Ahead(p, loop, stop)[1]) \cup Unqueued(l, Ahead(p, loop, stop)[2])

\* The due events, none queued: each once, but from before a loop that the
\* window goes past.
LEMMA DueIs ==
    ASSUME NEW l \in Lanes, NEW p \in Nat, NEW loop \in Spans \cup {None}, NEW stop
    PROVE  /\ Len(Due(l, p, loop, stop)) \in Nat /\ Due(l, p, loop, stop) \in Seq(DueSet(l, p, loop, stop))
           /\ ~Overlap(p, loop) =>
                \A i, j \in 1 .. Len(Due(l, p, loop, stop)) :
                  Due(l, p, loop, stop)[i] = Due(l, p, loop, stop)[j] => i = j
  <1> DEFINE first == Unqueued(l, Ahead(p, loop, stop)[1])
             second == Unqueued(l, Ahead(p, loop, stop)[2])
             f == InOrder(first)
             s == InOrder(second)
             D == first \cup second
  <1>1. l.score \in Seq(Nat) /\ Len(l.score) \in Nat
    BY LaneFeedAssumption DEF LaneFeedAssumption, Lanes
  <1>2. first \in SUBSET (1 .. Len(l.score)) /\ second \in SUBSET (1 .. Len(l.score))
    BY <1>1 DEF Unqueued
  <1>3. ASSUME ~Overlap(p, loop), NEW e \in first, e \in second PROVE FALSE
    <2> DEFINE at == l.score[e]
               one == Ahead(p, loop, stop)[1]
               two == Ahead(p, loop, stop)[2]
    <2>1. at \in Nat /\ one[1] <= at /\ at < one[2] /\ two[1] <= at /\ at < two[2]
      BY <1>1, <1>3 DEF Unqueued, Within
    <2> HIDE DEF at
    <2>2. Window \in Nat
      BY LaneFeedAssumption DEF LaneFeedAssumption
    <2>3. CASE loop # None /\ p < loop.end
      <3>1. loop.start \in Nat /\ loop.end \in Nat /\ loop.start < loop.end
        BY <2>3, LaneFeedAssumption DEF LaneFeedAssumption
      <3> DEFINE over == IF p + Window > loop.end THEN p + Window - loop.end ELSE 0
                 limit == IF p >= loop.start THEN p ELSE loop.end
      <3>2. one[1] = p /\ two[1] = loop.start /\ two[2] = Least(loop.start + over, limit)
        BY <2>3 DEF Ahead
      <3> HIDE DEF one, two
      <3>3. CASE p >= loop.start
        BY <2>1, <2>2, <3>1, <3>2, <3>3 DEF Least
      <3>4. CASE p < loop.start
        <4>1. over = 0
          BY <1>3, <2>2, <2>3, <3>1, <3>4 DEF Overlap
        <4> QED  BY <2>1, <2>2, <3>1, <3>2, <4>1 DEF Least
      <3> QED  BY <3>1, <3>3, <3>4
    <2>4. CASE ~(loop # None /\ p < loop.end)
      <3>1. two[1] = p /\ two[2] = p
        BY <2>4 DEF Ahead
      <3> HIDE DEF one, two
      <3> QED  BY <2>1, <3>1
    <2> QED  BY <2>3, <2>4
  <1>4. Due(l, p, loop, stop) = f \o s /\ DueSet(l, p, loop, stop) = D
    BY DEF Due, DueSet
  <1> HIDE DEF first, second
  <1>5. /\ f \in Seq(first) /\ Len(f) \in Nat
        /\ \A i, j \in 1 .. Len(f) : f[i] = f[j] => i = j
        /\ s \in Seq(second) /\ Len(s) \in Nat
        /\ \A i, j \in 1 .. Len(s) : s[i] = s[j] => i = j
    BY <1>1, <1>2, InOrderIs
  <1> HIDE DEF f, s
  <1>6. f \in Seq(D) /\ s \in Seq(D)
    BY <1>5
  <1> DEFINE q == f \o s
  <1>7. /\ q \in Seq(D) /\ Len(q) = Len(f) + Len(s)
        /\ \A i \in 1 .. Len(f) + Len(s) : q[i] = IF i <= Len(f) THEN f[i] ELSE s[i - Len(f)]
    BY <1>6, ConcatProperties
  <1> HIDE DEF q, D
  <1>8. ASSUME ~Overlap(p, loop), NEW i \in 1 .. Len(q), NEW j \in 1 .. Len(q), q[i] = q[j]
        PROVE  i = j
    <2>1. \A k \in 1 .. Len(q) : \/ k \in 1 .. Len(f) /\ q[k] = f[k]
                                 \/ /\ k \notin 1 .. Len(f)
                                    /\ k - Len(f) \in 1 .. Len(s) /\ q[k] = s[k - Len(f)]
      BY <1>5, <1>7
    <2>2. /\ \A k \in 1 .. Len(f) : f[k] \in first
          /\ \A k \in 1 .. Len(s) : s[k] \in second
      BY <1>5
    <2>3. CASE i \in 1 .. Len(f) /\ j \in 1 .. Len(f)
      BY <1>5, <1>8, <2>1, <2>3
    <2>4. CASE i \notin 1 .. Len(f) /\ j \notin 1 .. Len(f)
      <3>1. s[i - Len(f)] = s[j - Len(f)] /\ i - Len(f) \in 1 .. Len(s) /\ j - Len(f) \in 1 .. Len(s)
        BY <1>8, <2>1, <2>4
      <3>2. i - Len(f) = j - Len(f)
        BY <1>5, <3>1
      <3> QED  BY <1>5, <3>2
    <2>5. CASE i \in 1 .. Len(f) /\ j \notin 1 .. Len(f)
      BY <1>3, <1>8, <2>1, <2>2, <2>5
    <2>6. CASE i \notin 1 .. Len(f) /\ j \in 1 .. Len(f)
      BY <1>3, <1>8, <2>1, <2>2, <2>6
    <2> QED  BY <2>3, <2>4, <2>5, <2>6
  <1> QED  BY <1>4, <1>5, <1>7, <1>8 DEF q

\* What is due is on the score, not marked, and a natural number.
LEMMA DueMembers ==
    ASSUME NEW l \in Lanes, NEW p \in Nat, NEW loop, NEW stop, NEW e \in DueSet(l, p, loop, stop)
    PROVE  e \in DOMAIN l.score /\ e \notin l.queued /\ e \in Nat /\ l.score[e] \in Nat
  <1>1. l.score \in Seq(Nat) /\ e \in DOMAIN l.score /\ e \notin l.queued
    BY LaneFeedAssumption DEF LaneFeedAssumption, Lanes, DueSet, Unqueued
  <1> QED  BY <1>1

-----------------------------------------------------------------------------
(* The types. *)

Entry == [op: {"entry"}, generation: Nat, event: Nat, position: Nat]

Other == [op: {"clear"}] \cup [op: {"locate"}, to: Nat]
         \cup [op: {"loop"}, span: Spans \cup {None}] \cup [op: {"run"}, on: BOOLEAN]
         \cup [op: {"end"}, mark: Marks \cup {None}]

Fifo == {c \in Seq(Entry \cup Other) : Len(c) <= FifoCap}

TypeOK ==
    /\ lane \in Lanes \cup {None}
    /\ pending \in Nat \cup {None}
    /\ looping \in Spans \cup {None} /\ span \in Spans \cup {None}
    /\ mark \in Marks \cup {None} /\ end \in Marks \cup {None}
    /\ commands \in Fifo
    /\ entries \in Seq(Entry)
    /\ garbage \in Seq([generation: Nat, event: Nat])
    /\ position \in Nat /\ published \in Nat
    /\ sounded \subseteq Nat
    /\ remade \in BOOLEAN /\ amiss \in Nat

\* The engine's queue is sorted by position (partition_point relies on it).
Sorted == \A i, j \in 1 .. Len(entries) : i < j => entries[i].position <= entries[j].position

(* The invariant, of a lane l and the commands c on their way. *)

HasEntry(c, i) == i \in 1 .. Len(c) /\ c[i].op = "entry"

\* No clear waits among the commands from one place to another, or at all.
NoClear(c, from, to) == \A k \in 1 .. Len(c) : from <= k /\ k <= to => c[k].op # "clear"

Uncleared(c) == \A k \in 1 .. Len(c) : c[k].op # "clear"

\* No two entries on their way, on commands c, queue es or garbage gs, are one
\* event of one generation.
Apart(c, es, gs) ==
    /\ \A i, j \in 1 .. Len(c) :
          HasEntry(c, i) /\ HasEntry(c, j) /\ Tag(c[i]) = Tag(c[j]) => i = j
    /\ \A i, j \in 1 .. Len(es) : Tag(es[i]) = Tag(es[j]) => i = j
    /\ \A i, j \in 1 .. Len(gs) : gs[i] = gs[j] => i = j
    /\ \A i \in 1 .. Len(c), j \in 1 .. Len(es) : HasEntry(c, i) => Tag(c[i]) # Tag(es[j])
    /\ \A i \in 1 .. Len(c), j \in 1 .. Len(gs) : HasEntry(c, i) => Tag(c[i]) # gs[j]
    /\ \A i \in 1 .. Len(es), j \in 1 .. Len(gs) : Tag(es[i]) # gs[j]

Distinct(c) == Apart(c, entries, garbage)

\* What is on its way is of the lane's generation or an earlier one, and marked
\* if it is of the lane's.
Known(l, tag) ==
    /\ l # None
    /\ tag.generation \in 0 .. l.generation
    /\ tag.generation = l.generation => tag.event \in l.queued

AllKnown(l, c) ==
    /\ \A i \in 1 .. Len(c) : HasEntry(c, i) => Known(l, Tag(c[i]))
    /\ \A i \in 1 .. Len(entries) : Known(l, Tag(entries[i]))
    /\ \A i \in 1 .. Len(garbage) : Known(l, garbage[i])

\* A clear comes between two generations.
Cut(c) ==
    /\ \A i, j \in 1 .. Len(entries) : entries[i].generation = entries[j].generation
    /\ \A i \in 1 .. Len(entries), j \in 1 .. Len(c) :
          HasEntry(c, j) /\ NoClear(c, 1, j) => entries[i].generation = c[j].generation
    /\ \A i, j \in 1 .. Len(c) :
          i < j /\ HasEntry(c, i) /\ HasEntry(c, j) /\ NoClear(c, i, j) =>
              c[i].generation = c[j].generation

\* An entry no clear waits behind is of the lane as it is.
Current(l, entry) ==
    /\ l # None
    /\ entry.generation = l.generation
    /\ entry.event \in DOMAIN l.score /\ entry.position = l.score[entry.event]

AllCurrent(l, c) ==
    /\ \A i \in 1 .. Len(c) : HasEntry(c, i) /\ NoClear(c, i, Len(c)) => Current(l, c[i])
    /\ Uncleared(c) => \A i \in 1 .. Len(entries) : Current(l, entries[i])

\* What sounded in this pass the position has passed.
Past(entry) == entry.event \in sounded => entry.position < position

AllPast(l, c) ==
    /\ Uncleared(c) /\ l # None =>
          \A e \in sounded : e \in DOMAIN l.score => l.score[e] < position
    /\ \A i \in 1 .. Len(c) : HasEntry(c, i) /\ NoClear(c, 1, i) => Past(c[i])
    /\ \A i \in 1 .. Len(entries) : Past(entries[i])

\* Before the first lane there is nothing to clear.
Untouched(l, c) == l = None => Uncleared(c) /\ sounded = {}

FeedInv(l, c) ==
    Distinct(c) /\ AllKnown(l, c) /\ Cut(c) /\ AllCurrent(l, c) /\ AllPast(l, c)
        /\ Untouched(l, c)

\* The tag is on its way.
OnWay(c, es, gs, tag) ==
    \/ \E i \in 1 .. Len(c) : HasEntry(c, i) /\ Tag(c[i]) = tag
    \/ \E i \in 1 .. Len(es) : Tag(es[i]) = tag
    \/ \E i \in 1 .. Len(gs) : gs[i] = tag

OnItsWay(c, tag) == OnWay(c, entries, garbage, tag)

Marked(l, c) ==
    l # None => \A e \in l.queued : OnItsWay(c, [generation |-> l.generation, event |-> e])

LaneInvariant ==
    /\ TypeOK /\ Sorted /\ Marked(lane, commands)
    /\ Regular => FeedInv(lane, commands)

\* What the constants give.
LEMMA GoodConstants ==
    /\ FifoCap \in Nat /\ LaneCap \in Nat /\ Block \in Nat
    /\ Scores \subseteq Seq(Nat) /\ NoScore \in Seq(Nat)
    /\ Spans \subseteq [start: Nat, end: Nat] /\ Landings \subseteq Nat
    /\ Marks \subseteq [at: Nat, back: Nat \cup {None}]
  BY LaneFeedAssumption DEF LaneFeedAssumption

\* None is not a lane.
LEMMA NoneIsNoLane == None \notin Lanes
  <1> SUFFICES ASSUME None \in Lanes PROVE FALSE
    OBVIOUS
  <1>1. \A l \in Lanes : l \in [generation: Nat, score: Seq(Nat), queued: SUBSET Nat]
    BY GoodConstants DEF Lanes
  <1> QED  BY <1>1, LaneFeedAssumption DEF LaneFeedAssumption

\* What a lane carries.
LEMMA LaneHas ==
    ASSUME NEW l \in Lanes
    PROVE  l.generation \in Nat /\ l.score \in Seq(Nat) /\ l.queued \in SUBSET Nat
  BY GoodConstants DEF Lanes
-----------------------------------------------------------------------------
(* Appending, clearing and feeding. *)

\* A command that is no entry, at the end of the FIFO.
LEMMA Extended ==
    ASSUME NEW c \in Seq(Entry \cup Other), NEW x \in Other
    PROVE  /\ Append(c, x) \in Seq(Entry \cup Other) /\ Len(Append(c, x)) = Len(c) + 1
           /\ Append(c, x)[Len(c) + 1] = x
           /\ \A i : HasEntry(Append(c, x), i) <=> HasEntry(c, i)
           /\ \A i \in 1 .. Len(c) : Append(c, x)[i] = c[i]
           /\ \A i, j \in 1 .. Len(c) : NoClear(Append(c, x), i, j) <=> NoClear(c, i, j)
           /\ \A j \in 1 .. Len(c) : NoClear(Append(c, x), 1, j) <=> NoClear(c, 1, j)
           /\ \A i \in 1 .. Len(c) : NoClear(Append(c, x), i, Len(c) + 1)
                                       <=> NoClear(c, i, Len(c)) /\ x.op # "clear"
           /\ Uncleared(Append(c, x)) <=> Uncleared(c) /\ x.op # "clear"
  <1> DEFINE d == Append(c, x)
  <1>1. /\ d \in Seq(Entry \cup Other) /\ Len(d) = Len(c) + 1 /\ Len(c) \in Nat
        /\ d[Len(c) + 1] = x /\ \A i \in 1 .. Len(c) : d[i] = c[i]
    BY AppendProperties
  <1>2. x.op # "entry"
    BY DEF Other
  <1> HIDE DEF d
  <1>3. \A i : HasEntry(d, i) <=> HasEntry(c, i)
    BY <1>1, <1>2 DEF HasEntry
  <1>4. \A i, j \in 1 .. Len(c) : NoClear(d, i, j) <=> NoClear(c, i, j)
    BY <1>1 DEF NoClear
  <1>5. \A j \in 1 .. Len(c) : NoClear(d, 1, j) <=> NoClear(c, 1, j)
    BY <1>1 DEF NoClear
  <1>6. \A i \in 1 .. Len(c) : NoClear(d, i, Len(c) + 1) <=> NoClear(c, i, Len(c)) /\ x.op # "clear"
    BY <1>1 DEF NoClear
  <1>7. Uncleared(d) <=> Uncleared(c) /\ x.op # "clear"
    BY <1>1 DEF Uncleared
  <1> QED  BY <1>1, <1>3, <1>4, <1>5, <1>6, <1>7 DEF d

\* What a command that is no entry leaves alone, whatever becomes of the lane.
LEMMA Undisturbed ==
    ASSUME NEW c \in Seq(Entry \cup Other), NEW x \in Other
    PROVE  /\ Distinct(c) => Distinct(Append(c, x))
           /\ Cut(c) => Cut(Append(c, x))
           /\ \A tag : OnItsWay(c, tag) => OnItsWay(Append(c, x), tag)
           /\ (\A i \in 1 .. Len(c) : HasEntry(c, i) /\ NoClear(c, 1, i) => Past(c[i]))
              => \A i \in 1 .. Len(c) + 1 :
                    HasEntry(Append(c, x), i) /\ NoClear(Append(c, x), 1, i)
                      => Past(Append(c, x)[i])
  <1> DEFINE d == Append(c, x)
  <1>1. /\ Len(d) = Len(c) + 1 /\ Len(c) \in Nat
        /\ \A i : HasEntry(d, i) <=> HasEntry(c, i)
        /\ \A i \in 1 .. Len(c) : d[i] = c[i]
        /\ \A i, j \in 1 .. Len(c) : NoClear(d, i, j) <=> NoClear(c, i, j)
        /\ \A j \in 1 .. Len(c) : NoClear(d, 1, j) <=> NoClear(c, 1, j)
    BY Extended
  <1> HIDE DEF d
  <1>2. \A i : HasEntry(c, i) => i \in 1 .. Len(c)
    BY DEF HasEntry
  <1>3. Distinct(c) => Distinct(d)
    BY <1>1, <1>2 DEF Distinct, Apart
  <1>4. Cut(c) => Cut(d)
    BY <1>1, <1>2, SMTT(30) DEF Cut
  <1>5. \A tag : OnItsWay(c, tag) => OnItsWay(d, tag)
    BY <1>1, <1>2 DEF OnItsWay, OnWay
  <1>6. (\A i \in 1 .. Len(c) : HasEntry(c, i) /\ NoClear(c, 1, i) => Past(c[i]))
           => \A i \in 1 .. Len(c) + 1 : HasEntry(d, i) /\ NoClear(d, 1, i) => Past(d[i])
    BY <1>1, <1>2
  <1> QED  BY <1>3, <1>4, <1>5, <1>6 DEF d

\* A command that is neither an entry nor a clear.
LEMMA Appended ==
    ASSUME NEW l \in Lanes \cup {None}, NEW c \in Fifo, NEW x \in Other, x.op # "clear",
           ~Full(c)
    PROVE  /\ Append(c, x) \in Fifo
           /\ FeedInv(l, c) => FeedInv(l, Append(c, x))
           /\ Marked(l, c) => Marked(l, Append(c, x))
  <1> DEFINE d == Append(c, x)
  <1>0. c \in Seq(Entry \cup Other)
    BY DEF Fifo
  <1>1. /\ d \in Seq(Entry \cup Other) /\ Len(d) = Len(c) + 1 /\ Len(c) \in Nat
        /\ \A i : HasEntry(d, i) <=> HasEntry(c, i)
        /\ \A i \in 1 .. Len(c) : d[i] = c[i]
        /\ \A i \in 1 .. Len(c) : NoClear(d, i, Len(c) + 1) <=> NoClear(c, i, Len(c))
        /\ Uncleared(d) <=> Uncleared(c)
    BY <1>0, Extended
  <1>2. /\ Distinct(c) => Distinct(d)
        /\ Cut(c) => Cut(d)
        /\ \A tag : OnItsWay(c, tag) => OnItsWay(d, tag)
        /\ (\A i \in 1 .. Len(c) : HasEntry(c, i) /\ NoClear(c, 1, i) => Past(c[i]))
              => \A i \in 1 .. Len(c) + 1 : HasEntry(d, i) /\ NoClear(d, 1, i) => Past(d[i])
    BY <1>0, Undisturbed
  <1> HIDE DEF d
  <1>3. \A i : HasEntry(c, i) => i \in 1 .. Len(c)
    BY DEF HasEntry
  <1>4. d \in Fifo
    BY <1>1, GoodConstants DEF Fifo, Full
  <1>5. ASSUME FeedInv(l, c) PROVE FeedInv(l, d)
    <2>1. AllKnown(l, d)
      BY <1>1, <1>3, <1>5 DEF FeedInv, AllKnown
    <2>2. AllCurrent(l, d)
      BY <1>1, <1>3, <1>5 DEF FeedInv, AllCurrent
    <2>3. AllPast(l, d)
      BY <1>1, <1>2, <1>5 DEF FeedInv, AllPast
    <2>4. Untouched(l, d)
      BY <1>1, <1>5 DEF FeedInv, Untouched
    <2> QED  BY <1>2, <1>5, <2>1, <2>2, <2>3, <2>4 DEF FeedInv
  <1>6. Marked(l, c) => Marked(l, d)
    BY <1>2 DEF Marked
  <1> QED  BY <1>4, <1>5, <1>6 DEF d

\* A clear, and the lane a generation further with nothing marked, whatever its
\* score: what was sent before is cut off.
LEMMA CutOff ==
    ASSUME NEW l \in Lanes, NEW m \in Lanes, NEW c \in Fifo, ~Full(c),
           m.generation = l.generation + 1, m.queued = {}
    PROVE  /\ Append(c, ClearLane) \in Fifo
           /\ FeedInv(l, c) => FeedInv(m, Append(c, ClearLane))
           /\ Marked(m, Append(c, ClearLane))
  <1> DEFINE d == Append(c, ClearLane)
  <1>0. c \in Seq(Entry \cup Other) /\ ClearLane \in Other /\ ClearLane.op = "clear"
    BY DEF Fifo, ClearLane, Other
  <1>1. /\ d \in Seq(Entry \cup Other) /\ Len(d) = Len(c) + 1 /\ Len(c) \in Nat
        /\ \A i : HasEntry(d, i) <=> HasEntry(c, i)
        /\ \A i \in 1 .. Len(c) : d[i] = c[i]
        /\ \A i \in 1 .. Len(c) : ~NoClear(d, i, Len(c) + 1)
        /\ ~Uncleared(d)
    BY <1>0, Extended
  <1>2. /\ Distinct(c) => Distinct(d)
        /\ Cut(c) => Cut(d)
        /\ (\A i \in 1 .. Len(c) : HasEntry(c, i) /\ NoClear(c, 1, i) => Past(c[i]))
              => \A i \in 1 .. Len(c) + 1 : HasEntry(d, i) /\ NoClear(d, 1, i) => Past(d[i])
    BY <1>0, Undisturbed
  <1> HIDE DEF d
  <1>3. \A i : HasEntry(c, i) => i \in 1 .. Len(c)
    BY DEF HasEntry
  <1>4. d \in Fifo
    BY <1>1, GoodConstants DEF Fifo, Full
  <1>5. ASSUME FeedInv(l, c) PROVE FeedInv(m, d)
    <2>1. AllKnown(m, d)
      <3>1. l.generation \in Nat /\ m # None
        BY LaneHas, NoneIsNoLane
      <3>2. \A tag : Known(l, tag) => Known(m, tag)
        BY <3>1 DEF Known
      <3> QED  BY <1>1, <1>3, <1>5, <3>2 DEF FeedInv, AllKnown
    <2>2. AllCurrent(m, d)
      BY <1>1, <1>3 DEF AllCurrent
    <2>3. AllPast(m, d)
      BY <1>1, <1>2, <1>5 DEF FeedInv, AllPast
    <2>4. Untouched(m, d)
      BY NoneIsNoLane DEF Untouched
    <2> QED  BY <1>2, <1>5, <2>1, <2>2, <2>3, <2>4 DEF FeedInv
  <1>6. Marked(m, d)
    BY DEF Marked
  <1> QED  BY <1>4, <1>5, <1>6 DEF d

\* Lane l and commands c fed with the n events due are m and d, with nothing
\* amiss if each is due once.
FedWith(l, c, n, due, m, d, amissed) ==
    /\ amissed = 0 => \A i, j \in 1 .. n : due[i] = due[j] => i = j
    /\ m = [l EXCEPT !.queued = @ \cup {due[i] : i \in 1 .. n}]
    /\ d \in Fifo
    /\ Len(d) = Len(c) + n
    /\ \A i \in 1 .. Len(c) : d[i] = c[i]
    /\ \A i \in 1 .. n : d[Len(c) + i] = EntryOf(l, due[i])

\* Feeding: entries of the lane's generation at the end of the FIFO, for events
\* on the score that were not marked and now are, each once.
LEMMA FedIs ==
    ASSUME NEW l \in Lanes, NEW p \in Nat, NEW loop \in Spans \cup {None}, NEW stop, NEW c \in Fifo
    PROVE  /\ Fed(l, p, loop, stop, c).amiss \in Nat
           /\ \E n \in Nat : \E due \in [1 .. n -> DueSet(l, p, loop, stop)] :
                FedWith(l, c, n, due, Fed(l, p, loop, stop, c).lane, Fed(l, p, loop, stop, c).commands,
                        Fed(l, p, loop, stop, c).amiss)
  <1> DEFINE q == Due(l, p, loop, stop)
             n == Least(Len(q), FifoCap - Len(c))
             due == [i \in 1 .. n |-> q[i]]
             new == [i \in 1 .. n |-> EntryOf(l, q[i])]
             D == DueSet(l, p, loop, stop)
  <1>1. /\ Len(q) \in Nat /\ q \in Seq(D)
        /\ ~Overlap(p, loop) => \A i, j \in 1 .. Len(q) : q[i] = q[j] => i = j
    BY DueIs
  <1>2. c \in Seq(Entry \cup Other) /\ Len(c) \in Nat /\ Len(c) <= FifoCap /\ FifoCap \in Nat
    BY GoodConstants DEF Fifo
  <1>3. Fed(l, p, loop, stop, c).lane = [l EXCEPT !.queued = @ \cup {q[i] : i \in 1 .. n}]
        /\ Fed(l, p, loop, stop, c).commands = c \o new 
        /\ Fed(l, p, loop, stop, c).amiss = IF Overlap(p, loop) THEN 1 ELSE 0
    BY DEF Fed
  <1> HIDE DEF q
  <1>4. n \in Nat /\ n <= Len(q) /\ Len(c) + n <= FifoCap
    BY <1>1, <1>2 DEF Least
  <1> HIDE DEF n, D
  <1>5. \A i \in 1 .. n : i \in 1 .. Len(q) /\ q[i] \in D
    BY <1>1, <1>4
  <1>6. \A i \in 1 .. n : EntryOf(l, q[i]) \in Entry
    <2> TAKE i \in 1 .. n
    <2>1. q[i] \in Nat /\ l.score[q[i]] \in Nat /\ l.generation \in Nat
      BY <1>5, DueMembers, LaneHas DEF D
    <2> QED  BY <2>1 DEF EntryOf, Entry
  <1>7. new \in Seq(Entry \cup Other) /\ Len(new) = n
    BY <1>4, <1>6
  <1>8. /\ c \o new \in Seq(Entry \cup Other) /\ Len(c \o new) = Len(c) + n
        /\ \A i \in 1 .. Len(c) + n :
             (c \o new)[i] = IF i <= Len(c) THEN c[i] ELSE new[i - Len(c)]
    <2> HIDE DEF new
    <2> QED  BY <1>2, <1>7, ConcatProperties
  <1>9. \A i \in 1 .. n : (c \o new)[Len(c) + i] = EntryOf(l, q[i])
    <2> TAKE i \in 1 .. n
    <2>1. new[i] = EntryOf(l, q[i])
      OBVIOUS
    <2> HIDE DEF new
    <2>2. Len(c) + i \in 1 .. Len(c) + n /\ ~(Len(c) + i <= Len(c)) /\ (Len(c) + i) - Len(c) = i
      BY <1>2, <1>4
    <2> QED  BY <1>8, <2>1, <2>2
  <1>10. \A i \in 1 .. Len(c) : (c \o new)[i] = c[i]
    <2> HIDE DEF new
    <2> QED  BY <1>2, <1>4, <1>8
  <1>11. c \o new \in Fifo
    <2> HIDE DEF new
    <2> QED  BY <1>4, <1>8 DEF Fifo
  <1> HIDE DEF new
  <1>12. due \in [1 .. n -> D] /\ (\A i \in 1 .. n : due[i] = q[i])
    BY <1>5
  <1>13. {q[i] : i \in 1 .. n} = {due[i] : i \in 1 .. n}
    BY <1>12
  <1>14. ~Overlap(p, loop) => \A i, j \in 1 .. n : due[i] = due[j] => i = j
    BY <1>1, <1>5, <1>12
  <1> HIDE DEF due
  <1>15. \A i \in 1 .. n : (c \o new)[Len(c) + i] = EntryOf(l, due[i])
    BY <1>9, <1>12
  <1>16. Fed(l, p, loop, stop, c).amiss \in Nat /\ (Fed(l, p, loop, stop, c).amiss = 0 => ~Overlap(p, loop))
    BY <1>3
  <1>17. FedWith(l, c, n, due, Fed(l, p, loop, stop, c).lane, Fed(l, p, loop, stop, c).commands,
                 Fed(l, p, loop, stop, c).amiss)
    BY <1>3, <1>8, <1>10, <1>11, <1>13, <1>14, <1>15, <1>16 DEF FedWith
  <1> QED  BY <1>4, <1>12, <1>16, <1>17 DEF D

\* Feeding keeps the invariant, and what it marks is on its way.
LEMMA FedKeeps ==
    ASSUME NEW l \in Lanes, NEW p \in Nat, NEW loop \in Spans \cup {None}, NEW stop, NEW c \in Fifo
    PROVE  /\ Fed(l, p, loop, stop, c).lane \in Lanes /\ Fed(l, p, loop, stop, c).commands \in Fifo
           /\ Fed(l, p, loop, stop, c).amiss \in Nat
           /\ FeedInv(l, c) /\ Fed(l, p, loop, stop, c).amiss = 0
                => FeedInv(Fed(l, p, loop, stop, c).lane, Fed(l, p, loop, stop, c).commands)
           /\ Marked(l, c) => Marked(Fed(l, p, loop, stop, c).lane, Fed(l, p, loop, stop, c).commands)
  <1> DEFINE m == Fed(l, p, loop, stop, c).lane
             d == Fed(l, p, loop, stop, c).commands
             amissed == Fed(l, p, loop, stop, c).amiss
  <1>1. PICK n \in Nat : \E due \in [1 .. n -> DueSet(l, p, loop, stop)] :
                           FedWith(l, c, n, due, m, d, amissed)
    BY FedIs
  <1>2. PICK due \in [1 .. n -> DueSet(l, p, loop, stop)] :
              FedWith(l, c, n, due, m, d, amissed)
    BY <1>1
  <1> DEFINE L == Len(c)
             new == {due[i] : i \in 1 .. n}
  <1> HIDE DEF m, d, amissed
  <1>3. L \in Nat /\ l.generation \in Nat /\ l.queued \in SUBSET Nat
    BY LaneHas DEF Fifo
  <1>4. \A i \in 1 .. n : /\ due[i] \in DOMAIN l.score /\ due[i] \notin l.queued
                          /\ due[i] \in Nat /\ due[i] \in new
    BY DueMembers
  <1>5. m \in Lanes /\ m.generation = l.generation /\ m.score = l.score
        /\ m.queued = l.queued \cup new
    <2>1. new \in SUBSET Nat
      BY <1>4
    <2> HIDE DEF new
    <2> QED  BY <1>2, <1>3, <2>1 DEF Lanes, new, FedWith
  <1> HIDE DEF new, L
  \* The FIFO, place by place.
  <1>6. ASSUME NEW i \in L + 1 .. L + n
        PROVE  /\ i - L \in 1 .. n /\ d[i] = EntryOf(l, due[i - L]) /\ d[i].op = "entry"
               /\ Tag(d[i]) = [generation |-> l.generation, event |-> due[i - L]]
               /\ Tag(d[i]).generation = l.generation /\ Tag(d[i]).event = due[i - L]
               /\ d[i].generation = l.generation /\ d[i].event = due[i - L]
               /\ d[i].position = l.score[due[i - L]]
    <2>1. i - L \in 1 .. n /\ i = L + (i - L)
      BY <1>3
    <2>2. d[i] = EntryOf(l, due[i - L])
      BY <1>2, <2>1 DEF L, FedWith
    <2> QED  BY <2>1, <2>2 DEF EntryOf, Tag
  <1>7. Len(d) = L + n /\ \A i \in 1 .. L : d[i] = c[i]
    BY <1>2 DEF L, FedWith
  <1>8. \A i \in 1 .. Len(d) : i \in 1 .. L \/ i \in L + 1 .. L + n
    BY <1>3, <1>7
  <1>9. \A i : HasEntry(c, i) => i \in 1 .. L
    BY DEF HasEntry, L
  <1>10. \A i \in 1 .. L : i \in 1 .. Len(d) /\ (HasEntry(d, i) <=> HasEntry(c, i))
    BY <1>3, <1>7 DEF HasEntry, L
  <1>11. \A i \in L + 1 .. L + n : i \in 1 .. Len(d) /\ HasEntry(d, i)
    <2> TAKE i \in L + 1 .. L + n
    <2>1. i \in 1 .. Len(d)
      BY <1>3, <1>7
    <2> QED  BY <1>6, <2>1 DEF HasEntry
  <1>12. /\ \A i, j \in 1 .. L : NoClear(d, i, j) <=> NoClear(c, i, j)
         /\ \A j \in 1 .. L : NoClear(d, 1, j) <=> NoClear(c, 1, j)
    BY <1>3, <1>7, SMTT(30) DEF NoClear, L
  <1>13. /\ \A i \in 1 .. L, j \in L + 1 .. L + n : NoClear(d, i, j) => NoClear(c, i, L)
         /\ \A i \in 1 .. L : NoClear(d, i, Len(d)) => NoClear(c, i, L)
    BY <1>3, <1>7 DEF NoClear, L
  <1>14. \A j \in L + 1 .. L + n : NoClear(d, 1, j) => Uncleared(c)
    BY <1>3, <1>7 DEF NoClear, Uncleared, L
  <1>15. Uncleared(d) <=> Uncleared(c)
    <2>1. \A k \in L + 1 .. L + n : d[k].op # "clear"
      BY <1>6
    <2>2. \A k \in 1 .. L : k \in 1 .. Len(d)
      BY <1>3, <1>7
    <2> QED  BY <1>7, <1>8, <2>1, <2>2 DEF Uncleared, L
  <1>16. ASSUME FeedInv(l, c), amissed = 0 PROVE FeedInv(m, d)
    <2> USE <1>16 DEF FeedInv
    <2>0. l # None /\ m # None
      BY <1>5, NoneIsNoLane
    <2>1. ASSUME NEW tag, NEW i \in L + 1 .. L + n, tag = Tag(d[i]) PROVE ~Known(l, tag)
      <3>1. tag.generation = l.generation /\ tag.event = due[i - L] /\ i - L \in 1 .. n
        BY <1>6, <2>1
      <3>2. tag.event \notin l.queued
        BY <1>4, <3>1
      <3> QED  BY <3>1, <3>2 DEF Known
    <2>2. Distinct(d)
      <3>1. ASSUME NEW i \in 1 .. Len(d), NEW j \in 1 .. Len(d), HasEntry(d, i), HasEntry(d, j),
                   Tag(d[i]) = Tag(d[j])
            PROVE  i = j
        <4>1. CASE i \in 1 .. L /\ j \in 1 .. L
          BY <1>7, <1>10, <3>1, <4>1 DEF Distinct, Apart, L
        <4>2. CASE i \in 1 .. L /\ j \in L + 1 .. L + n
          BY <1>7, <1>10, <2>1, <3>1, <4>2 DEF AllKnown, L
        <4>3. CASE i \in L + 1 .. L + n /\ j \in 1 .. L
          BY <1>7, <1>10, <2>1, <3>1, <4>3 DEF AllKnown, L
        <4>4. CASE i \in L + 1 .. L + n /\ j \in L + 1 .. L + n
          <5>1. due[i - L] = due[j - L] /\ i - L \in 1 .. n /\ j - L \in 1 .. n
            BY <1>6, <3>1, <4>4
          <5>2. i - L = j - L
            BY <1>2, <1>16, <5>1 DEF FedWith
          <5> QED  BY <1>3, <4>4, <5>2
        <4> QED  BY <1>8, <4>1, <4>2, <4>3, <4>4
      <3>2. ASSUME NEW i \in 1 .. Len(d), NEW j \in 1 .. Len(entries), HasEntry(d, i)
            PROVE  Tag(d[i]) # Tag(entries[j])
        BY <1>7, <1>8, <1>10, <2>1, <3>2 DEF Distinct, Apart, AllKnown, L
      <3>3. ASSUME NEW i \in 1 .. Len(d), NEW j \in 1 .. Len(garbage), HasEntry(d, i)
            PROVE  Tag(d[i]) # garbage[j]
        BY <1>7, <1>8, <1>10, <2>1, <3>3 DEF Distinct, Apart, AllKnown, L
      <3> QED  BY <3>1, <3>2, <3>3 DEF Distinct, Apart
    <2>3. AllKnown(m, d)
      <3>1. \A tag : Known(l, tag) => Known(m, tag)
        BY <1>5, <2>0 DEF Known
      <3>2. \A i \in L + 1 .. L + n : Known(m, Tag(d[i]))
        <4> TAKE i \in L + 1 .. L + n
        <4>1. Tag(d[i]).generation = l.generation /\ Tag(d[i]).event = due[i - L]
          BY <1>6
        <4>2. due[i - L] \in m.queued
          BY <1>4, <1>5, <1>6
        <4> QED  BY <1>3, <1>5, <2>0, <4>1, <4>2 DEF Known
      <3>3. \A i \in 1 .. Len(d) : HasEntry(d, i) => Known(m, Tag(d[i]))
        BY <1>7, <1>8, <1>10, <3>1, <3>2 DEF AllKnown, L
      <3> QED  BY <3>1, <3>3 DEF AllKnown
    <2>4. Cut(d)
      <3>1. ASSUME NEW i \in 1 .. Len(entries), NEW j \in 1 .. Len(d), HasEntry(d, j),
                   NoClear(d, 1, j)
            PROVE  entries[i].generation = d[j].generation
        <4>1. CASE j \in 1 .. L
          BY <1>7, <1>10, <1>12, <3>1, <4>1 DEF Cut, L
        <4>2. CASE j \in L + 1 .. L + n
          <5>1. Uncleared(c)
            BY <1>14, <3>1, <4>2
          <5>2. entries[i].generation = l.generation
            BY <5>1 DEF AllCurrent, Current
          <5> QED  BY <1>6, <4>2, <5>2
        <4> QED  BY <1>8, <4>1, <4>2
      <3>2. ASSUME NEW i \in 1 .. Len(d), NEW j \in 1 .. Len(d), i < j, HasEntry(d, i),
                   HasEntry(d, j), NoClear(d, i, j)
            PROVE  d[i].generation = d[j].generation
        <4>1. CASE i \in 1 .. L /\ j \in 1 .. L
          BY <1>7, <1>10, <1>12, <3>2, <4>1 DEF Cut, L
        <4>2. CASE i \in 1 .. L /\ j \in L + 1 .. L + n
          <5>1. NoClear(c, i, L) /\ HasEntry(c, i)
            BY <1>10, <1>13, <3>2, <4>2
          <5>2. c[i].generation = l.generation
            BY <4>2, <5>1 DEF AllCurrent, Current, L
          <5> QED  BY <1>6, <1>7, <4>2, <5>2
        <4>3. CASE i \in L + 1 .. L + n
          <5>1. j \in L + 1 .. L + n
            BY <1>3, <1>7, <3>2, <4>3
          <5> QED  BY <1>6, <4>3, <5>1
        <4> QED  BY <1>8, <4>1, <4>2, <4>3
      <3> QED  BY <3>1, <3>2 DEF Cut
    <2>5. AllCurrent(m, d)
      <3>1. \A x : Current(l, x) => Current(m, x)
        BY <1>5, <2>0 DEF Current
      <3>2. ASSUME NEW i \in 1 .. Len(d), HasEntry(d, i), NoClear(d, i, Len(d))
            PROVE  Current(m, d[i])
        <4>1. CASE i \in 1 .. L
          BY <1>7, <1>10, <1>13, <3>1, <3>2, <4>1 DEF AllCurrent, L
        <4>2. CASE i \in L + 1 .. L + n
          BY <1>4, <1>5, <1>6, <2>0, <4>2 DEF Current
        <4> QED  BY <1>8, <4>1, <4>2
      <3> QED  BY <1>15, <3>1, <3>2 DEF AllCurrent
    <2>6. AllPast(m, d)
      <3>1. ASSUME NEW i \in 1 .. Len(d), HasEntry(d, i), NoClear(d, 1, i)
            PROVE  Past(d[i])
        <4>1. CASE i \in 1 .. L
          BY <1>7, <1>10, <1>12, <3>1, <4>1 DEF AllPast, L
        <4>2. CASE i \in L + 1 .. L + n
          <5>1. Uncleared(c)
            BY <1>14, <3>1, <4>2
          <5>2. d[i].event \in DOMAIN l.score /\ d[i].position = l.score[d[i].event]
            BY <1>4, <1>6, <4>2
          <5> QED  BY <2>0, <5>1, <5>2 DEF AllPast, Past
        <4> QED  BY <1>8, <4>1, <4>2
      <3>2. Uncleared(d) /\ m # None =>
              \A e \in sounded : e \in DOMAIN m.score => m.score[e] < position
        BY <1>5, <1>15, <2>0 DEF AllPast
      <3> QED  BY <3>1, <3>2 DEF AllPast
    <2>7. Untouched(m, d)
      BY <2>0 DEF Untouched
    <2> QED  BY <2>2, <2>3, <2>4, <2>5, <2>6, <2>7
  <1>17. ASSUME Marked(l, c) PROVE Marked(m, d)
    <2>1. \A tag : OnItsWay(c, tag) => OnItsWay(d, tag)
      BY <1>7, <1>9, <1>10 DEF OnItsWay, OnWay, L
    <2>2. ASSUME NEW e \in m.queued
          PROVE  OnItsWay(d, [generation |-> m.generation, event |-> e])
      <3>1. CASE e \in l.queued
        <4>1. l # None
          BY NoneIsNoLane
        <4> QED  BY <1>5, <1>17, <2>1, <3>1, <4>1 DEF Marked
      <3>2. CASE e \in new
        <4>1. PICK i \in 1 .. n : e = due[i]
          BY <3>2 DEF new
        <4>2. L + i \in L + 1 .. L + n /\ (L + i) - L = i
          BY <1>3
        <4>3. HasEntry(d, L + i) /\ L + i \in 1 .. Len(d)
          BY <1>11, <4>2
        <4>4. Tag(d[L + i]) = [generation |-> m.generation, event |-> e]
          BY <1>5, <1>6, <4>1, <4>2
        <4> QED  BY <4>3, <4>4 DEF OnItsWay, OnWay
      <3> QED  BY <1>5, <3>1, <3>2
    <2> QED  BY <2>2 DEF Marked
  <1>18. d \in Fifo
    BY <1>2 DEF FedWith
  <1> QED  BY <1>5, <1>16, <1>17, <1>18, FedIs DEF m, d, amissed

\* A lane cleared, with another score or the same, and fed again: None stays None.
\* Only the invariant needs the clear to have been taken.
LEMMA RestartedKeeps ==
    ASSUME NEW l \in Lanes \cup {None}, NEW m \in Lanes \cup {None}, l = None <=> m = None,
           l # None => m.generation = l.generation,
           NEW p \in Nat, NEW loop \in Spans \cup {None}, NEW stop, NEW c \in Fifo
    PROVE  /\ Restarted(m, p, loop, stop, c).lane \in Lanes \cup {None}
           /\ Restarted(m, p, loop, stop, c).commands \in Fifo
           /\ Restarted(m, p, loop, stop, c).amiss \in Nat
           /\ Marked(Restarted(m, p, loop, stop, c).lane, Restarted(m, p, loop, stop, c).commands)
           /\ FeedInv(l, c) /\ Restarted(m, p, loop, stop, c).amiss = 0
                => FeedInv(Restarted(m, p, loop, stop, c).lane, Restarted(m, p, loop, stop, c).commands)
  <1> DEFINE r == Restarted(m, p, loop, stop, c)
             z == Cleared(m)
             d == Append(c, ClearLane)
  <1>1. CASE l = None
    <2>1. r.lane = None /\ r.commands = c /\ r.amiss = 0 /\ l = None
      BY <1>1 DEF Restarted
    <2> HIDE DEF r
    <2>2. Marked(r.lane, r.commands)
      BY <2>1 DEF Marked
    <2> QED  BY <2>1, <2>2 DEF r
  <1>2. CASE l # None
    <2>0. m \in Lanes /\ l \in Lanes /\ m # None
      BY <1>2
    <2>1. z \in Lanes /\ z.generation = l.generation + 1 /\ z.queued = {}
      <3>1. m.generation \in Nat /\ m.generation = l.generation
        BY <1>2, <2>0, LaneHas
      <3>2. m.generation + 1 \in Nat /\ m.score \in Scores \cup {NoScore}
        BY <2>0, <3>1 DEF Lanes
      <3>3. z = [generation |-> m.generation + 1, score |-> m.score, queued |-> {}]
        <4>1. m \in [generation: Nat, score: Scores \cup {NoScore}, queued: SUBSET Nat]
          BY <2>0 DEF Lanes
        <4>2. z = [m EXCEPT !.generation = m.generation + 1, !.queued = {}]
          BY DEF Cleared
        <4> HIDE DEF z
        <4> QED  BY <4>1, <4>2
      <3> HIDE DEF z
      <3> QED  BY <3>1, <3>2, <3>3 DEF Lanes
    <2>2. CASE Full(c)
      <3>1. r.lane = z /\ r.commands = c /\ r.amiss = 1
        BY <2>0, <2>2 DEF Restarted
      <3> HIDE DEF r, z
      <3>2. Marked(r.lane, r.commands)
        BY <2>1, <3>1 DEF Marked
      <3> QED  BY <2>1, <3>1, <3>2 DEF r
    <2>3. CASE ~Full(c)
      <3>1. d \in Fifo /\ Marked(z, d) /\ (FeedInv(l, c) => FeedInv(z, d))
        <4> HIDE DEF z
        <4> QED  BY <2>0, <2>1, <2>3, CutOff
      <3>2. r = Fed(z, p, loop, stop, d)
        BY <2>0, <2>3 DEF Restarted
      <3> HIDE DEF r, z, d
      <3>3. /\ r.lane \in Lanes /\ r.commands \in Fifo /\ r.amiss \in Nat
            /\ FeedInv(z, d) /\ r.amiss = 0 => FeedInv(r.lane, r.commands)
            /\ Marked(z, d) => Marked(r.lane, r.commands)
        BY <2>1, <3>1, <3>2, FedKeeps
      <3> QED  BY <3>1, <3>3 DEF r
    <2> QED  BY <2>2, <2>3
  <1> QED  BY <1>1, <1>2
-----------------------------------------------------------------------------
(* What the network thread does. *)

\* A step that leaves the engine's half and the garbage FIFO alone.
LEMMA NetworkStep ==
    ASSUME LaneInvariant, UNCHANGED <<garbage, engine>>,
           lane' \in Lanes \cup {None}, commands' \in Fifo, looping' \in Spans \cup {None},
           mark' \in Marks \cup {None}, pending' \in Nat \cup {None}, published' \in Nat,
           remade' \in BOOLEAN, amiss' \in Nat,
           Marked(lane', commands'), Regular' => FeedInv(lane', commands')
    PROVE  LaneInvariant'
  <1> USE DEF LaneInvariant
  <1>0. /\ UNCHANGED entries /\ UNCHANGED garbage /\ UNCHANGED position /\ UNCHANGED sounded
        /\ UNCHANGED span /\ UNCHANGED end
    BY DEF engine
  <1>1. TypeOK'
    BY <1>0 DEF TypeOK
  <1>2. Sorted'
    BY <1>0 DEF Sorted
  <1>3. Marked(lane, commands)'
    BY <1>0 DEF Marked, OnItsWay, OnWay, HasEntry
  <1>4. ASSUME Regular' PROVE FeedInv(lane, commands)'
    <2> USE <1>4 DEF FeedInv
    <2>1. Distinct(commands)'
      BY <1>0 DEF Distinct, Apart, HasEntry
    <2>2. AllKnown(lane, commands)'
      BY <1>0 DEF AllKnown, HasEntry, Known
    <2>3. Cut(commands)'
      BY <1>0 DEF Cut, HasEntry, NoClear
    <2>4. AllCurrent(lane, commands)'
      BY <1>0 DEF AllCurrent, HasEntry, NoClear, Current, Uncleared
    <2>5. AllPast(lane, commands)'
      BY <1>0 DEF AllPast, HasEntry, NoClear, Past, Uncleared
    <2>6. Untouched(lane, commands)'
      BY <1>0 DEF Untouched, Uncleared
    <2> QED  BY <2>1, <2>2, <2>3, <2>4, <2>5, <2>6
  <1> QED  BY <1>1, <1>2, <1>3, <1>4

\* What the invariant says of the types.
LEMMA Types ==
    ASSUME LaneInvariant
    PROVE  /\ lane \in Lanes \cup {None} /\ commands \in Fifo
           /\ pending \in Nat \cup {None} /\ looping \in Spans \cup {None}
           /\ mark \in Marks \cup {None} /\ published \in Nat /\ remade \in BOOLEAN /\ amiss \in Nat
           /\ Standing \in Nat
           /\ Marked(lane, commands)
           /\ Regular => FeedInv(lane, commands)
  BY DEF LaneInvariant, TypeOK, Standing

\* A command that is not an entry nor a clear, sent if there is room.
LEMMA SentKeeps ==
    ASSUME NEW l \in Lanes \cup {None}, NEW c \in Fifo, NEW x \in Other, x.op # "clear"
    PROVE  /\ Sent(c, x) \in Fifo
           /\ FeedInv(l, c) => FeedInv(l, Sent(c, x))
           /\ Marked(l, c) => Marked(l, Sent(c, x))
  BY Appended DEF Sent

\* feed_lanes keeps the invariant.
LEMMA FeedKeeps == LaneInvariant /\ Feed => LaneInvariant'
  <1> SUFFICES ASSUME LaneInvariant, Feed PROVE LaneInvariant'
    OBVIOUS
  <1> DEFINE fed == Fed(lane, Standing, looping, mark, commands)
  <1>1. lane \in Lanes /\ commands \in Fifo /\ Standing \in Nat
    BY Types DEF Feed, CanFeed
  <1>2. /\ lane' = fed.lane /\ commands' = fed.commands
        /\ amiss' = amiss + fed.amiss
        /\ UNCHANGED <<garbage, engine, looping, mark, pending, published, remade>>
    BY DEF Feed, Outcome, clock
  <1> HIDE DEF fed
  <1>3. lane' \in Lanes /\ commands' \in Fifo /\ fed.amiss \in Nat
        /\ (FeedInv(lane, commands) /\ fed.amiss = 0 => FeedInv(lane', commands'))
        /\ (Marked(lane, commands) => Marked(lane', commands'))
    BY <1>1, <1>2, Types, FedKeeps DEF fed
  <1> QED  BY <1>2, <1>3, Types, NetworkStep DEF Regular

\* /lane_new keeps it: over an existing lane it is not regular any more.
LEMMA MakeKeeps == LaneInvariant /\ Make => LaneInvariant'
  <1> SUFFICES ASSUME LaneInvariant, Make PROVE LaneInvariant'
    OBVIOUS
  <1>1. /\ lane' = [generation |-> 0, score |-> NoScore, queued |-> {}]
        /\ commands' = IF lane = None THEN commands ELSE Sent(commands, ClearLane)
        /\ remade' = (remade \/ lane # None)
        /\ amiss' = IF lane # None /\ Full(commands) THEN amiss + 1 ELSE amiss
        /\ UNCHANGED <<garbage, engine, looping, mark, pending, published>>
    BY DEF Make, clock
  <1>2. lane' \in Lanes /\ lane'.queued = {} /\ lane'.score = NoScore /\ lane' # None
    <2>1. lane' \in Lanes
      BY <1>1 DEF Lanes
    <2> QED  BY <1>1, <2>1, NoneIsNoLane
  <1>3. commands' \in Fifo
    <2>1. ClearLane \in Other
      BY DEF ClearLane, Other
    <2>2. commands \in Fifo /\ FifoCap \in Nat
      BY Types, GoodConstants
    <2>3. CASE Full(commands)
      BY <1>1, <2>2, <2>3 DEF Sent
    <2>4. CASE ~Full(commands)
      <3>1. Append(commands, ClearLane) \in Seq(Entry \cup Other)
            /\ Len(Append(commands, ClearLane)) = Len(commands) + 1
        BY <2>1, <2>2, Extended DEF Fifo
      <3>2. Append(commands, ClearLane) \in Fifo
        BY <2>2, <2>4, <3>1 DEF Fifo, Full
      <3> QED  BY <1>1, <2>2, <3>2 DEF Sent
    <2> QED  BY <2>3, <2>4
  <1>4. Marked(lane', commands')
    BY <1>2 DEF Marked
  <1>5. ASSUME Regular' PROVE FeedInv(lane', commands')
    <2>1. lane = None /\ Regular /\ commands' = commands
      BY <1>1, <1>5, Types DEF Regular
    <2>2. FeedInv(lane, commands) /\ Uncleared(commands) /\ sounded = {}
      BY <2>1, Types DEF FeedInv, Untouched
    <2>3. /\ \A i \in 1 .. Len(commands) : ~HasEntry(commands, i)
          /\ 1 .. Len(entries) = {} /\ 1 .. Len(garbage) = {}
      BY <2>1, <2>2 DEF FeedInv, AllKnown, Known
    <2>4. Distinct(commands) /\ Cut(commands)
      BY <2>2 DEF FeedInv
    <2>5. AllKnown(lane', commands)
      BY <2>3 DEF AllKnown
    <2>6. AllCurrent(lane', commands)
      BY <2>3 DEF AllCurrent
    <2>7. AllPast(lane', commands)
      BY <2>2, <2>3 DEF AllPast
    <2>8. Untouched(lane', commands)
      BY <1>2 DEF Untouched
    <2> QED  BY <2>1, <2>4, <2>5, <2>6, <2>7, <2>8 DEF FeedInv
  <1>6. remade' \in BOOLEAN /\ amiss' \in Nat
    BY <1>1, Types
  <1> QED  BY <1>1, <1>2, <1>3, <1>4, <1>5, <1>6, Types, NetworkStep

\* /lane_free keeps it: what it leaves is not regular.
LEMMA FreeLaneKeeps == LaneInvariant /\ FreeLane => LaneInvariant'
  <1> SUFFICES ASSUME LaneInvariant, FreeLane PROVE LaneInvariant'
    OBVIOUS
  <1>1. /\ lane' = None /\ commands' = Sent(commands, ClearLane)
        /\ remade' = TRUE /\ amiss' = IF Full(commands) THEN amiss + 1 ELSE amiss
        /\ UNCHANGED <<garbage, engine, looping, mark, pending, published>>
    BY DEF FreeLane, clock
  <1>3. commands' \in Fifo
    <2>1. ClearLane \in Other
      BY DEF ClearLane, Other
    <2>2. commands \in Fifo /\ FifoCap \in Nat
      BY Types, GoodConstants
    <2>3. CASE Full(commands)
      BY <1>1, <2>2, <2>3 DEF Sent
    <2>4. CASE ~Full(commands)
      <3>1. Append(commands, ClearLane) \in Seq(Entry \cup Other)
            /\ Len(Append(commands, ClearLane)) = Len(commands) + 1
        BY <2>1, <2>2, Extended DEF Fifo
      <3>2. Append(commands, ClearLane) \in Fifo
        BY <2>2, <2>4, <3>1 DEF Fifo, Full
      <3> QED  BY <1>1, <2>4, <3>2 DEF Sent
    <2> QED  BY <2>3, <2>4
  <1>4. Marked(lane', commands') /\ ~Regular'
    BY <1>1 DEF Marked, Regular
  <1>5. amiss' \in Nat
    BY <1>1, Types
  <1> QED  BY <1>1, <1>3, <1>4, <1>5, Types, NetworkStep

\* /lane_set keeps it.
LEMMA SetScoreKeeps ==
    ASSUME LaneInvariant, NEW score \in Scores, SetScore(score)
    PROVE  LaneInvariant'
  <1> DEFINE m == [lane EXCEPT !.score = score]
             r == Restarted(m, Standing, looping, mark, commands)
  <1>1. /\ lane # None
        /\ lane' = r.lane /\ amiss' = amiss + r.amiss /\ commands' = r.commands
        /\ UNCHANGED <<garbage, engine, looping, mark, pending, published, remade>>
    BY DEF SetScore, Outcome, clock
  <1>2. m \in Lanes /\ m.generation = lane.generation /\ lane \in Lanes /\ m # None
    <2>1. lane \in Lanes
      BY <1>1, Types
    <2>2. m \in Lanes /\ m.generation = lane.generation
      BY <2>1 DEF Lanes
    <2> QED  BY <2>1, <2>2, NoneIsNoLane
  <1> HIDE DEF m
  <1>3. /\ r.lane \in Lanes \cup {None} /\ r.commands \in Fifo /\ r.amiss \in Nat
        /\ Marked(r.lane, r.commands)
        /\ FeedInv(lane, commands) /\ r.amiss = 0 => FeedInv(r.lane, r.commands)
    BY <1>1, <1>2, Types, RestartedKeeps
  <1> HIDE DEF r
  <1> QED  BY <1>1, <1>3, Types, NetworkStep DEF Regular

\* A locate keeps it: the clear, what is due from where it lands, the locate.
LEMMA LocateKeeps ==
    ASSUME LaneInvariant, NEW p \in Landings, Locate(p)
    PROVE  LaneInvariant'
  <1> DEFINE r == Restarted(lane, p, looping, mark, commands)
             x == [op |-> "locate", to |-> p]
  <1>1. /\ lane' = r.lane /\ amiss' = amiss + r.amiss
        /\ commands' = Sent(r.commands, x)
        /\ pending' = IF Full(r.commands) THEN pending ELSE p
        /\ UNCHANGED <<garbage, engine, looping, mark, published, remade>>
    BY DEF Locate, Outcome, clock
  <1>2. p \in Nat
    BY GoodConstants
  <1>3. /\ r.lane \in Lanes \cup {None} /\ r.commands \in Fifo /\ r.amiss \in Nat
        /\ Marked(r.lane, r.commands)
        /\ FeedInv(lane, commands) /\ r.amiss = 0 => FeedInv(r.lane, r.commands)
    BY <1>2, Types, RestartedKeeps
  <1>4. x \in Other /\ x.op # "clear"
    BY <1>2 DEF Other
  <1> HIDE DEF r, x
  <1>5. /\ commands' \in Fifo /\ Marked(lane', commands')
        /\ FeedInv(r.lane, r.commands) => FeedInv(lane', commands')
    BY <1>1, <1>3, <1>4, SentKeeps
  <1>6. pending' \in Nat \cup {None} /\ amiss' \in Nat
    BY <1>1, <1>2, <1>3, Types
  <1> QED  BY <1>1, <1>3, <1>5, <1>6, Types, NetworkStep DEF Regular

\* A loop keeps it: the engine's half, the clear, what is due in the loop.
LEMMA SetLoopKeeps ==
    ASSUME LaneInvariant, NEW loop \in Spans \cup {None}, SetLoop(loop)
    PROVE  LaneInvariant'
  <1> DEFINE x == [op |-> "loop", span |-> loop]
             c == Append(commands, x)
             r == Restarted(lane, Standing, loop, mark, c)
  <1>1. /\ ~Full(commands)
        /\ lane' = r.lane /\ amiss' = amiss + r.amiss
        /\ commands' = r.commands /\ looping' = loop
        /\ UNCHANGED <<garbage, engine, mark, pending, published, remade>>
    BY DEF SetLoop, Outcome, clock
  <1>2. x \in Other /\ x.op # "clear"
    BY DEF Other
  <1> HIDE DEF x
  <1>3. /\ c \in Fifo /\ (FeedInv(lane, commands) => FeedInv(lane, c))
    BY <1>1, <1>2, Types, Appended
  <1> HIDE DEF c
  <1>4. /\ r.lane \in Lanes \cup {None} /\ r.commands \in Fifo /\ r.amiss \in Nat
        /\ Marked(r.lane, r.commands)
        /\ FeedInv(lane, c) /\ r.amiss = 0 => FeedInv(r.lane, r.commands)
    BY <1>3, Types, RestartedKeeps
  <1> HIDE DEF r
  <1> QED  BY <1>1, <1>3, <1>4, Types, NetworkStep DEF Regular

\* A play or a stop keeps it.
LEMMA PlayKeeps ==
    ASSUME LaneInvariant, NEW on \in BOOLEAN, Play(on)
    PROVE  LaneInvariant'
  <1> DEFINE x == [op |-> "run", on |-> on]
  <1>1. /\ ~Full(commands) /\ commands' = Append(commands, x)
        /\ UNCHANGED <<lane, garbage, engine, looping, mark, pending, published, remade, amiss>>
    BY DEF Play, network, clock
  <1>2. x \in Other /\ x.op # "clear"
    BY DEF Other
  <1> HIDE DEF x
  <1>3. /\ commands' \in Fifo
        /\ FeedInv(lane, commands) => FeedInv(lane', commands')
        /\ Marked(lane, commands) => Marked(lane', commands')
    BY <1>1, <1>2, Types, Appended
  <1> QED  BY <1>1, <1>3, Types, NetworkStep DEF Regular

\* An end mark keeps it: the lane is left as it is.
LEMMA SetMarkKeeps ==
    ASSUME LaneInvariant, NEW stop \in Marks \cup {None}, SetMark(stop)
    PROVE  LaneInvariant'
  <1> DEFINE x == [op |-> "end", mark |-> stop]
  <1>1. /\ ~Full(commands) /\ commands' = Append(commands, x) /\ mark' = stop
        /\ UNCHANGED <<lane, garbage, engine, looping, pending, published, remade, amiss>>
    BY DEF SetMark, clock
  <1>2. x \in Other /\ x.op # "clear"
    BY DEF Other
  <1> HIDE DEF x
  <1>3. /\ commands' \in Fifo
        /\ FeedInv(lane, commands) => FeedInv(lane', commands')
        /\ Marked(lane, commands) => Marked(lane', commands')
    BY <1>1, <1>2, Types, Appended
  <1> QED  BY <1>1, <1>3, Types, NetworkStep DEF Regular

-----------------------------------------------------------------------------
(* An entry on its way moves on. *)

\* What is on its way is what the lane knows.
LEMMA KnownIsAll ==
    ASSUME NEW l, NEW c
    PROVE  AllKnown(l, c) <=> \A tag : OnItsWay(c, tag) => Known(l, tag)
  BY DEF AllKnown, OnItsWay, OnWay, HasEntry

\* The FIFO without its head.
LEMMA Popped ==
    ASSUME NEW c \in Fifo, c # <<>>
    PROVE  /\ Tail(c) \in Fifo /\ Len(c) \in Nat \ {0} /\ Len(Tail(c)) = Len(c) - 1
           /\ Head(c) = c[1] /\ Head(c) \in Entry \cup Other
           /\ \A i \in 1 .. Len(Tail(c)) : Tail(c)[i] = c[i + 1] /\ i + 1 \in 1 .. Len(c)
           /\ \A i \in 1 .. Len(Tail(c)) : HasEntry(Tail(c), i) <=> HasEntry(c, i + 1)
           /\ \A i \in 1 .. Len(c) : i = 1 \/ (i - 1 \in 1 .. Len(Tail(c)) /\ (i - 1) + 1 = i)
           /\ HasEntry(c, 1) <=> Head(c).op = "entry"
  <1>1. c \in Seq(Entry \cup Other) /\ Len(c) \in Nat \ {0} /\ Len(c) <= FifoCap /\ FifoCap \in Nat
    BY GoodConstants DEF Fifo
  <1>2. /\ Tail(c) \in Seq(Entry \cup Other) /\ Len(Tail(c)) = Len(c) - 1
        /\ Head(c) = c[1] /\ Head(c) \in Entry \cup Other
        /\ \A i \in 1 .. Len(Tail(c)) : Tail(c)[i] = c[i + 1]
    BY <1>1, HeadTailProperties
  <1>3. Tail(c) \in Fifo
    BY <1>1, <1>2 DEF Fifo
  <1>4. \A i \in 1 .. Len(Tail(c)) : i + 1 \in 1 .. Len(c)
    BY <1>1, <1>2
  <1>5. \A i \in 1 .. Len(Tail(c)) : HasEntry(Tail(c), i) <=> HasEntry(c, i + 1)
    BY <1>2, <1>4 DEF HasEntry
  <1>6. \A i \in 1 .. Len(c) : i = 1 \/ (i - 1 \in 1 .. Len(Tail(c)) /\ (i - 1) + 1 = i)
    BY <1>1, <1>2
  <1>7. HasEntry(c, 1) <=> Head(c).op = "entry"
    BY <1>1, <1>2 DEF HasEntry
  <1> QED  BY <1>1, <1>2, <1>3, <1>4, <1>5, <1>6, <1>7

\* What waits behind the head still has no clear before it, if the head is none.
LEMMA PoppedClears ==
    ASSUME NEW c \in Fifo, c # <<>>
    PROVE  /\ \A i, j \in 1 .. Len(Tail(c)) : NoClear(Tail(c), i, j) => NoClear(c, i + 1, j + 1)
           /\ \A i \in 1 .. Len(Tail(c)) :
                NoClear(Tail(c), i, Len(Tail(c))) => NoClear(c, i + 1, Len(c))
           /\ Head(c).op # "clear" => \A i \in 1 .. Len(Tail(c)) :
                NoClear(Tail(c), 1, i) => NoClear(c, 1, i + 1)
           /\ Head(c).op # "clear" /\ Uncleared(Tail(c)) => Uncleared(c)
  <1> DEFINE d == Tail(c)
  <1>1. /\ Len(c) \in Nat \ {0} /\ Len(d) = Len(c) - 1 /\ Head(c) = c[1]
        /\ \A i \in 1 .. Len(d) : d[i] = c[i + 1]
        /\ \A i \in 1 .. Len(c) : i = 1 \/ (i - 1 \in 1 .. Len(d) /\ (i - 1) + 1 = i)
    BY Popped
  <1> HIDE DEF d
  <1>2. \A k \in 1 .. Len(c) : k = 1 \/ c[k] = d[k - 1]
    BY <1>1
  <1>3. ASSUME NEW i \in 1 .. Len(d), NEW j \in Nat, NoClear(d, i, j)
        PROVE  NoClear(c, i + 1, j + 1)
    <2> SUFFICES ASSUME NEW k \in 1 .. Len(c), i + 1 <= k, k <= j + 1 PROVE c[k].op # "clear"
      BY DEF NoClear
    <2>1. k - 1 \in 1 .. Len(d) /\ i <= k - 1 /\ k - 1 <= j /\ c[k] = d[k - 1]
      BY <1>1, <1>2
    <2> QED  BY <1>3, <2>1 DEF NoClear
  <1>4. \A i, j \in 1 .. Len(d) : NoClear(d, i, j) => NoClear(c, i + 1, j + 1)
    BY <1>3
  <1>5. \A i \in 1 .. Len(d) : NoClear(d, i, Len(d)) => NoClear(c, i + 1, Len(c))
    <2>1. Len(d) \in Nat /\ Len(d) + 1 = Len(c)
      BY <1>1
    <2> QED  BY <1>3, <2>1
  <1>6. ASSUME Head(c).op # "clear", NEW i \in 1 .. Len(d), NoClear(d, 1, i)
        PROVE  NoClear(c, 1, i + 1)
    <2> SUFFICES ASSUME NEW k \in 1 .. Len(c), k <= i + 1 PROVE c[k].op # "clear"
      BY DEF NoClear
    <2>1. CASE k = 1
      BY <1>1, <1>6, <2>1
    <2>2. CASE k # 1
      <3>1. k - 1 \in 1 .. Len(d) /\ 1 <= k - 1 /\ k - 1 <= i /\ c[k] = d[k - 1]
        BY <1>1, <1>2, <2>2
      <3> QED  BY <1>6, <3>1 DEF NoClear
    <2> QED  BY <2>1, <2>2
  <1>7. ASSUME Head(c).op # "clear", Uncleared(d) PROVE Uncleared(c)
    <2> SUFFICES ASSUME NEW k \in 1 .. Len(c) PROVE c[k].op # "clear"
      BY DEF Uncleared
    <2> QED  BY <1>1, <1>2, <1>7 DEF Uncleared
  <1> QED  BY <1>4, <1>5, <1>6, <1>7 DEF d

\* The queue and the garbage are sequences of what a tag is taken of.
Spent == [generation: Nat, event: Nat]

\* The entries of the FIFO without its head are those of the FIFO but the head.
LEMMA PoppedEntries ==
    ASSUME NEW c \in Fifo, c # <<>>
    PROVE  /\ \A i \in 1 .. Len(Tail(c)) : HasEntry(Tail(c), i) =>
                \E k \in 1 .. Len(c) : k # 1 /\ HasEntry(c, k) /\ c[k] = Tail(c)[i]
           /\ (\A i, j \in 1 .. Len(c) :
                  HasEntry(c, i) /\ HasEntry(c, j) /\ Tag(c[i]) = Tag(c[j]) => i = j)
              => \A i, j \in 1 .. Len(Tail(c)) :
                    HasEntry(Tail(c), i) /\ HasEntry(Tail(c), j)
                      /\ Tag(Tail(c)[i]) = Tag(Tail(c)[j]) => i = j
           /\ \A tag : (\E i \in 1 .. Len(c) : HasEntry(c, i) /\ Tag(c[i]) = tag)
                <=> \/ Head(c).op = "entry" /\ Tag(Head(c)) = tag
                    \/ \E i \in 1 .. Len(Tail(c)) : HasEntry(Tail(c), i) /\ Tag(Tail(c)[i]) = tag
  <1> DEFINE d == Tail(c)
             e == Head(c)
  <1>1. /\ Len(c) \in Nat \ {0} /\ Len(d) = Len(c) - 1 /\ e = c[1]
        /\ \A i \in 1 .. Len(d) : d[i] = c[i + 1] /\ i + 1 \in 1 .. Len(c)
        /\ \A i \in 1 .. Len(d) : HasEntry(d, i) <=> HasEntry(c, i + 1)
        /\ \A i \in 1 .. Len(c) : i = 1 \/ (i - 1 \in 1 .. Len(d) /\ (i - 1) + 1 = i)
        /\ HasEntry(c, 1) <=> e.op = "entry"
    BY Popped
  <1> HIDE DEF d, e
  <1>2. ASSUME NEW i \in 1 .. Len(d), HasEntry(d, i)
        PROVE  i + 1 \in 1 .. Len(c) /\ i + 1 # 1 /\ HasEntry(c, i + 1) /\ c[i + 1] = d[i]
    BY <1>1, <1>2
  <1>3. ASSUME NEW i \in 1 .. Len(c), HasEntry(c, i), i # 1
        PROVE  i - 1 \in 1 .. Len(d) /\ HasEntry(d, i - 1) /\ d[i - 1] = c[i]
    <2>1. i - 1 \in 1 .. Len(d) /\ (i - 1) + 1 = i
      BY <1>1, <1>3
    <2>2. d[i - 1] = c[(i - 1) + 1] /\ (HasEntry(d, i - 1) <=> HasEntry(c, (i - 1) + 1))
      BY <1>1, <2>1
    <2> QED  BY <1>3, <2>1, <2>2
  <1>4. ASSUME \A i, j \in 1 .. Len(c) :
                 HasEntry(c, i) /\ HasEntry(c, j) /\ Tag(c[i]) = Tag(c[j]) => i = j,
               NEW i \in 1 .. Len(d), NEW j \in 1 .. Len(d),
               HasEntry(d, i), HasEntry(d, j), Tag(d[i]) = Tag(d[j])
        PROVE  i = j
    <2>1. /\ i + 1 \in 1 .. Len(c) /\ HasEntry(c, i + 1) /\ c[i + 1] = d[i]
          /\ j + 1 \in 1 .. Len(c) /\ HasEntry(c, j + 1) /\ c[j + 1] = d[j]
      BY <1>2, <1>4
    <2>2. i + 1 = j + 1
      BY <1>4, <2>1
    <2> QED  BY <2>2
  <1>5. ASSUME NEW tag
        PROVE  (\E i \in 1 .. Len(c) : HasEntry(c, i) /\ Tag(c[i]) = tag)
                <=> \/ e.op = "entry" /\ Tag(e) = tag
                    \/ \E i \in 1 .. Len(d) : HasEntry(d, i) /\ Tag(d[i]) = tag
    <2>1. ASSUME NEW i \in 1 .. Len(c), HasEntry(c, i), Tag(c[i]) = tag
          PROVE  \/ e.op = "entry" /\ Tag(e) = tag
                 \/ \E k \in 1 .. Len(d) : HasEntry(d, k) /\ Tag(d[k]) = tag
      <3>1. CASE i = 1
        BY <1>1, <2>1, <3>1
      <3>2. CASE i # 1
        BY <1>3, <2>1, <3>2
      <3> QED  BY <3>1, <3>2
    <2>2. ASSUME NEW i \in 1 .. Len(d), HasEntry(d, i), Tag(d[i]) = tag
          PROVE  \E k \in 1 .. Len(c) : HasEntry(c, k) /\ Tag(c[k]) = tag
      BY <1>2, <2>2
    <2>3. e.op = "entry" /\ Tag(e) = tag => \E k \in 1 .. Len(c) : HasEntry(c, k) /\ Tag(c[k]) = tag
      BY <1>1
    <2> QED  BY <2>1, <2>2, <2>3
  <1> QED  BY <1>2, <1>4, <1>5 DEF d, e

\* A head that is no entry leaves the FIFO.
LEMMA PoppedApart ==
    ASSUME NEW c \in Fifo, c # <<>>, Head(c).op # "entry", NEW es, NEW gs
    PROVE  /\ Apart(c, es, gs) => Apart(Tail(c), es, gs)
           /\ \A tag : OnWay(Tail(c), es, gs, tag) <=> OnWay(c, es, gs, tag)
  <1>1. ASSUME Apart(c, es, gs) PROVE Apart(Tail(c), es, gs)
    BY <1>1, PoppedEntries, SMTT(30) DEF Apart
  <1>2. ASSUME NEW tag
        PROVE  OnWay(Tail(c), es, gs, tag) <=> OnWay(c, es, gs, tag)
    <2>1. (\E i \in 1 .. Len(c) : HasEntry(c, i) /\ Tag(c[i]) = tag)
            <=> \E i \in 1 .. Len(Tail(c)) : HasEntry(Tail(c), i) /\ Tag(Tail(c)[i]) = tag
      BY PoppedEntries
    <2> QED  BY <2>1 DEF OnWay
  <1> QED  BY <1>1, <1>2

\* An entry the queue has no room for comes back spent.
LEMMA TakenApart ==
    ASSUME NEW c \in Fifo, c # <<>>, Head(c).op = "entry", NEW es, NEW gs \in Seq(Spent)
    PROVE  /\ Append(gs, Tag(Head(c))) \in Seq(Spent)
           /\ Apart(c, es, gs) => Apart(Tail(c), es, Append(gs, Tag(Head(c))))
           /\ \A tag : OnWay(Tail(c), es, Append(gs, Tag(Head(c))), tag) <=> OnWay(c, es, gs, tag)
  <1> DEFINE d == Tail(c)
             t == Tag(Head(c))
             hs == Append(gs, t)
  <1>0. /\ \A i \in 1 .. Len(d) : HasEntry(d, i) =>
             \E k \in 1 .. Len(c) : k # 1 /\ HasEntry(c, k) /\ c[k] = d[i]
        /\ (\A i, j \in 1 .. Len(c) :
                  HasEntry(c, i) /\ HasEntry(c, j) /\ Tag(c[i]) = Tag(c[j]) => i = j)
              => \A i, j \in 1 .. Len(d) :
                    HasEntry(d, i) /\ HasEntry(d, j) /\ Tag(d[i]) = Tag(d[j]) => i = j
        /\ \A tag : (\E i \in 1 .. Len(c) : HasEntry(c, i) /\ Tag(c[i]) = tag)
                <=> \/ Tag(Head(c)) = tag
                    \/ \E i \in 1 .. Len(d) : HasEntry(d, i) /\ Tag(d[i]) = tag
    BY PoppedEntries
  <1>1. Len(c) \in Nat \ {0} /\ HasEntry(c, 1) /\ Head(c) = c[1] /\ Head(c) \in Entry \cup Other
    BY Popped
  <1> HIDE DEF d
  <1>2. t \in Spent
    <2>1. Head(c) \in Entry
      BY <1>1 DEF Other
    <2> QED  BY <2>1 DEF Tag, Entry, Spent
  <1>3. t = Tag(c[1]) /\ 1 \in 1 .. Len(c)
    BY <1>1
  <1> HIDE DEF t
  <1>4. /\ hs \in Seq(Spent) /\ Len(hs) = Len(gs) + 1 /\ Len(gs) \in Nat
        /\ hs[Len(gs) + 1] = t /\ \A i \in 1 .. Len(gs) : hs[i] = gs[i]
    BY <1>2, AppendProperties
  <1> HIDE DEF hs
  <1>5. /\ \A i \in 1 .. Len(hs) : i \in 1 .. Len(gs) \/ i = Len(gs) + 1
        /\ \A i \in 1 .. Len(gs) : i \in 1 .. Len(hs)
        /\ Len(gs) + 1 \in 1 .. Len(hs)
    BY <1>4
  <1>7. ASSUME Apart(c, es, gs) PROVE Apart(d, es, hs)
    <2> USE <1>7 DEF Apart
    <2>1. \A i, j \in 1 .. Len(d) : HasEntry(d, i) /\ HasEntry(d, j) /\ Tag(d[i]) = Tag(d[j]) => i = j
      BY <1>0
    <2>2. \A i, j \in 1 .. Len(hs) : hs[i] = hs[j] => i = j
      <3>1. \A i, j \in 1 .. Len(gs) : gs[i] = gs[j] => i = j
        OBVIOUS
      <3>2. \A i \in 1 .. Len(gs) : gs[i] # t
        BY <1>1, <1>3
      <3> HIDE <1>7
      <3> HIDE DEF Apart
      <3> QED  BY <1>4, <1>5, <3>1, <3>2
    <2>3. \A i \in 1 .. Len(d), j \in 1 .. Len(es) : HasEntry(d, i) => Tag(d[i]) # Tag(es[j])
      BY <1>0
    <2>4. \A i \in 1 .. Len(d), j \in 1 .. Len(hs) : HasEntry(d, i) => Tag(d[i]) # hs[j]
      <3>1. \A i \in 1 .. Len(d) : HasEntry(d, i) => Tag(d[i]) # t
        BY <1>0, <1>1, <1>3
      <3>2. \A i \in 1 .. Len(d), j \in 1 .. Len(gs) : HasEntry(d, i) => Tag(d[i]) # gs[j]
        BY <1>0
      <3> HIDE <1>7
      <3> HIDE DEF Apart
      <3> QED  BY <1>4, <1>5, <3>1, <3>2
    <2>5. \A i \in 1 .. Len(es), j \in 1 .. Len(hs) : Tag(es[i]) # hs[j]
      BY <1>1, <1>3, <1>4, <1>5, SMTT(30)
    <2> QED  BY <2>1, <2>2, <2>3, <2>4, <2>5
  <1>8. ASSUME NEW tag
        PROVE  OnWay(d, es, hs, tag) <=> OnWay(c, es, gs, tag)
    <2>1. (\E i \in 1 .. Len(c) : HasEntry(c, i) /\ Tag(c[i]) = tag)
            <=> t = tag \/ \E i \in 1 .. Len(d) : HasEntry(d, i) /\ Tag(d[i]) = tag
      BY <1>0 DEF t
    <2>2. (\E i \in 1 .. Len(hs) : hs[i] = tag) <=> t = tag \/ \E i \in 1 .. Len(gs) : gs[i] = tag
      BY <1>4, <1>5
    <2> QED  BY <2>1, <2>2 DEF OnWay
  <1> QED  BY <1>4, <1>7, <1>8 DEF d, hs, t

\* An entry joins the queue at some place.
LEMMA JoinedApart ==
    ASSUME NEW c \in Fifo, c # <<>>, Head(c).op = "entry", NEW es \in Seq(Entry), NEW gs,
           NEW k \in 1 .. Len(es) + 1
    PROVE  /\ Apart(c, es, gs) => Apart(Tail(c), InsertAt(es, k, Head(c)), gs)
           /\ \A tag : OnWay(Tail(c), InsertAt(es, k, Head(c)), gs, tag) <=> OnWay(c, es, gs, tag)
  <1> DEFINE d == Tail(c)
             e == Head(c)
             fs == InsertAt(es, k, e)
  <1>0. /\ \A i \in 1 .. Len(d) : HasEntry(d, i) =>
             \E n \in 1 .. Len(c) : n # 1 /\ HasEntry(c, n) /\ c[n] = d[i]
        /\ (\A i, j \in 1 .. Len(c) :
                  HasEntry(c, i) /\ HasEntry(c, j) /\ Tag(c[i]) = Tag(c[j]) => i = j)
              => \A i, j \in 1 .. Len(d) :
                    HasEntry(d, i) /\ HasEntry(d, j) /\ Tag(d[i]) = Tag(d[j]) => i = j
        /\ \A tag : (\E i \in 1 .. Len(c) : HasEntry(c, i) /\ Tag(c[i]) = tag)
                <=> \/ Tag(Head(c)) = tag
                    \/ \E i \in 1 .. Len(d) : HasEntry(d, i) /\ Tag(d[i]) = tag
    BY PoppedEntries
  <1>1. Len(c) \in Nat \ {0} /\ HasEntry(c, 1) /\ e = c[1] /\ e \in Entry \cup Other
    BY Popped
  <1> HIDE DEF d, e
  <1>2. e \in Entry /\ 1 \in 1 .. Len(c)
    BY <1>1 DEF Other, e
  <1>3. /\ fs \in Seq(Entry) /\ Len(fs) = Len(es) + 1 /\ Len(es) \in Nat
        /\ \A j \in 1 .. Len(es) + 1 : fs[j] = IF j < k THEN es[j] ELSE IF j = k THEN e ELSE es[j - 1]
    <2>1. fs \in Seq(Entry) /\ HasJoined(fs, es, k, e)
      BY <1>2, Inserted
    <2> QED  BY <2>1 DEF HasJoined
  <1> HIDE DEF fs
  \* Where each entry of the new queue comes from, and where each old one is.
  <1>4. \A j \in 1 .. Len(fs) : \/ j = k /\ fs[j] = e
                                \/ j < k /\ j \in 1 .. Len(es) /\ fs[j] = es[j]
                                \/ j > k /\ j - 1 \in 1 .. Len(es) /\ fs[j] = es[j - 1]
    BY <1>3
  <1>5. k \in 1 .. Len(fs) /\ fs[k] = e
    BY <1>3
  <1>6. \A j \in 1 .. Len(es) : \E i \in 1 .. Len(fs) : fs[i] = es[j]
    <2> TAKE j \in 1 .. Len(es)
    <2>1. CASE j < k
      BY <1>3, <2>1
    <2>2. CASE j >= k
      <3>1. j + 1 \in 1 .. Len(fs) /\ fs[j + 1] = es[j]
        BY <1>3, <2>2
      <3> QED  BY <3>1
    <2> QED  BY <2>1, <2>2
  <1>8. ASSUME Apart(c, es, gs) PROVE Apart(d, fs, gs)
    <2> USE <1>8 DEF Apart
    <2>1. \A i, j \in 1 .. Len(d) : HasEntry(d, i) /\ HasEntry(d, j) /\ Tag(d[i]) = Tag(d[j]) => i = j
      BY <1>0
    <2>2. ASSUME NEW i \in 1 .. Len(fs), NEW j \in 1 .. Len(fs), Tag(fs[i]) = Tag(fs[j])
          PROVE  i = j
      <3>1. \A m \in 1 .. Len(es) : Tag(e) # Tag(es[m])
        BY <1>1, <1>2
      <3>2. \A m, n \in 1 .. Len(es) : Tag(es[m]) = Tag(es[n]) => m = n
        OBVIOUS
      <3>3. \/ i = k /\ fs[i] = e
            \/ i < k /\ i \in 1 .. Len(es) /\ fs[i] = es[i]
            \/ i > k /\ i - 1 \in 1 .. Len(es) /\ fs[i] = es[i - 1]
        BY <1>4
      <3>4. \/ j = k /\ fs[j] = e
            \/ j < k /\ j \in 1 .. Len(es) /\ fs[j] = es[j]
            \/ j > k /\ j - 1 \in 1 .. Len(es) /\ fs[j] = es[j - 1]
        BY <1>4
      <3> HIDE <1>8
      <3> HIDE DEF Apart
      <3>5. k \in Int /\ i \in Int /\ j \in Int
        BY <1>3
      <3> QED  BY <2>2, <3>1, <3>2, <3>3, <3>4, <3>5
    <2>3. \A i \in 1 .. Len(d), j \in 1 .. Len(fs) : HasEntry(d, i) => Tag(d[i]) # Tag(fs[j])
      <3>1. \A i \in 1 .. Len(d) : HasEntry(d, i) => Tag(d[i]) # Tag(e)
        BY <1>0, <1>1, <1>2
      <3>2. \A i \in 1 .. Len(d), j \in 1 .. Len(es) : HasEntry(d, i) => Tag(d[i]) # Tag(es[j])
        BY <1>0
      <3> HIDE <1>8
      <3> HIDE DEF Apart
      <3> QED  BY <1>4, <3>1, <3>2
    <2>4. \A i \in 1 .. Len(d), j \in 1 .. Len(gs) : HasEntry(d, i) => Tag(d[i]) # gs[j]
      BY <1>0
    <2>5. \A i \in 1 .. Len(fs), j \in 1 .. Len(gs) : Tag(fs[i]) # gs[j]
      <3>1. \A j \in 1 .. Len(gs) : Tag(e) # gs[j]
        BY <1>1, <1>2
      <3>2. \A i \in 1 .. Len(es), j \in 1 .. Len(gs) : Tag(es[i]) # gs[j]
        OBVIOUS
      <3> HIDE <1>8
      <3> HIDE DEF Apart
      <3> QED  BY <1>4, <3>1, <3>2
    <2> QED  BY <2>1, <2>2, <2>3, <2>4, <2>5
  <1>9. ASSUME NEW tag
        PROVE  OnWay(d, fs, gs, tag) <=> OnWay(c, es, gs, tag)
    <2>1. (\E i \in 1 .. Len(c) : HasEntry(c, i) /\ Tag(c[i]) = tag)
            <=> Tag(e) = tag \/ \E i \in 1 .. Len(d) : HasEntry(d, i) /\ Tag(d[i]) = tag
      BY <1>0 DEF e
    <2>2. (\E i \in 1 .. Len(fs) : Tag(fs[i]) = tag)
            <=> Tag(e) = tag \/ \E i \in 1 .. Len(es) : Tag(es[i]) = tag
      BY <1>4, <1>5, <1>6
    <2> QED  BY <2>1, <2>2 DEF OnWay
  <1> QED  BY <1>8, <1>9 DEF d, e, fs

\* The entries of queue es after place a and up to place b come back spent: fs is
\* the queue without them, hs the garbage gs with their tags.
Spend(es, gs, a, b, fs, hs) ==
    /\ a <= b /\ b <= Len(es)
    /\ Len(fs) = Len(es) - (b - a)
    /\ Len(hs) = Len(gs) + (b - a)
    /\ \A i \in 1 .. Len(fs) : fs[i] = IF i <= a THEN es[i] ELSE es[i + (b - a)]
    /\ \A i \in 1 .. Len(hs) : hs[i] = IF i <= Len(gs) THEN gs[i] ELSE Tag(es[a + i - Len(gs)])

\* They are on their way all the same.
LEMMA SpentApart ==
    ASSUME NEW c, NEW es \in Seq(Entry), NEW gs \in Seq(Spent),
           NEW a \in Nat, NEW b \in Nat, NEW fs, NEW hs, Spend(es, gs, a, b, fs, hs)
    PROVE  /\ Apart(c, es, gs) => Apart(c, fs, hs)
           /\ \A tag : OnWay(c, fs, hs, tag) <=> OnWay(c, es, gs, tag)
  <1> DEFINE E == Len(es)
             G == Len(gs)
             w == b - a
             from(i) == IF i <= a THEN i ELSE i + w
  <1>1. E \in Nat /\ G \in Nat /\ w \in Nat /\ b <= E /\ b = a + w /\ Len(fs) = E - w
        /\ Len(hs) = G + w
    BY DEF Spend
  <1> HIDE DEF E, G, w
  <1>2. \A i \in 1 .. Len(fs) : /\ from(i) \in 1 .. E /\ fs[i] = es[from(i)]
                                /\ from(i) <= a \/ from(i) > b
    BY <1>1 DEF E, w, Spend
  <1>3. ASSUME NEW i \in 1 .. Len(fs), NEW j \in 1 .. Len(fs), from(i) = from(j) PROVE i = j
    <2>1. i \in Int /\ j \in Int
      OBVIOUS
    <2> QED  BY <1>1, <1>3, <2>1
  <1>4. \A i \in 1 .. E : i <= a \/ i > b => \E j \in 1 .. Len(fs) : from(j) = i
    <2> SUFFICES ASSUME NEW i \in 1 .. E, i <= a \/ i > b PROVE \E j \in 1 .. Len(fs) : from(j) = i
      OBVIOUS
    <2>1. CASE i <= a
      <3>1. i \in 1 .. Len(fs) /\ from(i) = i
        BY <1>1, <2>1
      <3> QED  BY <3>1
    <2>2. CASE i > b
      <3>0. i \in Int /\ i - w \in 1 .. Len(fs) /\ ~(i - w <= a) /\ (i - w) + w = i
        BY <1>1, <2>2
      <3>1. i - w \in 1 .. Len(fs) /\ from(i - w) = i
        BY <3>0
      <3> QED  BY <3>1
    <2> QED  BY <2>1, <2>2
  <1>5. \A i \in 1 .. Len(hs) : \/ i \in 1 .. G /\ hs[i] = gs[i]
                                \/ /\ i > G /\ a + i - G \in a + 1 .. b /\ a + i - G \in 1 .. E
                                   /\ hs[i] = Tag(es[a + i - G])
    <2> TAKE i \in 1 .. Len(hs)
    <2>1. hs[i] = IF i <= G THEN gs[i] ELSE Tag(es[a + i - G])
      BY DEF Spend, G
    <2>2. i \in 1 .. G + w
      BY <1>1
    <2>3. i \in 1 .. G \/ (i > G /\ a + i - G \in a + 1 .. b /\ a + i - G \in 1 .. E /\ ~(i <= G))
      <3>1. b <= E
        BY DEF Spend, E
      <3> QED  BY <1>1, <2>2, <3>1
    <2>4. i \in 1 .. G => i <= G
      BY <1>1
    <2> QED  BY <2>1, <2>3, <2>4
  <1>6. \A i \in 1 .. G : i \in 1 .. Len(hs) /\ hs[i] = gs[i]
    BY <1>1 DEF G, Spend
  <1>7. \A i \in a + 1 .. b : /\ G + (i - a) \in 1 .. Len(hs)
                              /\ hs[G + (i - a)] = Tag(es[i])
    <2> TAKE i \in a + 1 .. b
    <2>1. G + (i - a) \in 1 .. Len(hs) /\ ~(G + (i - a) <= G) /\ a + (G + (i - a)) - G = i
      BY <1>1
    <2> QED  BY <2>1 DEF G, Spend
  <1> HIDE DEF from
  <1>8. ASSUME Apart(c, es, gs) PROVE Apart(c, fs, hs)
    <2> USE <1>8 DEF Apart, E, G
    <2>1. ASSUME NEW i \in 1 .. Len(fs), NEW j \in 1 .. Len(fs), Tag(fs[i]) = Tag(fs[j])
          PROVE  i = j
      <3>1. from(i) \in 1 .. E /\ from(j) \in 1 .. E /\ Tag(es[from(i)]) = Tag(es[from(j)])
        <4> HIDE <1>8
        <4> HIDE DEF Apart, E, G
        <4> QED  BY <1>2, <2>1
      <3>2. from(i) = from(j)
        BY <3>1
      <3> QED  BY <1>3, <3>2
    <2>2. ASSUME NEW i \in 1 .. Len(hs), NEW j \in 1 .. Len(hs), hs[i] = hs[j] PROVE i = j
      <3>1. \A m, n \in 1 .. E : Tag(es[m]) = Tag(es[n]) => m = n
        OBVIOUS
      <3>2. \A m, n \in 1 .. G : gs[m] = gs[n] => m = n
        OBVIOUS
      <3>3. \A m \in 1 .. E, n \in 1 .. G : Tag(es[m]) # gs[n]
        OBVIOUS
      <3> HIDE <1>8
      <3> HIDE DEF Apart, E, G
      <3>4. \/ i \in 1 .. G /\ hs[i] = gs[i]
            \/ i > G /\ a + i - G \in 1 .. E /\ hs[i] = Tag(es[a + i - G])
        BY <1>5
      <3>5. \/ j \in 1 .. G /\ hs[j] = gs[j]
            \/ j > G /\ a + j - G \in 1 .. E /\ hs[j] = Tag(es[a + j - G])
        BY <1>5
      <3>6. ASSUME i > G, j > G, a + i - G = a + j - G PROVE i = j
        <4> HIDE <1>8
        <4> HIDE DEF Apart, E, G
        <4>1. i \in Int /\ j \in Int
          OBVIOUS
        <4> QED  BY <1>1, <3>6, <4>1
      <3> DEFINE x == a + i - G
                 y == a + j - G
      <3> HIDE DEF x, y
      <3>7. /\ \/ i \in 1 .. G /\ hs[i] = gs[i]
               \/ i > G /\ x \in 1 .. E /\ hs[i] = Tag(es[x])
            /\ \/ j \in 1 .. G /\ hs[j] = gs[j]
               \/ j > G /\ y \in 1 .. E /\ hs[j] = Tag(es[y])
            /\ i > G /\ j > G /\ x = y => i = j
        BY <3>4, <3>5, <3>6 DEF x, y
      <3> QED  BY <2>2, <3>1, <3>2, <3>3, <3>7
    <2>3. \A i \in 1 .. Len(c), j \in 1 .. Len(fs) : HasEntry(c, i) => Tag(c[i]) # Tag(fs[j])
      BY <1>2
    <2>4. \A i \in 1 .. Len(c), j \in 1 .. Len(hs) : HasEntry(c, i) => Tag(c[i]) # hs[j]
      BY <1>5
    <2>5. ASSUME NEW i \in 1 .. Len(fs), NEW j \in 1 .. Len(hs) PROVE Tag(fs[i]) # hs[j]
      <3>1. CASE j \in 1 .. G /\ hs[j] = gs[j]
        <4>1. from(i) \in 1 .. E /\ fs[i] = es[from(i)]
          BY <1>2
        <4>2. Tag(es[from(i)]) # gs[j]
          BY <3>1, <4>1
        <4> QED  BY <3>1, <4>1, <4>2
      <3>2. CASE /\ a + j - G \in a + 1 .. b /\ a + j - G \in 1 .. E
                 /\ hs[j] = Tag(es[a + j - G])
        <4>1. from(i) # a + j - G
          <5>1. (from(i) <= a \/ from(i) > b) /\ from(i) \in 1 .. E
            BY <1>2
          <5>2. a + j - G \in a + 1 .. b
            BY <3>2
          <5> HIDE <1>8
          <5> HIDE DEF Apart, E, G
          <5> DEFINE x == a + j - G
                     y == from(i)
          <5>3. x \in a + 1 .. b /\ (y <= a \/ y > b) /\ y \in Nat
            BY <1>1, <5>1, <5>2
          <5> HIDE DEF x, y
          <5>4. x # y
            BY <1>1, <5>3
          <5> QED  BY <5>4 DEF x, y
        <4>2. from(i) \in 1 .. E /\ fs[i] = es[from(i)]
          BY <1>2
        <4>3. Tag(es[from(i)]) # Tag(es[a + j - G])
          BY <3>2, <4>1, <4>2
        <4> QED  BY <3>2, <4>2, <4>3
      <3> QED  BY <1>5, <3>1, <3>2
    <2> QED  BY <2>1, <2>2, <2>3, <2>4, <2>5
  <1>9. ASSUME NEW tag
        PROVE  OnWay(c, fs, hs, tag) <=> OnWay(c, es, gs, tag)
    <2>1. ASSUME NEW i \in 1 .. Len(fs), Tag(fs[i]) = tag PROVE \E j \in 1 .. E : Tag(es[j]) = tag
      BY <1>2, <2>1
    <2>2. ASSUME NEW i \in 1 .. Len(hs), hs[i] = tag
          PROVE  (\E j \in 1 .. E : Tag(es[j]) = tag) \/ \E j \in 1 .. G : gs[j] = tag
      BY <1>5, <2>2
    <2>3. ASSUME NEW i \in 1 .. E, Tag(es[i]) = tag
          PROVE  (\E j \in 1 .. Len(fs) : Tag(fs[j]) = tag) \/ \E j \in 1 .. Len(hs) : hs[j] = tag
      <3>1. CASE i <= a \/ i > b
        <4>1. PICK j \in 1 .. Len(fs) : from(j) = i
          BY <1>4, <3>1
        <4> QED  BY <1>2, <2>3, <4>1
      <3>2. CASE i \in a + 1 .. b
        BY <1>7, <2>3, <3>2
      <3> QED  BY <1>1, <3>1, <3>2
    <2>4. ASSUME NEW i \in 1 .. G, gs[i] = tag PROVE \E j \in 1 .. Len(hs) : hs[j] = tag
      BY <1>6, <2>4
    <2> QED  BY <2>1, <2>2, <2>3, <2>4 DEF OnWay, E, G
  <1> QED  BY <1>8, <1>9

-----------------------------------------------------------------------------
(* What the engine does. *)

\* The entries before a position, and those up to it, are the first of the queue.
LEMMA QueueCuts ==
    ASSUME entries \in Seq(Entry), Sorted, NEW p \in Nat
    PROVE  /\ Passed(p) \in Nat /\ UpTo(p) \in Nat
           /\ Passed(p) <= UpTo(p) /\ UpTo(p) <= Len(entries)
           /\ \A i \in 1 .. Len(entries) : /\ i <= Passed(p) <=> entries[i].position < p
                                           /\ i <= UpTo(p) <=> entries[i].position <= p
  <1> DEFINE n == Len(entries)
             before == {i \in DOMAIN entries : entries[i].position < p}
             upto == {i \in DOMAIN entries : entries[i].position <= p}
  <1>1. n \in Nat /\ DOMAIN entries = 1 .. n
    OBVIOUS
  <1>2. \A i \in 1 .. n : entries[i].position \in Nat
    <2> TAKE i \in 1 .. n
    <2>1. entries[i] \in Entry
      OBVIOUS
    <2> QED  BY <2>1 DEF Entry
  <1>3. \A i, j \in 1 .. n : j < i => entries[j].position <= entries[i].position
    BY DEF Sorted
  <1> HIDE DEF n
  <1>4. before \in SUBSET (1 .. n) /\ upto \in SUBSET (1 .. n)
    BY <1>1
  <1>5. /\ \A i \in before : \A j \in 1 .. n : j < i => j \in before
        /\ \A i \in upto : \A j \in 1 .. n : j < i => j \in upto
    BY <1>1, <1>2, <1>3, SMTT(30)
  <1>6. /\ \A i \in 1 .. n : i \in before <=> entries[i].position < p
        /\ \A i \in 1 .. n : i \in upto <=> entries[i].position <= p
    BY <1>1
  <1>7. Passed(p) = Cardinality(before) /\ UpTo(p) = Cardinality(upto)
    BY DEF Passed, UpTo
  <1> HIDE DEF before, upto
  <1>8. before = 1 .. Passed(p) /\ upto = 1 .. UpTo(p)
    BY <1>1, <1>4, <1>5, <1>7, FirstOnes
  <1>9. Passed(p) \in 0 .. n /\ UpTo(p) \in 0 .. n
    BY <1>1, <1>4, <1>7, Below
  <1>10. \A i \in 1 .. n : (i <= Passed(p) <=> entries[i].position < p)
                           /\ (i <= UpTo(p) <=> entries[i].position <= p)
    BY <1>1, <1>6, <1>8, <1>9
  <1>11. Passed(p) <= UpTo(p)
    <2> SUFFICES ASSUME Passed(p) > UpTo(p) PROVE FALSE
      BY <1>1, <1>9
    <2>1. Passed(p) \in 1 .. n /\ ~(Passed(p) <= UpTo(p)) /\ Passed(p) <= Passed(p)
      BY <1>1, <1>9
    <2>2. entries[Passed(p)].position < p /\ ~(entries[Passed(p)].position <= p)
      BY <1>10, <2>1
    <2> QED  BY <1>2, <2>1, <2>2
  <1>12. Passed(p) \in Nat /\ UpTo(p) \in Nat /\ UpTo(p) <= n
    BY <1>1, <1>9
  <1> QED  BY <1>10, <1>11, <1>12 DEF n

\* A step of the engine's: what is on its way stays on its way.
LEMMA EngineStep ==
    ASSUME LaneInvariant, UNCHANGED <<lane, looping, mark, remade, amiss>>,
           pending' \in Nat \cup {None}, span' \in Spans \cup {None},
           end' \in Marks \cup {None},
           commands' \in Fifo, entries' \in Seq(Entry), garbage' \in Seq(Spent),
           position' \in Nat, published' \in Nat, sounded' \subseteq Nat,
           Sorted',
           \A tag : OnWay(commands', entries', garbage', tag)
                      <=> OnWay(commands, entries, garbage, tag),
           FeedInv(lane, commands) =>
             /\ Apart(commands', entries', garbage')
             /\ Cut(commands)' /\ AllCurrent(lane, commands)' /\ AllPast(lane, commands)'
             /\ Untouched(lane, commands)'
    PROVE  LaneInvariant'
  <1>1. TypeOK'
    BY DEF LaneInvariant, TypeOK, Spent
  <1>2. Marked(lane, commands)'
    BY DEF LaneInvariant, Marked, OnItsWay
  <1>3. ASSUME Regular' PROVE FeedInv(lane, commands)'
    <2>1. FeedInv(lane, commands)
      BY <1>3 DEF LaneInvariant, Regular
    <2>2. \A tag : OnWay(commands, entries, garbage, tag) => Known(lane, tag)
      BY <2>1, KnownIsAll DEF FeedInv, OnItsWay
    <2>3. \A tag : OnWay(commands', entries', garbage', tag) => Known(lane', tag)
      BY <2>2
    <2>4. AllKnown(lane, commands)'
      BY <2>3 DEF AllKnown, OnWay, HasEntry
    <2>5. Distinct(commands)'
      BY <2>1 DEF Distinct
    <2> QED  BY <2>1, <2>4, <2>5 DEF FeedInv
  <1> QED  BY <1>1, <1>2, <1>3 DEF LaneInvariant

\* A block's end keeps the invariant.
LEMMA EndBlockKeeps == LaneInvariant /\ EndBlock => LaneInvariant'
  <1> SUFFICES ASSUME LaneInvariant, EndBlock PROVE LaneInvariant'
    OBVIOUS
  <1>1. /\ published' = position /\ pending' = (IF left < Block THEN None ELSE pending)
        /\ UNCHANGED <<lane, looping, mark, commands, garbage, engine, remade, amiss>>
    BY DEF EndBlock, fifos, engine, bounds
  <1>2. position \in Nat
    BY DEF LaneInvariant, TypeOK
  <1>3. pending' \in Nat \cup {None} /\ published' \in Nat
    BY <1>1, <1>2, Types
  <1> QED  BY <1>1, <1>3, Types, NetworkStep DEF Regular

\* The head of the FIFO taken: what it leaves of the entries behind it.
LEMMA Behind ==
    ASSUME NEW l, NEW c \in Fifo, c # <<>>
    PROVE  /\ (\A i, j \in 1 .. Len(c) :
                 i < j /\ HasEntry(c, i) /\ HasEntry(c, j) /\ NoClear(c, i, j) =>
                   c[i].generation = c[j].generation)
              => \A i, j \in 1 .. Len(Tail(c)) :
                   i < j /\ HasEntry(Tail(c), i) /\ HasEntry(Tail(c), j) /\ NoClear(Tail(c), i, j)
                     => Tail(c)[i].generation = Tail(c)[j].generation
           /\ (\A i \in 1 .. Len(c) : HasEntry(c, i) /\ NoClear(c, i, Len(c)) => Current(l, c[i]))
              => \A i \in 1 .. Len(Tail(c)) :
                   HasEntry(Tail(c), i) /\ NoClear(Tail(c), i, Len(Tail(c)))
                     => Current(l, Tail(c)[i])
           /\ Uncleared(c) => Uncleared(Tail(c))
           /\ Head(c).op # "clear" => \A j \in 1 .. Len(Tail(c)) :
                HasEntry(Tail(c), j) /\ NoClear(Tail(c), 1, j) =>
                  /\ j + 1 \in 1 .. Len(c) /\ 1 < j + 1 /\ HasEntry(c, j + 1)
                  /\ NoClear(c, 1, j + 1) /\ c[j + 1] = Tail(c)[j]
  <1> DEFINE d == Tail(c)
  <1>1. /\ Len(d) \in Nat /\ Len(d) = Len(c) - 1 /\ Len(c) \in Nat
        /\ \A i \in 1 .. Len(d) : d[i] = c[i + 1] /\ i + 1 \in 1 .. Len(c)
        /\ \A i \in 1 .. Len(d) : HasEntry(d, i) <=> HasEntry(c, i + 1)
    BY Popped
  <1>2. /\ \A i, j \in 1 .. Len(d) : NoClear(d, i, j) => NoClear(c, i + 1, j + 1)
        /\ \A i \in 1 .. Len(d) : NoClear(d, i, Len(d)) => NoClear(c, i + 1, Len(c))
        /\ Head(c).op # "clear" => \A i \in 1 .. Len(d) : NoClear(d, 1, i) => NoClear(c, 1, i + 1)
    BY PoppedClears
  <1> HIDE DEF d
  <1>3. ASSUME \A i, j \in 1 .. Len(c) :
                 i < j /\ HasEntry(c, i) /\ HasEntry(c, j) /\ NoClear(c, i, j) =>
                   c[i].generation = c[j].generation,
               NEW i \in 1 .. Len(d), NEW j \in 1 .. Len(d), i < j,
               HasEntry(d, i), HasEntry(d, j), NoClear(d, i, j)
        PROVE  d[i].generation = d[j].generation
    <2>1. /\ i + 1 \in 1 .. Len(c) /\ j + 1 \in 1 .. Len(c) /\ i + 1 < j + 1
          /\ HasEntry(c, i + 1) /\ HasEntry(c, j + 1) /\ NoClear(c, i + 1, j + 1)
          /\ d[i] = c[i + 1] /\ d[j] = c[j + 1]
      BY <1>1, <1>2, <1>3
    <2> QED  BY <1>3, <2>1
  <1>4. ASSUME \A i \in 1 .. Len(c) : HasEntry(c, i) /\ NoClear(c, i, Len(c)) => Current(l, c[i]),
               NEW i \in 1 .. Len(d), HasEntry(d, i), NoClear(d, i, Len(d))
        PROVE  Current(l, d[i])
    <2>1. i + 1 \in 1 .. Len(c) /\ HasEntry(c, i + 1) /\ NoClear(c, i + 1, Len(c)) /\ d[i] = c[i + 1]
      BY <1>1, <1>2, <1>4
    <2> QED  BY <1>4, <2>1
  <1>5. Uncleared(c) => Uncleared(d)
    BY <1>1 DEF Uncleared
  <1>6. ASSUME Head(c).op # "clear", NEW j \in 1 .. Len(d), HasEntry(d, j), NoClear(d, 1, j)
        PROVE  /\ j + 1 \in 1 .. Len(c) /\ 1 < j + 1 /\ HasEntry(c, j + 1)
               /\ NoClear(c, 1, j + 1) /\ c[j + 1] = d[j]
    <2>1. 1 < j + 1
      OBVIOUS
    <2> QED  BY <1>1, <1>2, <1>6, <2>1
  <1> QED  BY <1>3, <1>4, <1>5, <1>6 DEF d

\* A head that leaves the queue as it is: a transport command, or an entry
\* refused.  What had sounded has, or nothing has.
LEMMA QueueKept ==
    ASSUME LaneInvariant, commands # <<>>, commands' = Tail(commands),
           Head(commands).op # "clear",
           UNCHANGED <<lane, looping, mark, pending, published, remade, amiss, entries>>,
           span' \in Spans \cup {None}, end' \in Marks \cup {None}, garbage' \in Seq(Spent), position' \in Nat,
           sounded' = {} \/ UNCHANGED <<position, sounded>>,
           Apart(commands, entries, garbage) => Apart(commands', entries, garbage'),
           \A tag : OnWay(commands', entries, garbage', tag)
                      <=> OnWay(commands, entries, garbage, tag)
    PROVE  LaneInvariant'
  <1>0. /\ commands \in Fifo /\ entries \in Seq(Entry) /\ sounded \subseteq Nat
        /\ Sorted /\ pending \in Nat \cup {None} /\ published \in Nat
    BY DEF LaneInvariant, TypeOK
  <1>1. commands' \in Fifo
    BY <1>0, Popped
  <1>2. Sorted'
    BY <1>0 DEF Sorted
  <1>3. ASSUME FeedInv(lane, commands)
        PROVE  /\ Apart(commands', entries', garbage')
               /\ Cut(commands)' /\ AllCurrent(lane, commands)' /\ AllPast(lane, commands)'
               /\ Untouched(lane, commands)'
    <2> DEFINE c == commands
               d == Tail(commands)
    <2>0. c \in Fifo /\ c # <<>> /\ Head(c).op # "clear"
      BY <1>0
    <2>1. \A j \in 1 .. Len(d) : HasEntry(d, j) /\ NoClear(d, 1, j) =>
                  /\ j + 1 \in 1 .. Len(c) /\ 1 < j + 1 /\ HasEntry(c, j + 1)
                  /\ NoClear(c, 1, j + 1) /\ c[j + 1] = d[j]
      BY <2>0, Behind
    <2>2. Uncleared(c) <=> Uncleared(d)
      BY <2>0, Behind, PoppedClears
    <2>3. Cut(commands)'
      <3>1. \A i, j \in 1 .. Len(entries) : entries[i].generation = entries[j].generation
        BY <1>3 DEF FeedInv, Cut
      <3>2. ASSUME NEW i \in 1 .. Len(entries), NEW j \in 1 .. Len(d), HasEntry(d, j), NoClear(d, 1, j)
            PROVE  entries[i].generation = d[j].generation
        BY <1>3, <2>1, <3>2 DEF FeedInv, Cut
      <3>3. \A i, j \in 1 .. Len(d) : i < j /\ HasEntry(d, i) /\ HasEntry(d, j) /\ NoClear(d, i, j)
                     => d[i].generation = d[j].generation
        BY <1>3, <2>0, Behind DEF FeedInv, Cut
      <3> QED  BY <3>1, <3>2, <3>3 DEF Cut
    <2>4. AllCurrent(lane, commands)'
      <3>1. \A i \in 1 .. Len(d) : HasEntry(d, i) /\ NoClear(d, i, Len(d)) => Current(lane, d[i])
        BY <1>3, <2>0, Behind DEF FeedInv, AllCurrent
      <3>2. Uncleared(d) => \A i \in 1 .. Len(entries) : Current(lane, entries[i])
        BY <1>3, <2>2 DEF FeedInv, AllCurrent
      <3> QED  BY <3>1, <3>2 DEF AllCurrent
    <2>5. AllPast(lane, commands)'
      <3>1. CASE sounded' = {}
        BY <3>1 DEF AllPast, Past
      <3>2. CASE UNCHANGED <<position, sounded>>
        <4>1. Uncleared(d) /\ lane # None =>
                 \A e \in sounded : e \in DOMAIN lane.score => lane.score[e] < position
          BY <1>3, <2>2 DEF FeedInv, AllPast
        <4>2. \A i \in 1 .. Len(entries) : Past(entries[i])
          BY <1>3 DEF FeedInv, AllPast
        <4>3. ASSUME NEW i \in 1 .. Len(d), HasEntry(d, i), NoClear(d, 1, i) PROVE Past(d[i])
          BY <1>3, <2>1, <4>3 DEF FeedInv, AllPast
        <4> QED  BY <3>2, <4>1, <4>2, <4>3 DEF AllPast, Past
      <3> QED  BY <3>1, <3>2
    <2>6. Untouched(lane, commands)'
      BY <1>3, <2>2 DEF FeedInv, Untouched
    <2>7. Apart(commands', entries', garbage')
      BY <1>3 DEF FeedInv, Distinct
    <2> QED  BY <2>3, <2>4, <2>5, <2>6, <2>7
  <1>4. sounded' \subseteq Nat
    BY <1>0
  <1> QED  BY <1>0, <1>1, <1>2, <1>3, <1>4, EngineStep

\* Where the entries of a queue are once one has joined it after place u.
LEMMA QueueInserted ==
    ASSUME NEW es \in Seq(Entry), NEW e \in Entry, NEW u \in Nat, u <= Len(es)
    PROVE  /\ InsertAt(es, u + 1, e) \in Seq(Entry)
           /\ Len(InsertAt(es, u + 1, e)) = Len(es) + 1
           /\ \A j \in 1 .. Len(es) + 1 : InsertAt(es, u + 1, e)[j] =
                IF j < u + 1 THEN es[j] ELSE IF j = u + 1 THEN e ELSE es[j - 1]
  <1> DEFINE i == u + 1
  <1>1. i \in 1 .. Len(es) + 1
    OBVIOUS
  <1> HIDE DEF i
  <1>2. InsertAt(es, i, e) \in Seq(Entry) /\ HasJoined(InsertAt(es, i, e), es, i, e)
    BY <1>1, Inserted
  <1> QED  BY <1>2 DEF i, HasJoined

\* An entry that joins the queue.
LEMMA EntryJoins ==
    ASSUME LaneInvariant, commands # <<>>, commands' = Tail(commands),
           Head(commands).op = "entry",
           entries' = InsertAt(entries, UpTo(Head(commands).position) + 1, Head(commands)),
           UNCHANGED <<lane, looping, mark, pending, published, remade, amiss, garbage, position,
                       span, end, sounded>>
    PROVE  LaneInvariant'
  <1> DEFINE h == Head(commands)
             u == UpTo(h.position)
             n == Len(entries)
             d == Tail(commands)
  <1>0. /\ commands \in Fifo /\ entries \in Seq(Entry) /\ sounded \subseteq Nat
        /\ garbage \in Seq(Spent) /\ position \in Nat /\ span \in Spans \cup {None}
        /\ end \in Marks \cup {None}
        /\ Sorted /\ pending \in Nat \cup {None} /\ published \in Nat
    BY DEF LaneInvariant, TypeOK, Spent
  <1>1. commands' \in Fifo /\ h \in Entry \cup Other /\ HasEntry(commands, 1) /\ h = commands[1]
        /\ Len(commands) \in Nat \ {0}
    BY <1>0, Popped
  <1>2. h \in Entry /\ h.position \in Nat
    BY <1>1 DEF Other, Entry
  <1>3. /\ u \in Nat /\ u <= n /\ n \in Nat
        /\ \A i \in 1 .. n : i <= u <=> entries[i].position <= h.position
    <2> HIDE DEF h
    <2>1. /\ UpTo(h.position) \in Nat /\ UpTo(h.position) <= Len(entries)
          /\ \A i \in 1 .. Len(entries) :
               i <= UpTo(h.position) <=> entries[i].position <= h.position
      BY <1>0, <1>2, QueueCuts, Zenon
    <2>2. Len(entries) \in Nat
      BY <1>0
    <2> QED  BY <2>1, <2>2
  <1>4. u + 1 \in 1 .. n + 1
    BY <1>3
  <1>5. /\ entries' \in Seq(Entry) /\ Len(entries') = n + 1
        /\ \A j \in 1 .. n + 1 : entries'[j] =
             IF j < u + 1 THEN entries[j] ELSE IF j = u + 1 THEN h ELSE entries[j - 1]
    <2>1. entries' = InsertAt(entries, u + 1, h)
      OBVIOUS
    <2>2. entries \in Seq(Entry) /\ h \in Entry /\ u \in Nat /\ u <= Len(entries)
      BY <1>0, <1>2, <1>3
    <2> HIDE DEF u, h, n
    <2>3. /\ InsertAt(entries, u + 1, h) \in Seq(Entry)
          /\ Len(InsertAt(entries, u + 1, h)) = Len(entries) + 1
          /\ \A j \in 1 .. Len(entries) + 1 : InsertAt(entries, u + 1, h)[j] =
               IF j < u + 1 THEN entries[j] ELSE IF j = u + 1 THEN h ELSE entries[j - 1]
      BY <2>2, QueueInserted, Zenon
    <2> QED  BY <2>1, <2>3 DEF n
  <1>6. /\ Apart(commands, entries, garbage) => Apart(commands', entries', garbage')
        /\ \A tag : OnWay(commands', entries', garbage', tag)
                      <=> OnWay(commands, entries, garbage, tag)
    BY <1>0, <1>4, JoinedApart
  <1> HIDE DEF u, h, n
  <1>7. \A j \in 1 .. n + 1 : \/ j <= u /\ j \in 1 .. n /\ entries'[j] = entries[j]
                              \/ j = u + 1 /\ entries'[j] = h
                              \/ j > u + 1 /\ j - 1 \in 1 .. n /\ j - 1 > u /\ entries'[j] = entries[j - 1]
    BY <1>3, <1>5
  <1>8. Sorted'
    <2>1. \A i \in 1 .. n : entries[i].position \in Nat
      <3> TAKE i \in 1 .. n
      <3>1. entries[i] \in Entry
        BY <1>0 DEF n
      <3> QED  BY <3>1 DEF Entry
    <2>2. \A i, j \in 1 .. n : i < j => entries[i].position <= entries[j].position
      BY <1>0 DEF Sorted, n
    <2>3. ASSUME NEW i \in 1 .. n + 1, NEW j \in 1 .. n + 1, i < j
          PROVE  entries'[i].position <= entries'[j].position
      <3>1. CASE j <= u
        <4>1. i \in 1 .. n /\ j \in 1 .. n /\ entries'[i] = entries[i] /\ entries'[j] = entries[j]
          BY <1>3, <1>7, <2>3, <3>1
        <4> QED  BY <2>2, <2>3, <4>1
      <3>2. CASE j = u + 1
        <4>1. i \in 1 .. n /\ i <= u /\ entries'[i] = entries[i] /\ entries'[j] = h
          BY <1>3, <1>7, <2>3, <3>2
        <4> QED  BY <1>3, <4>1
      <3>3. CASE j > u + 1
        <4>1. j - 1 \in 1 .. n /\ j - 1 > u /\ entries'[j] = entries[j - 1]
          BY <1>3, <1>7, <3>3
        <4>2. ~(j - 1 <= u)
          BY <1>3, <4>1
        <4>3. h.position <= entries[j - 1].position
          BY <1>2, <1>3, <2>1, <4>1, <4>2
        <4>4. CASE i <= u
          <5>1. i \in 1 .. n /\ entries'[i] = entries[i] /\ i < j - 1
            BY <1>3, <1>7, <3>3, <4>4
          <5> QED  BY <2>2, <4>1, <5>1
        <4>5. CASE i = u + 1
          <5>1. entries'[i] = h
            BY <1>3, <1>7, <4>5
          <5> QED  BY <4>1, <4>3, <5>1
        <4>6. CASE i > u + 1
          <5>1. i - 1 \in 1 .. n /\ entries'[i] = entries[i - 1] /\ i - 1 < j - 1
            BY <1>3, <1>7, <2>3, <4>6
          <5> QED  BY <2>2, <4>1, <5>1
        <4> QED  BY <1>3, <4>4, <4>5, <4>6
      <3> QED  BY <1>3, <3>1, <3>2, <3>3
    <2> QED  BY <1>5, <2>3 DEF Sorted
  <1>9. \A i \in 1 .. Len(entries') :
           entries'[i] = h \/ \E j \in 1 .. Len(entries) : entries'[i] = entries[j]
    <2> TAKE i \in 1 .. Len(entries')
    <2>1. i \in 1 .. n + 1
      BY <1>5
    <2> QED  BY <1>7, <2>1 DEF n
  <1>10. ASSUME FeedInv(lane, commands)
         PROVE  /\ Cut(commands)' /\ AllCurrent(lane, commands)' /\ AllPast(lane, commands)'
                /\ Untouched(lane, commands)'
    <2> DEFINE c == commands
    <2>0. c \in Fifo /\ c # <<>> /\ Head(c).op # "clear" /\ h.op # "clear" /\ 1 \in 1 .. Len(c)
      BY <1>0, <1>1 DEF h
    <2>1. \A j \in 1 .. Len(d) : HasEntry(d, j) /\ NoClear(d, 1, j) =>
                  /\ j + 1 \in 1 .. Len(c) /\ 1 < j + 1 /\ HasEntry(c, j + 1)
                  /\ NoClear(c, 1, j + 1) /\ c[j + 1] = d[j]
      BY <2>0, Behind
    <2>2. Uncleared(c) <=> Uncleared(d)
      BY <2>0, Behind, PoppedClears
    <2>3. NoClear(c, 1, 1)
      BY <1>1, <2>0 DEF NoClear
    <2> HIDE DEF d
    <2>4. Cut(commands)'
      <3>1. \A i \in 1 .. Len(entries) : entries[i].generation = h.generation
        BY <1>1, <1>10, <2>0, <2>3 DEF FeedInv, Cut
      <3>2. \A i \in 1 .. Len(entries') : entries'[i].generation = h.generation
        BY <1>9, <3>1
      <3>3. ASSUME NEW j \in 1 .. Len(d), HasEntry(d, j), NoClear(d, 1, j)
            PROVE  h.generation = d[j].generation
        BY <1>1, <1>10, <2>0, <2>1, <3>3 DEF FeedInv, Cut
      <3>4. \A i, j \in 1 .. Len(d) : i < j /\ HasEntry(d, i) /\ HasEntry(d, j) /\ NoClear(d, i, j)
                     => d[i].generation = d[j].generation
        BY <1>10, <2>0, Behind DEF FeedInv, Cut, d
      <3>5. commands' = d
        BY DEF d
      <3>6. \A i, j \in 1 .. Len(entries') : entries'[i].generation = entries'[j].generation
        BY <3>2
      <3>7. \A i \in 1 .. Len(entries'), j \in 1 .. Len(d) :
              HasEntry(d, j) /\ NoClear(d, 1, j) => entries'[i].generation = d[j].generation
        BY <3>2, <3>3
      <3> QED  BY <3>4, <3>6, <3>7, SMTT(30) DEF Cut, d
    <2>5. AllCurrent(lane, commands)'
      <3>1. \A i \in 1 .. Len(d) : HasEntry(d, i) /\ NoClear(d, i, Len(d)) => Current(lane, d[i])
        BY <1>10, <2>0, Behind DEF FeedInv, AllCurrent, d
      <3>2. ASSUME Uncleared(d) PROVE \A i \in 1 .. Len(entries') : Current(lane, entries'[i])
        <4>1. \A i \in 1 .. Len(entries) : Current(lane, entries[i])
          BY <1>10, <2>2, <3>2 DEF FeedInv, AllCurrent
        <4>2. NoClear(c, 1, Len(c))
          BY <2>2, <3>2 DEF Uncleared, NoClear
        <4>3. Current(lane, h)
          BY <1>1, <1>10, <2>0, <4>2 DEF FeedInv, AllCurrent
        <4> QED  BY <1>9, <4>1, <4>3
      <3>3. commands' = d
        BY DEF d
      <3> QED  BY <3>1, <3>2, <3>3, ZenonT(30) DEF AllCurrent, Current
    <2>6. AllPast(lane, commands)'
      <3>1. Uncleared(d) /\ lane # None =>
                 \A e \in sounded : e \in DOMAIN lane.score => lane.score[e] < position
        BY <1>10, <2>2 DEF FeedInv, AllPast
      <3>2. Past(h) /\ \A i \in 1 .. Len(entries) : Past(entries[i])
        BY <1>1, <1>10, <2>0, <2>3 DEF FeedInv, AllPast
      <3>3. \A i \in 1 .. Len(entries') : Past(entries'[i])
        BY <1>9, <3>2
      <3>4. ASSUME NEW i \in 1 .. Len(d), HasEntry(d, i), NoClear(d, 1, i) PROVE Past(d[i])
        BY <1>10, <2>1, <3>4 DEF FeedInv, AllPast
      <3>5. commands' = d
        BY DEF d
      <3> QED  BY <3>1, <3>3, <3>4, <3>5 DEF AllPast, Past
    <2>7. Untouched(lane, commands)'
      BY <1>10, <2>2 DEF FeedInv, Untouched, d
    <2> QED  BY <2>4, <2>5, <2>6, <2>7
  <1>11. FeedInv(lane, commands) => Apart(commands, entries, garbage)
    BY DEF FeedInv, Distinct
  <1> QED  BY <1>0, <1>1, <1>5, <1>6, <1>8, <1>10, <1>11, EngineStep

\* A clear: the whole queue comes back spent, and nothing has sounded.
LEMMA ClearTaken ==
    ASSUME LaneInvariant, commands # <<>>, commands' = Tail(commands),
           Head(commands).op = "clear", TakeClear,
           UNCHANGED <<lane, looping, mark, pending, published, remade, amiss>>
    PROVE  LaneInvariant'
  <1> DEFINE n == Len(entries)
             tags == [i \in DOMAIN entries |-> Tag(entries[i])]
             d == Tail(commands)
  <1>0. /\ commands \in Fifo /\ entries \in Seq(Entry) /\ garbage \in Seq(Spent)
        /\ position \in Nat /\ span \in Spans \cup {None} /\ end \in Marks \cup {None}
        /\ pending \in Nat \cup {None} /\ published \in Nat
    BY DEF LaneInvariant, TypeOK, Spent
  <1>1. /\ garbage' = garbage \o tags /\ entries' = <<>> /\ sounded' = {}
        /\ UNCHANGED <<position, rolling, span, end>>
    BY DEF TakeClear
  <1>2. tags \in Seq(Spent) /\ Len(tags) = n /\ n \in Nat /\ \A i \in 1 .. n : tags[i] = Tag(entries[i])
    <2>1. n \in Nat /\ DOMAIN entries = 1 .. n
      BY <1>0
    <2>2. \A i \in 1 .. n : Tag(entries[i]) \in Spent
      <3> TAKE i \in 1 .. n
      <3>1. entries[i] \in Entry
        BY <1>0
      <3> QED  BY <3>1 DEF Tag, Entry, Spent
    <2> HIDE DEF n
    <2> QED  BY <2>1, <2>2
  <1> HIDE DEF tags
  <1>3. /\ garbage' \in Seq(Spent) /\ Len(garbage') = Len(garbage) + n /\ Len(garbage) \in Nat
        /\ \A i \in 1 .. Len(garbage) + n :
             garbage'[i] = IF i <= Len(garbage) THEN garbage[i] ELSE tags[i - Len(garbage)]
    <2>1. /\ garbage \o tags \in Seq(Spent) /\ Len(garbage \o tags) = Len(garbage) + Len(tags)
          /\ \A i \in 1 .. Len(garbage) + Len(tags) :
               (garbage \o tags)[i] = IF i <= Len(garbage) THEN garbage[i] ELSE tags[i - Len(garbage)]
      BY <1>0, <1>2, ConcatProperties, Zenon
    <2>2. Len(tags) = n /\ Len(garbage) \in Nat
      BY <1>0, <1>2
    <2> HIDE DEF n
    <2> QED  BY <1>1, <2>1, <2>2
  <1>4. Spend(entries, garbage, 0, n, entries', garbage')
    <2>1. Len(entries') = 0 /\ n - 0 = n /\ n - n = 0
      BY <1>1, <1>2
    <2>2. ASSUME NEW i \in 1 .. Len(garbage')
          PROVE  garbage'[i] = IF i <= Len(garbage) THEN garbage[i]
                               ELSE Tag(entries[0 + i - Len(garbage)])
      <3>1. CASE i <= Len(garbage)
        BY <1>3, <3>1
      <3>2. CASE ~(i <= Len(garbage))
        <4>1. i - Len(garbage) \in 1 .. n /\ 0 + i - Len(garbage) = i - Len(garbage)
          BY <1>2, <1>3, <3>2
        <4> QED  BY <1>2, <1>3, <3>2, <4>1
      <3> QED  BY <3>1, <3>2
    <2>3. /\ 0 <= n /\ n <= Len(entries)
          /\ Len(entries') = Len(entries) - (n - 0) /\ Len(garbage') = Len(garbage) + (n - 0)
      BY <1>2, <1>3, <2>1
    <2>4. \A i \in 1 .. Len(entries') :
            entries'[i] = IF i <= 0 THEN entries[i] ELSE entries[i + (n - 0)]
      BY <2>1
    <2> HIDE DEF n
    <2> QED  BY <2>2, <2>3, <2>4 DEF Spend
  <1>5. /\ Apart(commands, entries, garbage) => Apart(commands, entries', garbage')
        /\ \A tag : OnWay(commands, entries', garbage', tag)
                      <=> OnWay(commands, entries, garbage, tag)
    <2> HIDE DEF n
    <2> QED  BY <1>0, <1>2, <1>4, SpentApart
  <1>6. /\ Apart(commands, entries', garbage') => Apart(commands', entries', garbage')
        /\ \A tag : OnWay(commands', entries', garbage', tag)
                      <=> OnWay(commands, entries', garbage', tag)
    BY <1>0, PoppedApart
  <1>7. commands' \in Fifo /\ Len(commands) \in Nat \ {0} /\ Head(commands) = commands[1]
    BY <1>0, Popped
  <1>8. entries' \in Seq(Entry) /\ Sorted' /\ Len(entries') = 0
    BY <1>1 DEF Sorted
  <1>9. ASSUME FeedInv(lane, commands)
        PROVE  /\ Apart(commands', entries', garbage')
               /\ Cut(commands)' /\ AllCurrent(lane, commands)' /\ AllPast(lane, commands)'
               /\ Untouched(lane, commands)'
    <2>1. Cut(commands)'
      <3>1. \A i, j \in 1 .. Len(d) : i < j /\ HasEntry(d, i) /\ HasEntry(d, j) /\ NoClear(d, i, j)
                     => d[i].generation = d[j].generation
        BY <1>0, <1>9, Behind DEF FeedInv, Cut
      <3> QED  BY <1>8, <3>1 DEF Cut
    <2>2. AllCurrent(lane, commands)'
      <3>1. \A i \in 1 .. Len(d) : HasEntry(d, i) /\ NoClear(d, i, Len(d)) => Current(lane, d[i])
        BY <1>0, <1>9, Behind DEF FeedInv, AllCurrent
      <3> QED  BY <1>8, <3>1 DEF AllCurrent
    <2>3. AllPast(lane, commands)'
      BY <1>1, <1>8 DEF AllPast, Past
    <2>4. Untouched(lane, commands)'
      <3>1. ~Uncleared(commands)
        BY <1>7 DEF Uncleared
      <3>2. lane # None
        BY <1>9, <3>1 DEF FeedInv, Untouched
      <3> QED  BY <3>2 DEF Untouched
    <2>5. Apart(commands', entries', garbage')
      BY <1>5, <1>6, <1>9 DEF FeedInv, Distinct
    <2> QED  BY <2>1, <2>2, <2>3, <2>4, <2>5
  <1>10. /\ \A tag : OnWay(commands', entries', garbage', tag)
                       <=> OnWay(commands, entries, garbage, tag)
         /\ position' \in Nat /\ span' \in Spans \cup {None} /\ end' \in Marks \cup {None}
         /\ sounded' \subseteq Nat
         /\ pending' \in Nat \cup {None} /\ published' \in Nat
    BY <1>0, <1>1, <1>5, <1>6
  <1> QED  BY <1>3, <1>7, <1>8, <1>9, <1>10, EngineStep

\* One command taken keeps the invariant.
LEMMA DrainKeeps == LaneInvariant /\ Drain => LaneInvariant'
  <1> SUFFICES ASSUME LaneInvariant, Drain PROVE LaneInvariant'
    OBVIOUS
  <1> DEFINE h == Head(commands)
  <1>0. /\ commands \in Fifo /\ entries \in Seq(Entry) /\ garbage \in Seq(Spent)
        /\ position \in Nat /\ span \in Spans \cup {None} /\ end \in Marks \cup {None}
        /\ commands # <<>>
        /\ commands' = Tail(commands)
        /\ UNCHANGED <<lane, looping, mark, pending, published, remade, amiss>>
    BY DEF LaneInvariant, TypeOK, Spent, Drain, network, clock, bounds
  <1>1. h \in Entry \cup Other
    BY <1>0, Popped
  <1>2. CASE h.op = "entry" /\ TakeEntry(h)
    <2>1. CASE Len(entries) = LaneCap
      <3>1. /\ garbage' = Append(garbage, Tag(h))
            /\ UNCHANGED <<entries, position, span, end, sounded>>
        BY <1>2, <2>1 DEF TakeEntry
      <3>2. /\ garbage' \in Seq(Spent)
            /\ Apart(commands, entries, garbage) => Apart(commands', entries, garbage')
            /\ \A tag : OnWay(commands', entries, garbage', tag)
                          <=> OnWay(commands, entries, garbage, tag)
        BY <1>0, <1>2, <3>1, TakenApart
      <3>3. /\ position' \in Nat /\ span' \in Spans \cup {None} /\ end' \in Marks \cup {None}
            /\ h.op # "clear"
        BY <1>0, <1>2, <3>1
      <3> QED  BY <1>0, <3>1, <3>2, <3>3, QueueKept
    <2>2. CASE Len(entries) # LaneCap
      <3>1. /\ entries' = InsertAt(entries, UpTo(h.position) + 1, h)
            /\ UNCHANGED <<garbage, position, span, end, sounded>>
        BY <1>2, <2>2 DEF TakeEntry
      <3> QED  BY <1>0, <1>2, <3>1, EntryJoins
    <2> QED  BY <2>1, <2>2
  <1>3. CASE h.op = "clear" /\ TakeClear
    BY <1>0, <1>3, ClearTaken
  <1>4. ASSUME h.op # "clear", h.op # "entry", UNCHANGED <<entries, garbage>>,
               position' \in Nat, span' \in Spans \cup {None}, end' \in Marks \cup {None},
               sounded' = {} \/ UNCHANGED <<position, sounded>>
        PROVE  LaneInvariant'
    <2>1. /\ Apart(commands, entries, garbage) => Apart(commands', entries, garbage')
          /\ \A tag : OnWay(commands', entries, garbage', tag)
                        <=> OnWay(commands, entries, garbage, tag)
      BY <1>0, <1>4, PoppedApart
    <2>2. garbage' \in Seq(Spent)
      BY <1>0, <1>4
    <2> QED  BY <1>0, <1>4, <2>1, <2>2, QueueKept
  <1>5. CASE /\ h.op = "locate" /\ position' = h.to /\ sounded' = {}
             /\ UNCHANGED <<entries, rolling, span, end, garbage>>
    <2>1. h.to \in Nat
      BY <1>1, <1>5 DEF Entry, Other
    <2> QED  BY <1>0, <1>4, <1>5, <2>1
  <1>6. CASE /\ h.op = "loop" /\ span' = h.span
             /\ UNCHANGED <<entries, position, rolling, end, sounded, garbage>>
    <2>1. h.span \in Spans \cup {None}
      BY <1>1, <1>6 DEF Entry, Other
    <2> QED  BY <1>0, <1>4, <1>6, <2>1
  <1>7. CASE /\ h.op = "run" /\ rolling' = h.on
             /\ UNCHANGED <<entries, position, span, end, sounded, garbage>>
    BY <1>0, <1>4, <1>7
  <1>8. CASE /\ h.op = "end" /\ end' = h.mark
             /\ UNCHANGED <<entries, position, rolling, span, sounded, garbage>>
    <2>1. h.mark \in Marks \cup {None}
      BY <1>1, <1>8 DEF Entry, Other
    <2> QED  BY <1>0, <1>4, <1>8, <2>1
  <1> QED  BY <1>2, <1>3, <1>5, <1>6, <1>7, <1>8 DEF Drain

\* One sample of a playing transport keeps the invariant: of one generation, no
\* entry left is of an event that has just sounded.
LEMMA SampleKeeps == LaneInvariant /\ Sample => LaneInvariant'
  <1> SUFFICES ASSUME LaneInvariant, Sample PROVE LaneInvariant'
    OBVIOUS
  <1> DEFINE n == Len(entries)
             a == Passed(position)
             b == UpTo(position)
             due == SubSeq(entries, a + 1, b)
             tags == [i \in DOMAIN due |-> Tag(due[i])]
             front == SubSeq(entries, 1, a)
             back == SubSeq(entries, b + 1, n)
  <1>0. /\ commands \in Fifo /\ entries \in Seq(Entry) /\ garbage \in Seq(Spent)
        /\ position \in Nat /\ span \in Spans \cup {None} /\ end \in Marks \cup {None}
        /\ sounded \subseteq Nat /\ Sorted /\ pending \in Nat \cup {None} /\ published \in Nat
    BY DEF LaneInvariant, TypeOK, Spent
  <1>1. /\ entries' = front \o back /\ garbage' = garbage \o tags
        /\ position' = position + 1
        /\ sounded' = sounded \cup {entries[i].event : i \in DueNow}
        /\ UNCHANGED <<lane, looping, mark, pending, commands, span, end, published, remade, amiss>>
    BY DEF Sample, network, bounds
  <1>2. /\ a \in Nat /\ b \in Nat /\ a <= b /\ b <= n /\ n \in Nat
        /\ \A i \in 1 .. n : /\ i <= a <=> entries[i].position < position
                             /\ i <= b <=> entries[i].position <= position
    <2> HIDE DEF n, a, b
    <2>1. /\ Passed(position) \in Nat /\ UpTo(position) \in Nat
          /\ Passed(position) <= UpTo(position) /\ UpTo(position) <= Len(entries)
          /\ \A i \in 1 .. Len(entries) :
               /\ i <= Passed(position) <=> entries[i].position < position
               /\ i <= UpTo(position) <=> entries[i].position <= position
      BY <1>0, QueueCuts, Zenon
    <2>2. Len(entries) \in Nat
      BY <1>0
    <2> QED  BY <2>1, <2>2 DEF n, a, b
  <1>3. DueNow = a + 1 .. b
    BY DEF DueNow
  <1> HIDE DEF a, b
  <1>4. \A i \in 1 .. n : entries[i] \in Entry
    BY <1>0
  <1> HIDE DEF n
  <1>5. /\ due \in Seq(Entry) /\ Len(due) = b - a /\ \A i \in 1 .. b - a : due[i] = entries[a + i]
        /\ front \in Seq(Entry) /\ Len(front) = a /\ \A i \in 1 .. a : front[i] = entries[i]
        /\ back \in Seq(Entry) /\ Len(back) = n - b /\ \A i \in 1 .. n - b : back[i] = entries[b + i]
    <2>1. /\ \A i \in a + 1 .. b : entries[i] \in Entry
          /\ \A i \in 1 .. a : entries[i] \in Entry
          /\ \A i \in b + 1 .. n : entries[i] \in Entry
      BY <1>2, <1>4
    <2>2. /\ due \in Seq(Entry) /\ Len(due) = (IF a + 1 <= b THEN b - (a + 1) + 1 ELSE 0)
          /\ \A i \in 1 .. b - (a + 1) + 1 : due[i] = entries[(a + 1) + i - 1]
      BY <1>2, <2>1, SubSeqProperties
    <2>3. /\ front \in Seq(Entry) /\ Len(front) = (IF 1 <= a THEN a - 1 + 1 ELSE 0)
          /\ \A i \in 1 .. a - 1 + 1 : front[i] = entries[1 + i - 1]
      BY <1>2, <2>1, SubSeqProperties
    <2>4. /\ back \in Seq(Entry) /\ Len(back) = (IF b + 1 <= n THEN n - (b + 1) + 1 ELSE 0)
          /\ \A i \in 1 .. n - (b + 1) + 1 : back[i] = entries[(b + 1) + i - 1]
      BY <1>2, <2>1, SubSeqProperties
    <2> HIDE DEF due, front, back
    <2>5. Len(due) = b - a /\ \A i \in 1 .. b - a : due[i] = entries[a + i]
      BY <1>2, <2>2
    <2>6. Len(front) = a /\ \A i \in 1 .. a : front[i] = entries[i]
      BY <1>2, <2>3
    <2>7. Len(back) = n - b /\ \A i \in 1 .. n - b : back[i] = entries[b + i]
      BY <1>2, <2>4
    <2> QED  BY <2>2, <2>3, <2>4, <2>5, <2>6, <2>7
  <1> HIDE DEF due, front, back
  <1>6. tags \in Seq(Spent) /\ Len(tags) = b - a /\ \A i \in 1 .. b - a : tags[i] = Tag(entries[a + i])
    <2>1. DOMAIN due = 1 .. b - a /\ b - a \in Nat
      BY <1>2, <1>5
    <2>2. \A i \in 1 .. b - a : Tag(due[i]) \in Spent
      <3> TAKE i \in 1 .. b - a
      <3>1. due[i] \in Entry
        BY <1>5, <2>1
      <3> QED  BY <3>1 DEF Tag, Entry, Spent
    <2>3. tags = [i \in 1 .. b - a |-> Tag(due[i])]
      BY <2>1
    <2>4. \A i \in 1 .. b - a : tags[i] = Tag(entries[a + i])
      BY <1>5, <2>3
    <2> HIDE DEF tags
    <2> QED  BY <2>1, <2>2, <2>3, <2>4
  <1> HIDE DEF tags
  <1>7. /\ garbage' \in Seq(Spent) /\ Len(garbage') = Len(garbage) + (b - a) /\ Len(garbage) \in Nat
        /\ \A i \in 1 .. Len(garbage) + (b - a) :
             garbage'[i] = IF i <= Len(garbage) THEN garbage[i] ELSE tags[i - Len(garbage)]
    <2>1. /\ garbage \o tags \in Seq(Spent) /\ Len(garbage \o tags) = Len(garbage) + Len(tags)
          /\ \A i \in 1 .. Len(garbage) + Len(tags) :
               (garbage \o tags)[i] = IF i <= Len(garbage) THEN garbage[i] ELSE tags[i - Len(garbage)]
      BY <1>0, <1>6, ConcatProperties, Zenon
    <2>2. Len(tags) = b - a /\ Len(garbage) \in Nat
      BY <1>0, <1>6
    <2> QED  BY <1>1, <2>1, <2>2
  <1>8. /\ entries' \in Seq(Entry) /\ Len(entries') = n - (b - a)
        /\ \A i \in 1 .. Len(entries') :
             entries'[i] = IF i <= a THEN entries[i] ELSE entries[i + (b - a)]
    <2>1. /\ entries' \in Seq(Entry) /\ Len(entries') = a + (n - b)
          /\ \A i \in 1 .. a + (n - b) : entries'[i] = IF i <= a THEN front[i] ELSE back[i - a]
      <3>1. /\ front \o back \in Seq(Entry) /\ Len(front \o back) = Len(front) + Len(back)
            /\ \A i \in 1 .. Len(front) + Len(back) :
                 (front \o back)[i] = IF i <= Len(front) THEN front[i] ELSE back[i - Len(front)]
        BY <1>5, ConcatProperties, ZenonT(40)
      <3>2. Len(front) = a /\ Len(back) = n - b
        BY <1>5
      <3> QED  BY <1>1, <3>1, <3>2
    <2>2. Len(entries') = n - (b - a)
      BY <1>2, <2>1
    <2>3. ASSUME NEW i \in 1 .. Len(entries')
          PROVE  entries'[i] = IF i <= a THEN entries[i] ELSE entries[i + (b - a)]
      <3>0. i \in 1 .. a + (n - b)
        BY <2>1
      <3>1. CASE i <= a
        BY <1>2, <1>5, <2>1, <3>0, <3>1
      <3>2. CASE ~(i <= a)
        <4>1. i - a \in 1 .. n - b /\ b + (i - a) = i + (b - a)
          BY <1>2, <3>0, <3>2
        <4>2. entries'[i] = back[i - a] /\ back[i - a] = entries[b + (i - a)]
          BY <1>5, <2>1, <3>0, <3>2, <4>1
        <4> QED  BY <3>2, <4>1, <4>2
      <3> QED  BY <3>1, <3>2
    <2> QED  BY <2>1, <2>2, <2>3
  <1>9. Spend(entries, garbage, a, b, entries', garbage')
    <2>1. ASSUME NEW i \in 1 .. Len(garbage')
          PROVE  garbage'[i] = IF i <= Len(garbage) THEN garbage[i]
                               ELSE Tag(entries[a + i - Len(garbage)])
      <3>1. CASE i <= Len(garbage)
        BY <1>7, <3>1
      <3>2. CASE ~(i <= Len(garbage))
        <4>1. i - Len(garbage) \in 1 .. b - a /\ a + (i - Len(garbage)) = a + i - Len(garbage)
          BY <1>2, <1>7, <3>2
        <4>2. garbage'[i] = tags[i - Len(garbage)]
          BY <1>7, <3>2
        <4> QED  BY <1>6, <3>2, <4>1, <4>2
      <3> QED  BY <3>1, <3>2
    <2> QED  BY <1>2, <1>7, <1>8, <2>1 DEF Spend, n
  <1>10. /\ Apart(commands, entries, garbage) => Apart(commands', entries', garbage')
         /\ \A tag : OnWay(commands', entries', garbage', tag)
                       <=> OnWay(commands, entries, garbage, tag)
    BY <1>0, <1>1, <1>2, <1>9, SpentApart
  \* Where the entries left were.
  <1>11. ASSUME NEW i \in 1 .. Len(entries')
         PROVE  \E k \in 1 .. n : (k <= a \/ k > b) /\ entries'[i] = entries[k]
                                  /\ k = (IF i <= a THEN i ELSE i + (b - a))
    <2>0. i \in 1 .. n - (b - a)
      BY <1>8
    <2>1. CASE i <= a
      <3>1. i \in 1 .. n /\ entries'[i] = entries[i]
        BY <1>2, <1>8, <2>0, <2>1
      <3> QED  BY <2>1, <3>1
    <2>2. CASE ~(i <= a)
      <3>1. i + (b - a) \in 1 .. n /\ i + (b - a) > b
        BY <1>2, <2>0, <2>2
      <3>2. entries'[i] = entries[i + (b - a)]
        BY <1>8, <2>2
      <3> QED  BY <2>2, <3>1, <3>2
    <2> QED  BY <2>1, <2>2
  <1>12. Sorted'
    <2>1. ASSUME NEW i \in 1 .. Len(entries'), NEW j \in 1 .. Len(entries'), i < j
          PROVE  entries'[i].position <= entries'[j].position
      <3>1. PICK k \in 1 .. n : entries'[i] = entries[k] /\ k = (IF i <= a THEN i ELSE i + (b - a))
        BY <1>11
      <3>2. PICK m \in 1 .. n : entries'[j] = entries[m] /\ m = (IF j <= a THEN j ELSE j + (b - a))
        BY <1>11
      <3>3. k < m
        BY <1>2, <2>1, <3>1, <3>2
      <3> QED  BY <1>0, <3>1, <3>2, <3>3 DEF Sorted, n
    <2> QED  BY <2>1 DEF Sorted
  <1>13. position' \in Nat /\ sounded' \subseteq Nat
    <2>2. \A i \in DueNow : i \in 1 .. n
      BY <1>2, <1>3
    <2>3. \A i \in DueNow : entries[i].event \in Nat
      <3> TAKE i \in DueNow
      <3>1. entries[i] \in Entry
        BY <1>4, <2>2
      <3> QED  BY <3>1 DEF Entry
    <2>4. position' \in Nat
      BY <1>0, <1>1
    <2>5. sounded' \subseteq Nat
      BY <1>0, <1>1, <2>3
    <2> QED  BY <2>4, <2>5
  <1>14. ASSUME FeedInv(lane, commands)
         PROVE  /\ Cut(commands)' /\ AllCurrent(lane, commands)' /\ AllPast(lane, commands)'
                /\ Untouched(lane, commands)'
    <2>1. Cut(commands)'
      <3>1. \A i, j \in 1 .. n : entries[i].generation = entries[j].generation
        BY <1>14 DEF FeedInv, Cut, n
      <3>2. \A i, j \in 1 .. Len(entries') : entries'[i].generation = entries'[j].generation
        BY <1>11, <3>1
      <3>3. \A i \in 1 .. n, j \in 1 .. Len(commands) :
              HasEntry(commands, j) /\ NoClear(commands, 1, j)
                => entries[i].generation = commands[j].generation
        BY <1>14 DEF FeedInv, Cut, n
      <3>4. \A i \in 1 .. Len(entries'), j \in 1 .. Len(commands) :
              HasEntry(commands, j) /\ NoClear(commands, 1, j)
                => entries'[i].generation = commands[j].generation
        BY <1>11, <3>3
      <3> QED  BY <1>1, <1>14, <3>2, <3>4, SMTT(30) DEF FeedInv, Cut
    <2>2. AllCurrent(lane, commands)'
      <3>1. Uncleared(commands) => \A i \in 1 .. n : Current(lane, entries[i])
        BY <1>14 DEF FeedInv, AllCurrent, n
      <3>2. Uncleared(commands) => \A i \in 1 .. Len(entries') : Current(lane, entries'[i])
        BY <1>11, <3>1
      <3> QED  BY <1>1, <1>14, <3>2 DEF FeedInv, AllCurrent
    <2>3. AllPast(lane, commands)'
      <3>0. position' = position + 1 /\ position < position' /\ position \in Nat
            /\ sounded' = sounded \cup {entries[i].event : i \in a + 1 .. b}
        BY <1>0, <1>1, <1>3
      <3>1. \A k \in a + 1 .. b : k \in 1 .. n
        BY <1>2
      \* An entry of the queue's generation, but none of those just spent.
      <3>2. ASSUME NEW x, x.position \in Nat, Past(x),
                   \A k \in a + 1 .. b : x.generation = entries[k].generation
                                         /\ Tag(x) # Tag(entries[k])
            PROVE  x.event \in sounded' => x.position < position'
        <4>1. \A k \in a + 1 .. b : x.event # entries[k].event
          BY <3>2 DEF Tag
        <4>2. x.event \in sounded' => x.event \in sounded
          BY <3>0, <4>1
        <4> QED  BY <3>0, <3>2, <4>2 DEF Past
      <3>3. ASSUME NEW i \in 1 .. Len(entries') 
            PROVE  entries'[i].event \in sounded' => entries'[i].position < position'
        <4>1. PICK k \in 1 .. n : (k <= a \/ k > b) /\ entries'[i] = entries[k]
          BY <1>11
        <4>2. Past(entries[k])
          BY <1>14 DEF FeedInv, AllPast, n
        <4>3. \A m \in a + 1 .. b : entries[k].generation = entries[m].generation
          BY <1>14, <3>1 DEF FeedInv, Cut, n
        <4>4. \A m \in a + 1 .. b : Tag(entries[k]) # Tag(entries[m])
          <5> TAKE m \in a + 1 .. b
          <5>1. m \in 1 .. n /\ m # k
            BY <1>2, <4>1
          <5> QED  BY <1>14, <5>1 DEF FeedInv, Distinct, Apart, n
        <4>5. entries[k].position \in Nat
          BY <1>4 DEF Entry
        <4>6. PICK x : x = entries[k]
          OBVIOUS
        <4>7. x.event \in sounded' => x.position < position'
          BY <3>2, <4>2, <4>3, <4>4, <4>5, <4>6
        <4> QED  BY <4>1, <4>6, <4>7
      <3>4. ASSUME NEW i \in 1 .. Len(commands), HasEntry(commands, i), NoClear(commands, 1, i)
            PROVE  commands[i].event \in sounded' => commands[i].position < position'
        <4>2. Past(commands[i])
          BY <1>14, <3>4 DEF FeedInv, AllPast
        <4>3. \A m \in a + 1 .. b : commands[i].generation = entries[m].generation
          BY <1>14, <3>1, <3>4 DEF FeedInv, Cut, n
        <4>4. \A m \in a + 1 .. b : Tag(commands[i]) # Tag(entries[m])
          BY <1>14, <3>1, <3>4 DEF FeedInv, Distinct, Apart, n
        <4>5. commands[i].position \in Nat
          <5>1. commands[i] \in Entry \cup Other /\ commands[i].op = "entry"
            BY <1>0, <3>4 DEF Fifo, HasEntry
          <5>2. commands[i] \in Entry
            BY <5>1 DEF Other
          <5> QED  BY <5>2 DEF Entry
        <4>6. PICK x : x = commands[i]
          OBVIOUS
        <4>7. x.event \in sounded' => x.position < position'
          BY <3>2, <4>2, <4>3, <4>4, <4>5, <4>6
        <4> QED  BY <4>6, <4>7
      <3>5. ASSUME Uncleared(commands), lane # None, NEW e \in sounded', e \in DOMAIN lane.score
            PROVE  lane.score[e] < position'
        <4>1. CASE e \in sounded
          <5>1. lane.score[e] < position
            BY <1>14, <3>5, <4>1 DEF FeedInv, AllPast
          <5>2. lane.score[e] \in Nat
            <6>1. lane \in Lanes
              BY <3>5, Types
            <6>2. lane.score \in Seq(Nat)
              BY <6>1, LaneHas
            <6> QED  BY <3>5, <6>2
          <5> QED  BY <3>0, <5>1, <5>2
        <4>2. CASE e \notin sounded
          <5>1. PICK k \in a + 1 .. b : e = entries[k].event
            BY <3>0, <3>5, <4>2
          <5>2. Current(lane, entries[k])
            BY <1>14, <3>1, <3>5 DEF FeedInv, AllCurrent, n
          <5>3. lane.score[e] = entries[k].position
            BY <5>1, <5>2 DEF Current
          <5>4. k \in 1 .. n /\ k <= b
            BY <1>2
          <5>5. entries[k].position <= position /\ entries[k].position \in Nat
            BY <1>2, <1>4, <5>4 DEF Entry
          <5> QED  BY <3>0, <5>3, <5>5
        <4> QED  BY <4>1, <4>2
      <3> QED  BY <1>1, <3>3, <3>4, <3>5 DEF AllPast, Past
    <2>4. Untouched(lane, commands)'
      <3>1. ASSUME lane = None PROVE DueNow = {} /\ sounded = {} /\ Uncleared(commands)
        <4>1. n = 0
          BY <1>2, <1>14, <3>1 DEF FeedInv, AllKnown, Known, n
        <4> QED  BY <1>2, <1>3, <1>14, <3>1, <4>1 DEF FeedInv, Untouched
      <3> QED  BY <1>1, <3>1 DEF Untouched
    <2> QED  BY <2>1, <2>2, <2>3, <2>4
  <1>15. FeedInv(lane, commands) => Apart(commands, entries, garbage)
    BY DEF FeedInv, Distinct
  <1>16. commands' \in Fifo /\ pending' \in Nat \cup {None} /\ span' \in Spans \cup {None}
         /\ end' \in Marks \cup {None} /\ published' \in Nat
    BY <1>0, <1>1
  <1> QED  BY <1>1, <1>7, <1>8, <1>10, <1>12, <1>13, <1>14, <1>15, <1>16, EngineStep

\* An edge leaves the queue as it is: what had sounded has, or nothing has.
LEMMA EdgeStep ==
    ASSUME LaneInvariant,
           UNCHANGED <<lane, looping, mark, pending, commands, garbage, entries, span, end,
                       published, remade, amiss>>,
           position' \in Nat, sounded' = {} \/ UNCHANGED <<position, sounded>>
    PROVE  LaneInvariant'
  <1>0. /\ commands \in Fifo /\ entries \in Seq(Entry) /\ garbage \in Seq(Spent)
        /\ span \in Spans \cup {None} /\ end \in Marks \cup {None}
        /\ pending \in Nat \cup {None} /\ published \in Nat
        /\ sounded \subseteq Nat /\ Sorted
    BY DEF LaneInvariant, TypeOK, Spent
  <1>1. Sorted' /\ sounded' \subseteq Nat
    BY <1>0 DEF Sorted
  <1>2. ASSUME FeedInv(lane, commands)
        PROVE  /\ Apart(commands', entries', garbage')
               /\ Cut(commands)' /\ AllCurrent(lane, commands)' /\ AllPast(lane, commands)'
               /\ Untouched(lane, commands)'
    <2>1. Apart(commands', entries', garbage')
      BY <1>2 DEF FeedInv, Distinct
    <2>2. Cut(commands)'
      BY <1>2 DEF FeedInv, Cut
    <2>3. AllCurrent(lane, commands)'
      BY <1>2 DEF FeedInv, AllCurrent
    <2>4. AllPast(lane, commands)'
      <3>1. CASE sounded' = {}
        BY <3>1 DEF AllPast, Past
      <3>2. CASE UNCHANGED <<position, sounded>>
        BY <1>2, <3>2 DEF FeedInv, AllPast, Past
      <3> QED  BY <3>1, <3>2
    <2>5. Untouched(lane, commands)'
      BY <1>2 DEF FeedInv, Untouched
    <2> QED  BY <2>1, <2>2, <2>3, <2>4, <2>5
  <1>3. /\ commands' \in Fifo /\ entries' \in Seq(Entry) /\ garbage' \in Seq(Spent)
        /\ span' \in Spans \cup {None} /\ end' \in Marks \cup {None}
        /\ pending' \in Nat \cup {None} /\ published' \in Nat
        /\ \A tag : OnWay(commands', entries', garbage', tag)
                      <=> OnWay(commands, entries, garbage, tag)
    BY <1>0
  <1> QED  BY <1>1, <1>2, <1>3, EngineStep

\* A wrap keeps it: nothing has sounded in the pass that begins.
LEMMA WrapKeeps == LaneInvariant /\ Wrap => LaneInvariant'
  <1> SUFFICES ASSUME LaneInvariant, Wrap PROVE LaneInvariant'
    OBVIOUS
  <1>1. /\ span # None /\ position' = span.start /\ sounded' = {}
        /\ UNCHANGED <<lane, looping, mark, pending, commands, garbage, entries, span, end,
                       published, remade, amiss>>
    BY DEF Wrap, WrapDue, network, fifos, bounds
  <1>2. span.start \in Nat
    BY <1>1, GoodConstants DEF LaneInvariant, TypeOK
  <1> QED  BY <1>1, <1>2, EdgeStep

\* The end of a pass keeps it, whether it goes back or not.
LEMMA EndPassKeeps == LaneInvariant /\ EndPass => LaneInvariant'
  <1> SUFFICES ASSUME LaneInvariant, EndPass PROVE LaneInvariant'
    OBVIOUS
  <1>1. /\ end # None
        /\ \/ UNCHANGED <<position, sounded>>
           \/ end.back # None /\ position' = end.back /\ sounded' = {}
        /\ UNCHANGED <<lane, looping, mark, pending, commands, garbage, entries, span, end,
                       published, remade, amiss>>
    BY DEF EndPass, MarkDue, network, fifos, bounds
  <1>2. end.back \in Nat \cup {None} /\ position \in Nat
    BY <1>1, GoodConstants DEF LaneInvariant, TypeOK
  <1>3. position' \in Nat /\ (sounded' = {} \/ UNCHANGED <<position, sounded>>)
    BY <1>1, <1>2
  <1> QED  BY <1>1, <1>3, EdgeStep

-----------------------------------------------------------------------------
(* What comes back. *)

\* The head of the garbage collected keeps the invariant: of the lane's own
\* generation, no other entry on its way is of its event.
LEMMA CollectSpentKeeps == LaneInvariant /\ CollectSpent => LaneInvariant'
  <1> SUFFICES ASSUME LaneInvariant, CollectSpent PROVE LaneInvariant'
    OBVIOUS
  <1> DEFINE g == Head(garbage)
             own == lane # None /\ OwnGeneration(g)
  <1>0. /\ garbage \in Seq(Spent) /\ garbage # <<>> /\ lane \in Lanes \cup {None}
        /\ entries \in Seq(Entry) /\ commands \in Fifo
    BY DEF LaneInvariant, TypeOK, Spent, CollectSpent
  <1>1. /\ garbage' = Tail(garbage)
        /\ lane' = (IF own THEN [lane EXCEPT !.queued = @ \ {g.event}] ELSE lane)
        /\ UNCHANGED <<looping, mark, pending, commands, entries, position, span, end, sounded,
                       published, remade, amiss>>
    BY DEF CollectSpent, engine, clock, bounds
  <1>2. /\ garbage' \in Seq(Spent) /\ Len(garbage) \in Nat \ {0} /\ Len(garbage') = Len(garbage) - 1
        /\ \A i \in 1 .. Len(garbage') : garbage'[i] = garbage[i + 1]
        /\ g = garbage[1] /\ g \in Spent
    BY <1>0, <1>1, HeadTailProperties
  <1>3. g = [generation |-> g.generation, event |-> g.event]
    BY <1>2 DEF Spent
  <1> HIDE DEF g
  <1>4. /\ \A i \in 1 .. Len(garbage') : i + 1 \in 1 .. Len(garbage) /\ i + 1 # 1
        /\ \A i \in 1 .. Len(garbage) : i # 1 => i - 1 \in 1 .. Len(garbage')
                                                 /\ garbage'[i - 1] = garbage[i]
        /\ 1 \in 1 .. Len(garbage)
    BY <1>2
  <1>5. own <=> lane # None /\ g.generation = lane.generation
    BY DEF OwnGeneration
  <1>6. /\ lane' \in Lanes \cup {None} /\ (lane' = None <=> lane = None)
        /\ lane # None => /\ lane'.generation = lane.generation /\ lane'.score = lane.score
                          /\ lane'.queued = (IF own THEN lane.queued \ {g.event} ELSE lane.queued)
    <2>1. CASE own
      <3>1. lane \in Lanes
        BY <1>0, <1>5, <2>1
      <3> DEFINE m == [lane EXCEPT !.queued = @ \ {g.event}]
      <3>2. m \in Lanes /\ m.generation = lane.generation /\ m.score = lane.score
            /\ m.queued = lane.queued \ {g.event}
        BY <3>1 DEF Lanes
      <3>3. lane' = m /\ m # None /\ lane # None
        BY <1>1, <2>1, <3>1, <3>2, NoneIsNoLane
      <3> HIDE DEF m, own
      <3> QED  BY <2>1, <3>2, <3>3
    <2>2. CASE ~own
      <3> HIDE DEF own
      <3> QED  BY <1>0, <1>1, <2>2
    <2> QED  BY <2>1, <2>2
  <1> HIDE DEF own
  <1>7. TypeOK'
    BY <1>1, <1>2, <1>6 DEF LaneInvariant, TypeOK, Spent
  <1>8. Sorted'
    BY <1>1 DEF LaneInvariant, Sorted
  <1>9. Marked(lane, commands)'
    <2> SUFFICES ASSUME lane # None, NEW e \in lane'.queued
                 PROVE  OnWay(commands', entries', garbage',
                              [generation |-> lane'.generation, event |-> e])
      BY <1>6 DEF Marked, OnItsWay
    <2> DEFINE tag == [generation |-> lane.generation, event |-> e]
    <2>1. e \in lane.queued /\ (own => e # g.event) /\ lane'.generation = lane.generation
      BY <1>6
    <2>2. OnWay(commands, entries, garbage, tag)
      BY <2>1 DEF LaneInvariant, Marked, OnItsWay
    <2>3. tag.generation = lane.generation /\ tag.event = e
      OBVIOUS
    <2> HIDE DEF tag
    <2>4. tag # g
      BY <1>5, <2>1, <2>3
    <2>5. (\E i \in 1 .. Len(garbage) : garbage[i] = tag)
             => \E i \in 1 .. Len(garbage') : garbage'[i] = tag
      <3> SUFFICES ASSUME NEW i \in 1 .. Len(garbage), garbage[i] = tag
                   PROVE  \E k \in 1 .. Len(garbage') : garbage'[k] = tag
        OBVIOUS
      <3>1. i # 1
        BY <1>2, <2>4
      <3> QED  BY <1>4, <3>1
    <2>6. OnWay(commands', entries', garbage', tag)
      BY <1>1, <2>2, <2>5 DEF OnWay
    <2> QED  BY <2>1, <2>6 DEF tag
  <1>10. ASSUME Regular' PROVE FeedInv(lane, commands)'
    <2>0. FeedInv(lane, commands)
      BY <1>1, <1>10 DEF LaneInvariant, Regular
    <2>1. Apart(commands, entries, garbage)
      BY <2>0 DEF FeedInv, Distinct
    <2>2. Apart(commands', entries', garbage')
      <3>1. ASSUME NEW i \in 1 .. Len(garbage'), NEW j \in 1 .. Len(garbage'), garbage'[i] = garbage'[j]
            PROVE  i = j
        <4>1. i + 1 \in 1 .. Len(garbage) /\ j + 1 \in 1 .. Len(garbage)
              /\ garbage[i + 1] = garbage[j + 1]
          BY <1>2, <1>4, <3>1
        <4>2. i + 1 = j + 1
          BY <2>1, <4>1 DEF Apart
        <4> QED  BY <4>2
      <3>2. ASSUME NEW j \in 1 .. Len(garbage')
            PROVE  \E k \in 1 .. Len(garbage) : garbage'[j] = garbage[k]
        BY <1>2, <1>4
      <3>3. \A i \in 1 .. Len(commands), j \in 1 .. Len(garbage') :
              HasEntry(commands, i) => Tag(commands[i]) # garbage'[j]
        BY <2>1, <3>2 DEF Apart
      <3>4. \A i \in 1 .. Len(entries), j \in 1 .. Len(garbage') : Tag(entries[i]) # garbage'[j]
        BY <2>1, <3>2 DEF Apart
      <3> QED  BY <1>1, <2>1, <3>1, <3>3, <3>4 DEF Apart
    \* What is left on its way is known, and not the one collected.
    <2>3. ASSUME NEW tag, OnWay(commands', entries', garbage', tag) PROVE Known(lane', tag)
      <3>1. OnWay(commands, entries, garbage, tag)
        <4>1. (\E i \in 1 .. Len(garbage') : garbage'[i] = tag)
                 => \E i \in 1 .. Len(garbage) : garbage[i] = tag
          BY <1>2, <1>4
        <4> QED  BY <1>1, <2>3, <4>1 DEF OnWay
      <3>2. Known(lane, tag)
        BY <2>0, <3>1, KnownIsAll DEF FeedInv, OnItsWay
      <3>3. CASE own /\ tag.generation = lane.generation
        <4>1. tag # g
          <5>1. ASSUME NEW i \in 1 .. Len(commands), HasEntry(commands, i), Tag(commands[i]) = tag
                PROVE  tag # g
            BY <1>2, <1>4, <2>1, <5>1 DEF Apart
          <5>2. ASSUME NEW i \in 1 .. Len(entries), Tag(entries[i]) = tag PROVE tag # g
            BY <1>2, <1>4, <2>1, <5>2 DEF Apart
          <5>3. ASSUME NEW i \in 1 .. Len(garbage'), garbage'[i] = tag PROVE tag # g
            <6>1. i + 1 \in 1 .. Len(garbage) /\ i + 1 # 1 /\ garbage[i + 1] = tag
              BY <1>2, <1>4, <5>3
            <6> QED  BY <1>2, <1>4, <2>1, <6>1 DEF Apart
          <5> QED  BY <1>1, <2>3, <5>1, <5>2, <5>3 DEF OnWay
        <4>2. tag = [generation |-> tag.generation, event |-> tag.event]
          <5>1. ASSUME NEW x PROVE Tag(x) = [generation |-> Tag(x).generation, event |-> Tag(x).event]
            BY DEF Tag
          <5>2. ASSUME NEW i \in 1 .. Len(garbage)
                PROVE  garbage[i] = [generation |-> garbage[i].generation, event |-> garbage[i].event]
            <6>1. garbage[i] \in Spent
              BY <1>0
            <6> QED  BY <6>1 DEF Spent
          <5> QED  BY <3>1, <5>1, <5>2 DEF OnWay
        <4>3. tag.event # g.event
          BY <1>3, <1>5, <3>3, <4>1, <4>2
        <4> QED  BY <1>6, <3>2, <3>3, <4>3 DEF Known
      <3>4. CASE ~(own /\ tag.generation = lane.generation)
        BY <1>6, <3>2, <3>4 DEF Known
      <3> QED  BY <3>3, <3>4
    <2>4. AllKnown(lane, commands)'
      BY <2>3 DEF AllKnown, OnWay, HasEntry
    <2>5. Cut(commands)'
      BY <1>1, <2>0 DEF FeedInv, Cut
    <2>6. AllCurrent(lane, commands)'
      <3>1. \A x : Current(lane, x) => Current(lane', x)
        BY <1>6 DEF Current
      <3> QED  BY <1>1, <2>0, <3>1 DEF FeedInv, AllCurrent
    <2>7. AllPast(lane, commands)'
      BY <1>1, <1>6, <2>0 DEF FeedInv, AllPast, Past
    <2>8. Untouched(lane, commands)'
      BY <1>1, <1>6, <2>0 DEF FeedInv, Untouched
    <2> QED  BY <2>2, <2>4, <2>5, <2>6, <2>7, <2>8 DEF FeedInv, Distinct
  <1> QED  BY <1>7, <1>8, <1>9, <1>10 DEF LaneInvariant

\* The word that the pass ended keeps it: the lane starts over.
LEMMA CollectEndedKeeps == LaneInvariant /\ CollectEnded => LaneInvariant'
  <1> SUFFICES ASSUME LaneInvariant, CollectEnded PROVE LaneInvariant'
    OBVIOUS
  <1> DEFINE r == Restarted(lane, published, looping, mark, commands)
  <1>1. /\ lane' = r.lane /\ amiss' = amiss + r.amiss /\ commands' = r.commands
        /\ pending' = None
        /\ UNCHANGED <<garbage, engine, looping, mark, published, remade>>
    BY DEF CollectEnded, Outcome, clock
  <1>2. /\ r.lane \in Lanes \cup {None} /\ r.commands \in Fifo /\ r.amiss \in Nat
        /\ Marked(r.lane, r.commands)
        /\ FeedInv(lane, commands) /\ r.amiss = 0 => FeedInv(r.lane, r.commands)
    BY Types, RestartedKeeps
  <1> HIDE DEF r
  <1> QED  BY <1>1, <1>2, Types, NetworkStep DEF Regular

-----------------------------------------------------------------------------
(* The theorems. *)

\* At the start there is no lane and nothing is on its way.
LEMMA LaneStarts == Init => LaneInvariant
  <1> SUFFICES ASSUME Init PROVE LaneInvariant
    OBVIOUS
  <1>1. /\ lane = None /\ commands = <<>> /\ garbage = <<>> /\ entries = <<>> /\ sounded = {}
        /\ Len(commands) = 0 /\ Len(garbage) = 0 /\ Len(entries) = 0
    BY DEF Init
  <1>2. TypeOK
    <2>1. commands \in Fifo
      BY <1>1, GoodConstants DEF Fifo
    <2>2. entries \in Seq(Entry) /\ garbage \in Seq([generation: Nat, event: Nat])
      BY <1>1
    <2>3. /\ lane = None /\ looping = None /\ pending = None /\ span = None
          /\ mark = None /\ end = None /\ position = 0 /\ published = 0 /\ remade = FALSE /\ amiss = 0
      BY DEF Init
    <2> QED  BY <1>1, <2>1, <2>2, <2>3 DEF TypeOK
  <1>3. Sorted /\ Marked(lane, commands)
    BY <1>1 DEF Sorted, Marked
  <1>4. FeedInv(lane, commands)
    <2>1. Distinct(commands)
      BY <1>1 DEF Distinct, Apart
    <2>2. AllKnown(lane, commands) /\ Cut(commands) /\ AllCurrent(lane, commands)
      BY <1>1 DEF AllKnown, Cut, AllCurrent
    <2>3. AllPast(lane, commands) /\ Untouched(lane, commands)
      BY <1>1 DEF AllPast, Untouched, Uncleared
    <2> QED  BY <2>1, <2>2, <2>3 DEF FeedInv
  <1> QED  BY <1>2, <1>3, <1>4 DEF LaneInvariant

\* Every step keeps the invariant.
LEMMA LaneKeeps == LaneInvariant /\ [Next]_vars => LaneInvariant'
  <1> SUFFICES ASSUME LaneInvariant, [Next]_vars PROVE LaneInvariant'
    OBVIOUS
  <1>1. CASE Receive
    BY <1>1, MakeKeeps, SetScoreKeeps, FreeLaneKeeps, LocateKeeps, SetLoopKeeps,
       SetMarkKeeps, PlayKeeps
       DEF Receive
  <1>2. CASE Feed
    BY <1>2, FeedKeeps
  <1>3. CASE Collect
    BY <1>3, CollectSpentKeeps, CollectEndedKeeps DEF Collect
  <1>4. CASE Render
    BY <1>4, DrainKeeps, SampleKeeps, WrapKeeps, EndPassKeeps, EndBlockKeeps DEF Render
  <1>5. CASE UNCHANGED vars
    <2>1. UNCHANGED <<lane, looping, mark, pending, commands, garbage, engine, published, remade, amiss>>
      BY <1>5 DEF vars, network, fifos, clock, bounds
    <2> QED  BY <2>1, Types, NetworkStep DEF Regular
  <1> QED  BY <1>1, <1>2, <1>3, <1>4, <1>5 DEF Next

\* The invariant holds in every behaviour.
THEOREM LaneInvariantHolds == Spec => []LaneInvariant
  BY LaneStarts, LaneKeeps, PTL DEF Spec

\* An event marked as queued is on its way, sent, waiting on the engine or coming
\* back spent: feed_lanes passes over what is marked (lanes.rs:1189-1199), and
\* only an entry that comes back unmarks it.
THEOREM NoneIsLost == Spec => []MarkedIsOnItsWay
  <1>1. LaneInvariant => MarkedIsOnItsWay
    <2> SUFFICES ASSUME LaneInvariant, lane # None, NEW e \in lane.queued
                 PROVE  LET tag == [generation |-> lane.generation, event |-> e] IN
                          \/ \E i \in DOMAIN commands :
                               commands[i].op = "entry" /\ Tag(commands[i]) = tag
                          \/ \E i \in DOMAIN entries : Tag(entries[i]) = tag
                          \/ \E i \in DOMAIN garbage : garbage[i] = tag
      BY DEF MarkedIsOnItsWay
    <2>1. OnItsWay(commands, [generation |-> lane.generation, event |-> e])
      BY DEF LaneInvariant, Marked
    <2>2. /\ DOMAIN commands = 1 .. Len(commands) /\ DOMAIN entries = 1 .. Len(entries)
          /\ DOMAIN garbage = 1 .. Len(garbage)
      BY DEF LaneInvariant, TypeOK, Fifo
    <2> QED  BY <2>1, <2>2 DEF OnItsWay, OnWay, HasEntry
  <1> QED  BY <1>1, LaneInvariantHolds, PTL

\* The engine's lane queue holds no event twice: its entries are of one
\* generation (Cut), and apart.
THEOREM OnceQueued == Spec => []OnceOnTheQueue
  <1>1. LaneInvariant => OnceOnTheQueue
    <2> SUFFICES ASSUME LaneInvariant, Regular, NEW i \in DOMAIN entries, NEW j \in DOMAIN entries,
                        entries[i].event = entries[j].event
                 PROVE  i = j
      BY DEF OnceOnTheQueue
    <2>1. FeedInv(lane, commands)
      BY DEF LaneInvariant
    <2>2. i \in 1 .. Len(entries) /\ j \in 1 .. Len(entries)
      BY DEF LaneInvariant, TypeOK
    <2>3. entries[i].generation = entries[j].generation
      BY <2>1, <2>2 DEF FeedInv, Cut
    <2>4. Tag(entries[i]) = Tag(entries[j])
      BY <2>3 DEF Tag
    <2> QED  BY <2>1, <2>2, <2>4 DEF FeedInv, Distinct, Apart
  <1> QED  BY <1>1, LaneInvariantHolds, PTL

\* No event sounds twice in one pass: what has sounded the position has passed
\* (AllPast), and what is due stands at it.
THEOREM OnceSounded == Spec => OncePerPass
  <1>1. LaneInvariant /\ [Next]_vars =>
          [Regular /\ Sample => \A i \in DueNow : entries[i].event \notin sounded]_vars
    <2> SUFFICES ASSUME LaneInvariant, Regular, NEW i \in DueNow
                 PROVE  entries[i].event \notin sounded
      OBVIOUS
    <2>1. FeedInv(lane, commands) /\ entries \in Seq(Entry) /\ Sorted /\ position \in Nat
      BY DEF LaneInvariant, TypeOK
    <2>2. /\ Passed(position) \in Nat /\ UpTo(position) \in Nat /\ UpTo(position) <= Len(entries)
          /\ \A k \in 1 .. Len(entries) : k <= Passed(position) <=> entries[k].position < position
      BY <2>1, QueueCuts
    <2>3. i \in 1 .. Len(entries) /\ ~(i <= Passed(position))
      <3>1. Len(entries) \in Nat
        BY <2>1
      <3> QED  BY <2>2, <3>1 DEF DueNow
    <2>4. ~(entries[i].position < position)
      BY <2>2, <2>3
    <2> QED  BY <2>1, <2>3, <2>4 DEF FeedInv, AllPast, Past
  <1> QED  BY <1>1, LaneInvariantHolds, PTL DEF Spec, OncePerPass

=============================================================================
