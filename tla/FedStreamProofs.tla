--------------------------- MODULE FedStreamProofs ---------------------------
(***************************************************************************)
(* HeadIsRing of FedStream: what the reader takes for the ring's front is  *)
(* the frame rendered there.  The reader's steps are proved one by one, of *)
(* any record r of its state, against the owner and the boundary it told.  *)
(***************************************************************************)
EXTENDS FedStream, SequenceTheorems, TLAPS

Maybe(S) == S \cup {None}
Epoch == 0 .. Epochs - 1
Boundary == [epoch : Epoch, since : Nat]
Request == [frame : Nat, epoch : Epoch, wrap : Maybe(Loops)]
KeptFrames == [next : Seq(Nat), at : Nat, splice : BOOLEAN, wrap : Maybe(Loops), frame : Nat]

Reader == [ring : Seq(Nat), inbox : Seq(Request), epoch : Epoch,
           pending : Maybe(Nat), head : Maybe(Nat), outgoing : Maybe(KeptFrames),
           continues : Maybe(Nat), applied : Maybe(Loops), wrap : Maybe(Loops),
           standing : Maybe(Nat), sent : BOOLEAN, gen : Nat, refused : BOOLEAN]

Transport == [pos : Nat, rolling : BOOLEAN, loop : Maybe(Loops),
              change : Maybe([span : Maybe(Loops), waited : Nat]),
              cue : Maybe(Nat), left : Maybe(Nat), slice : Nat, mute : BOOLEAN]

Owner == [pc : {"turn", "render", "publish"}, next : Maybe(Nat), wrap : Maybe(Loops),
          first : BOOLEAN, due : Maybe(Boundary)]

\* A slice in hand is of a block in hand.
Within(t) == t \in Transport /\ (t.slice > 0 => t.left # None /\ t.slice <= t.left)

TransportTypes == Within(transport)

SideTypes ==
    /\ owner \in Owner /\ ack \in Boundary /\ generation \in Nat
    /\ owner.pc = "turn" => owner.due = None
    /\ owner.pc = "publish" => owner.due # None

-----------------------------------------------------------------------------
(* The invariant.                                                            *)

\* The boundary of the refill the owner took last, told or not.
Told == IF owner.due = None THEN ack ELSE owner.due

\* The epochs run on from the one published, over the one taken and not told, to
\* the one asked for last.
Counted(r) ==
    \E m \in 0 .. Requests :
        /\ m = 0 <=> owner.due = None
        /\ owner.due # None => owner.due.epoch = (ack.epoch + m) % Epochs
        /\ r.epoch = (ack.epoch + (m + Len(r.inbox))) % Epochs

\* A reader between two of its steps, whatever its ring holds.
Formed(r) ==
    /\ r \in Reader
    /\ Len(r.ring) <= Ring /\ Len(r.inbox) <= Requests
    /\ r.outgoing # None => r.outgoing.at <= Len(r.outgoing.next)
    /\ r.pending # None => r.head = None
    /\ r.inbox # <<>> => r.inbox[Len(r.inbox)].epoch = r.epoch
    /\ Counted(r)

\* From its place k + 1 on, s reads from frame on.
ReadsOn(s, k, wrap, frame) ==
    \A i \in 1 .. Len(s) - k : s[k + i] = Advance(wrap, frame, i - 1)

\* The request last in its ring is the refill waited for.
Asking(r) ==
    r.pending # None /\ r.inbox # <<>> =>
        LET q == r.inbox[Len(r.inbox)]
        IN  q.frame = r.pending /\ q.wrap = r.wrap

\* The owner renders the refill waited for: it is all that was pushed since the
\* boundary, and the owner is at its end.
Served(r) ==
    r.pending # None /\ r.inbox = <<>> =>
        /\ owner.wrap = r.wrap /\ Told.since <= Len(r.ring)
        /\ ReadsOn(r.ring, Len(r.ring) - Told.since, r.wrap, r.pending)
        /\ owner.next = Advance(r.wrap, r.pending, Told.since)

\* The refill landed: the ring reads from the head, and the owner is at its end.
Reading(r) ==
    r.pending = None /\ r.head # None =>
        /\ r.inbox = <<>> /\ owner.due = None /\ owner.wrap = r.wrap
        /\ ReadsOn(r.ring, 0, r.wrap, r.head)
        /\ owner.next = Advance(r.wrap, r.head, Len(r.ring))

Sound(r) == Formed(r) /\ (~r.refused => Asking(r) /\ Served(r) /\ Reading(r))

StreamInv == TransportTypes /\ SideTypes /\ Sound(rd)

-----------------------------------------------------------------------------
(* Remainders, and the frames of a loop.                                     *)

LEMMA Division ==
    ASSUME NEW N \in Int, N > 0, NEW p \in Int
    PROVE  /\ p \div N \in Int /\ p % N \in 0 .. N - 1
           /\ p = (p \div N) * N + (p % N)
<1>1. p = (p \div N) * N + (p % N)
    BY SMTT(60)
<1> QED BY <1>1

LEMMA Remainder ==
    ASSUME NEW N \in Int, N > 0, NEW k \in Int, NEW r \in 0 .. N - 1
    PROVE  (k * N + r) % N = r
BY SMTT(60)

\* A turn of the divisor more in a summand goes unseen.
LEMMA SumOfRemainder ==
    ASSUME NEW N \in Int, N > 0, NEW x \in Int, NEW y \in Int
    PROVE  ((x % N) + y) % N = (x + y) % N
<1>1. PICK j \in Int, q \in 0 .. N - 1 : q = x % N /\ x = j * N + q
    BY Division
<1>2. PICK i \in Int, r \in 0 .. N - 1 : r = (q + y) % N /\ q + y = i * N + r
    <2>1. q + y \in Int
        BY <1>1
    <2> QED BY <2>1, Division, ZenonT(30)
<1>3. x + y = (j + i) * N + r /\ j + i \in Int
    BY <1>1, <1>2
<1>4. ((j + i) * N + r) % N = r
    BY <1>3, Remainder
<1> QED BY <1>1, <1>2, <1>3, <1>4

LEMMA SmallRemainder ==
    ASSUME NEW N \in Int, N > 0, NEW x \in 0 .. N - 1
    PROVE  x % N = x /\ (x + N) % N = x
<1>1. (0 * N + x) % N = x /\ (1 * N + x) % N = x
    BY Remainder
<1> QED BY <1>1

\* Far enough apart, two epochs are never taken for one.
LEMMA Apart ==
    ASSUME NEW a \in Epoch, NEW d \in 0 .. 2 * Requests, Requests \in Nat,
           Epochs \in Nat, Epochs > 2 * Requests + 1, (a + d) % Epochs = a
    PROVE  d = 0
<1>1. CASE a + d < Epochs
    BY <1>1, SmallRemainder DEF Epoch
<1>2. CASE a + d >= Epochs
    <2>1. a + d - Epochs \in 0 .. Epochs - 1
        BY <1>2 DEF Epoch
    <2>2. ((a + d - Epochs) + Epochs) % Epochs = a + d - Epochs
        BY <2>1, SmallRemainder
    <2>3. (a + d - Epochs) + Epochs = a + d
        BY DEF Epoch
    <2> QED BY <2>2, <2>3 DEF Epoch
<1> QED BY <1>1, <1>2 DEF Epoch

LEMMA SizesAre ==
    /\ Frames \in Nat /\ Ring \in Nat /\ Kept \in Nat /\ Requests \in Nat /\ Block \in Nat
    /\ Cross \in Nat /\ LandLead \in Nat /\ CueLead \in Nat
    /\ FirstChunk \in Nat /\ Chunk \in Nat /\ Frames > 0 /\ Block > 0
BY StreamAssumption

LEMMA EpochsAre == Epochs \in Nat /\ Epochs > 0
<1>1. Epochs \in Nat /\ Requests \in Nat /\ Epochs > 2 * Requests + 1
    BY StreamAssumption
<1> QED BY <1>1

LEMMA LoopsAre ==
    ASSUME NEW wrap \in Loops
    PROVE  /\ wrap.from \in Nat /\ wrap.to \in Nat /\ wrap.from < wrap.to
           /\ wrap # None
BY StreamAssumption

\* A frame's advance is a frame, by nothing is itself, and in two parts is in one.
LEMMA AdvanceIs ==
    ASSUME NEW wrap \in Maybe(Loops), NEW f \in Nat, NEW a \in Nat
    PROVE  Advance(wrap, f, a) \in Nat /\ Advance(wrap, f, 0) = f
<1>1. CASE wrap \in Loops
    <2> DEFINE N == wrap.to - wrap.from
    <2>1. N \in Int /\ N > 0 /\ wrap.from \in Nat /\ wrap.to \in Nat
        BY <1>1, LoopsAre
    <2>2. (f + a - wrap.to) % N \in 0 .. N - 1
        BY <2>1, Division
    <2> QED BY <2>1, <2>2 DEF Advance
<1>2. CASE wrap = None
    BY <1>2 DEF Advance
<1> QED BY <1>1, <1>2 DEF Maybe

LEMMA AdvanceSum ==
    ASSUME NEW wrap \in Maybe(Loops),
           NEW f \in Nat, NEW a \in Nat, NEW b \in Nat
    PROVE  Advance(wrap, Advance(wrap, f, a), b) = Advance(wrap, f, a + b)
<1>1. CASE wrap \in Loops
    <2>0. /\ wrap.from \in Nat /\ wrap.to \in Nat /\ wrap.from < wrap.to
          /\ wrap # None
        BY <1>1, LoopsAre
    <2>1. PICK N \in Int, x \in Int, y \in Int :
              N = wrap.to - wrap.from /\ x = f + a - wrap.to /\ y = x % N
        <3>1. /\ wrap.to - wrap.from \in Int /\ wrap.to - wrap.from > 0
              /\ f + a - wrap.to \in Int
            BY <2>0
        <3>2. (f + a - wrap.to) % (wrap.to - wrap.from) \in Int
            BY <3>1, Division
        <3> QED BY <3>1, <3>2
    <2>2. CASE f >= wrap.to
        BY <2>0, <2>2 DEF Advance
    <2>3. CASE f < wrap.to /\ f + a < wrap.to
        BY <2>0, <2>3 DEF Advance
    <2>4. CASE f < wrap.to /\ f + a >= wrap.to
        <3>1. N > 0 /\ y \in 0 .. N - 1
            BY <2>0, <2>1, Division
        <3>2. (y + b) % N = (x + b) % N
            <4>1. b \in Int
                OBVIOUS
            <4>2. ((x % N) + b) % N = (x + b) % N
                BY <3>1, <4>1, SumOfRemainder, Zenon
            <4> QED BY <2>1, <4>2
        <3>3. /\ Advance(wrap, f, a) = wrap.from + y
              /\ Advance(wrap, f, a + b) = wrap.from + ((x + b) % N)
            <4>1. f + (a + b) - wrap.to = x + b
                BY <2>0, <2>1
            <4> QED BY <2>0, <2>1, <2>4, <4>1 DEF Advance
        <3>4. CASE y + b < N
            <4>1. (y + b) % N = y + b
                <5>1. y + b \in 0 .. N - 1
                    BY <2>1, <3>1, <3>4
                <5> QED BY <2>1, <3>1, <5>1, SmallRemainder
            <4>2. Advance(wrap, wrap.from + y, b) = wrap.from + (y + b)
                BY <2>0, <2>1, <3>1, <3>4 DEF Advance
            <4> QED BY <3>2, <3>3, <4>1, <4>2
        <3>5. CASE y + b >= N
            <4>1. y + b \in Int /\ y + b - N \in Int /\ (wrap.from + y) + b - wrap.to = y + b - N
                BY <2>0, <2>1, <3>1
            <4>2. (y + b - N) % N = (y + b) % N
                <5>0. PICK z \in Int : z = y + b
                    BY <4>1
                <5>1. PICK j \in Int, r \in 0 .. N - 1 : r = (y + b) % N /\ y + b = j * N + r
                    <6>1. z % N \in 0 .. N - 1 /\ z \div N \in Int /\ z = (z \div N) * N + (z % N)
                        BY <3>1, Division, Zenon
                    <6> QED BY <5>0, <6>1
                <5>2. y + b - N = (j - 1) * N + r /\ j - 1 \in Int
                    <6>1. j - 1 \in Int /\ (j - 1) * N = j * N - N /\ j * N \in Int
                        OBVIOUS
                    <6> QED BY <4>1, <5>1, <6>1
                <5>3. ((j - 1) * N + r) % N = r
                    BY <2>1, <3>1, <5>1, <5>2, Remainder
                <5> QED BY <5>1, <5>2, <5>3
            <4>3. Advance(wrap, wrap.from + y, b) = wrap.from + ((y + b - N) % N)
                BY <2>0, <2>1, <3>1, <3>5, <4>1 DEF Advance
            <4> QED BY <3>2, <3>3, <4>2, <4>3
        <3> QED BY <2>1, <3>1, <3>4, <3>5
    <2> QED BY <2>0, <2>2, <2>3, <2>4
<1>2. CASE wrap = None
    BY <1>2 DEF Advance
<1> QED BY <1>1, <1>2 DEF Maybe

-----------------------------------------------------------------------------
(* What a ring reads when it is added to, or its front is taken off.         *)

\* A stretch rendered at the end of what reads on reads on with it.
LEMMA RendersOn ==
    ASSUME NEW wrap \in Maybe(Loops), NEW f \in Nat,
           NEW s \in Seq(Nat), NEW c \in Seq(Nat), NEW k \in 0 .. Len(s),
           ReadsOn(s, k, wrap, f), ReadsOn(c, 0, wrap, Advance(wrap, f, Len(s) - k))
    PROVE  ReadsOn(s \o c, k, wrap, f)
<1> DEFINE t == s \o c
           L == Len(s)
           n == Len(c)
           g == Advance(wrap, f, L - k)
<1>1. /\ L \in Nat /\ n \in Nat /\ Len(t) = L + n
      /\ k \in Nat /\ k <= L /\ L - k \in Nat
    BY ConcatProperties
<1>2. \A i \in 1 .. L + n : t[i] = IF i <= L THEN s[i] ELSE c[i - L]
    BY ConcatProperties, Zenon
<1>3. /\ \A i \in 1 .. L - k : s[k + i] = Advance(wrap, f, i - 1)
      /\ \A i \in 1 .. n : c[i] = Advance(wrap, g, i - 1)
    <2>1. \A i \in 1 .. n - 0 : c[0 + i] = Advance(wrap, g, i - 1)
        BY DEF ReadsOn
    <2>2. \A i \in 1 .. L - k : s[k + i] = Advance(wrap, f, i - 1)
        BY DEF ReadsOn
    <2> HIDE DEF t, L, n, g
    <2>3. n - 0 = n /\ \A i \in 1 .. n : 0 + i = i
        BY <1>1
    <2> QED BY <2>1, <2>2, <2>3
<1>4. \A j \in Nat : Advance(wrap, g, j) = Advance(wrap, f, (L - k) + j)
    BY <1>1, AdvanceSum
<1> HIDE DEF t, L, n, g
<1>5. ASSUME NEW i \in 1 .. (L + n) - k PROVE t[k + i] = Advance(wrap, f, i - 1)
    <2>1. CASE k + i <= L
        BY <1>1, <1>2, <1>3, <1>5, <2>1, SMTT(30)
    <2>2. CASE k + i > L
        <3>1. PICK j \in 1 .. n : j = k + i - L
            BY <1>1, <1>5, <2>2
        <3>2. t[k + i] = c[j]
            BY <1>1, <1>2, <1>5, <2>2, <3>1
        <3>3. j - 1 \in Nat /\ (L - k) + (j - 1) = i - 1
            BY <1>1, <1>5, <3>1
        <3>4. c[j] = Advance(wrap, f, i - 1)
            BY <1>3, <1>4, <3>1, <3>3
        <3> QED BY <3>2, <3>4
    <2> QED BY <1>1, <1>5, <2>1, <2>2
<1> QED BY <1>1, <1>5 DEF ReadsOn, t

\* What is left of a ring with its first k samples gone.
LEMMA Remains ==
    ASSUME NEW s \in Seq(Nat), NEW k \in 0 .. Len(s)
    PROVE  LET t == SubSeq(s, k + 1, Len(s))
           IN  /\ t \in Seq(Nat) /\ Len(t) = Len(s) - k
               /\ \A i \in 1 .. Len(s) - k : t[i] = s[k + i]
<1> DEFINE t == SubSeq(s, k + 1, Len(s))
<1>1. t = [i \in 1 .. Len(s) - k |-> s[k + i]]
    OBVIOUS
<1>2. \A i \in 1 .. Len(s) - k : s[k + i] \in Nat
    OBVIOUS
<1>3. Len(s) - k \in Nat
    OBVIOUS
<1> HIDE DEF t
<1>4. t \in [1 .. Len(s) - k -> Nat]
    BY <1>1, <1>2
<1> QED BY <1>1, <1>3, <1>4 DEF t

LEMMA ReadsFrom ==
    ASSUME NEW wrap \in Maybe(Loops), NEW f \in Nat,
           NEW s \in Seq(Nat), NEW k \in 0 .. Len(s)
    PROVE  LET t == SubSeq(s, k + 1, Len(s))
           IN  /\ ReadsOn(s, k, wrap, f) => ReadsOn(t, 0, wrap, f)
               /\ ReadsOn(s, 0, wrap, f) => ReadsOn(t, 0, wrap, Advance(wrap, f, k))
<1> DEFINE t == SubSeq(s, k + 1, Len(s))
           L == Len(s)
<1>1. /\ L \in Nat /\ k \in Nat /\ k <= L /\ Len(t) = L - k
      /\ \A i \in 1 .. L - k : t[i] = s[k + i]
    BY Remains
<1> HIDE DEF t, L
<1>2. ASSUME ReadsOn(s, k, wrap, f) PROVE ReadsOn(t, 0, wrap, f)
    <2>1. \A i \in 1 .. L - k : s[k + i] = Advance(wrap, f, i - 1)
        BY <1>2 DEF ReadsOn, L
    <2> QED BY <1>1, <2>1 DEF ReadsOn
<1>3. ASSUME ReadsOn(s, 0, wrap, f) PROVE ReadsOn(t, 0, wrap, Advance(wrap, f, k))
    <2>1. \A i \in 1 .. L : s[i] = Advance(wrap, f, i - 1)
        BY <1>1, <1>3 DEF ReadsOn, L
    <2>2. ASSUME NEW i \in 1 .. L - k PROVE t[i] = Advance(wrap, Advance(wrap, f, k), i - 1)
        <3>1. i - 1 \in Nat /\ k + (i - 1) = (k + i) - 1 /\ k + i \in 1 .. L
            BY <1>1, <2>2
        <3>2. Advance(wrap, Advance(wrap, f, k), i - 1) = Advance(wrap, f, k + (i - 1))
            BY <1>1, <3>1, AdvanceSum
        <3> QED BY <1>1, <2>1, <2>2, <3>1, <3>2
    <2> QED BY <1>1, <2>2 DEF ReadsOn
<1> QED BY <1>2, <1>3 DEF t

-----------------------------------------------------------------------------
(* The reader's steps.                                                       *)

\* What the invariant says of a reader is about these fields alone.
LEMMA SameFormed ==
    ASSUME NEW r, Formed(r), NEW s \in Reader,
           s.outgoing # None => s.outgoing.at <= Len(s.outgoing.next),
           s.ring = r.ring, s.inbox = r.inbox, s.epoch = r.epoch,
           s.pending = r.pending, s.head = r.head
    PROVE  Formed(s)
BY DEF Formed, Counted

LEMMA SameSound ==
    ASSUME NEW r, Sound(r), NEW s \in Reader,
           s.outgoing # None => s.outgoing.at <= Len(s.outgoing.next),
           s.ring = r.ring, s.inbox = r.inbox, s.epoch = r.epoch,
           s.pending = r.pending, s.head = r.head,
           s.wrap = r.wrap, s.refused = r.refused
    PROVE  Sound(s)
<1>1. Formed(s)
    BY SameFormed DEF Sound
<1>2. /\ Asking(r) <=> Asking(s)
      /\ Served(r) <=> Served(s)
      /\ Reading(r) <=> Reading(s)
    BY DEF Asking, Served, Reading
<1> QED BY <1>1, <1>2 DEF Sound

\* Refused by the full request ring, a reader answers for nothing it holds.
LEMMA RefusedSound ==
    ASSUME NEW r, Formed(r)
    PROVE  Sound([r EXCEPT !.refused = TRUE])
<1> DEFINE s == [r EXCEPT !.refused = TRUE]
<1>1. /\ s \in Reader /\ s.refused /\ s.outgoing = r.outgoing
      /\ s.ring = r.ring /\ s.inbox = r.inbox /\ s.epoch = r.epoch
      /\ s.pending = r.pending /\ s.head = r.head
    BY DEF Formed, Reader
<1> HIDE DEF s
<1>2. Formed(s)
    BY <1>1, SameFormed DEF Formed
<1> QED BY <1>1, <1>2 DEF Sound, s

\* A refill asked for: whatever the reader held, it now waits for that one.
LEMMA RefillSound ==
    ASSUME SideTypes, NEW r, Formed(r), NEW frame \in Nat
    PROVE  /\ Sound(Refill(r, frame))
           /\ Refill(r, frame).outgoing = r.outgoing
<1>1. CASE ~CanAsk(r)
    <2>1. Refill(r, frame) = [r EXCEPT !.refused = TRUE]
        BY <1>1 DEF Refill
    <2>2. Refill(r, frame).outgoing = r.outgoing
        BY <2>1 DEF Formed, Reader
    <2> QED BY <2>1, <2>2, RefusedSound
<1>2. CASE CanAsk(r)
    <2> DEFINE e == (r.epoch + 1) % Epochs
               q == [frame |-> frame, epoch |-> e, wrap |-> r.wrap]
               s == Refill(r, frame)
               n == Len(r.inbox)
    <2>1. r \in Reader
        BY DEF Formed
    <2>2. e \in Epoch /\ r.epoch \in Int /\ Epochs \in Int /\ Epochs > 0
        <3>1. Epochs \in Int /\ Epochs > 0 /\ r.epoch \in Epoch /\ r.epoch + 1 \in Int
            BY <2>1, StreamAssumption, SMTT(30) DEF Reader, Epoch
        <3> QED BY <3>1, Division DEF Epoch
    <2>3. q \in Request /\ q.frame = frame /\ q.wrap = r.wrap /\ q.epoch = e
        BY <2>1, <2>2 DEF Request, Reader
    <2>4. s = [r EXCEPT !.inbox = Append(@, q), !.epoch = e, !.pending = frame,
                        !.head = None, !.refused = FALSE]
        BY <1>2 DEF Refill
    <2> HIDE DEF e, q, s
    <2>5. /\ Append(r.inbox, q) \in Seq(Request) /\ n \in Nat
          /\ Len(Append(r.inbox, q)) = n + 1 /\ Append(r.inbox, q)[n + 1] = q
        BY <2>1, <2>3 DEF Reader
    <2>6. /\ s \in Reader /\ s.ring = r.ring /\ s.inbox = Append(r.inbox, q)
          /\ s.epoch = e /\ s.pending = frame /\ s.head = None /\ s.refused = FALSE
          /\ s.outgoing = r.outgoing /\ s.wrap = r.wrap
        BY <2>1, <2>2, <2>4, <2>5 DEF Reader, Maybe
    <2>7. Len(s.inbox) = n + 1 /\ s.inbox[Len(s.inbox)] = q /\ s.inbox # <<>>
        <3>1. Len(s.inbox) = n + 1 /\ s.inbox[Len(s.inbox)] = q
            BY <2>5, <2>6
        <3>2. Len(<<>>) = 0 /\ n + 1 # 0
            BY <2>5
        <3> QED BY <3>1, <3>2
    <2>8. n + 1 <= Requests
        BY <1>2, <2>5, StreamAssumption, SMTT(30) DEF CanAsk
    <2>9. Counted(s)
        <3>1. PICK m \in 0 .. Requests :
                  /\ m = 0 <=> owner.due = None
                  /\ owner.due # None => owner.due.epoch = (ack.epoch + m) % Epochs
                  /\ r.epoch = (ack.epoch + (m + n)) % Epochs
            BY DEF Formed, Counted
        <3>2. ack.epoch + (m + n) \in Int /\ (ack.epoch + (m + n)) + 1 = ack.epoch + (m + (n + 1))
            BY <2>5, <3>1 DEF SideTypes, Boundary, Epoch
        <3>3. (((ack.epoch + (m + n)) % Epochs) + 1) % Epochs = ((ack.epoch + (m + n)) + 1) % Epochs
            <4>1. 1 \in Int
                OBVIOUS
            <4> QED BY <2>2, <3>2, <4>1, SumOfRemainder, Zenon
        <3>4. e = (ack.epoch + (m + (n + 1))) % Epochs
            BY <3>1, <3>2, <3>3 DEF e
        <3> QED BY <2>6, <2>7, <3>1, <3>4 DEF Counted
    <2>10. Formed(s)
        BY <2>3, <2>6, <2>7, <2>8, <2>9 DEF Formed
    <2>11. Asking(s) /\ Served(s) /\ Reading(s)
        <3>1. frame # None
            BY StreamAssumption
        <3> QED BY <2>3, <2>6, <2>7, <3>1 DEF Asking, Served, Reading
    <2> QED BY <2>6, <2>10, <2>11 DEF Sound, s
<1> QED BY <1>1, <1>2

\* Less and AtMost of naturals.
LEMMA LessIs ==
    ASSUME NEW a \in Nat, NEW b \in Nat
    PROVE  /\ Less(a, b) \in 0 .. a /\ (b <= a => Less(a, b) = a - b)
           /\ AtMost(a, b) \in Nat /\ AtMost(a, b) <= a /\ AtMost(a, b) <= b
BY DEF Less, AtMost

\* A ring that begins later.
LEMMA RingFormed ==
    ASSUME NEW r, Formed(r), NEW ring \in Seq(Nat), Len(ring) <= Ring
    PROVE  Formed([r EXCEPT !.ring = ring])
<1> DEFINE s == [r EXCEPT !.ring = ring]
<1>1. /\ s \in Reader /\ s.ring = ring /\ s.outgoing = r.outgoing
      /\ s.inbox = r.inbox /\ s.epoch = r.epoch /\ s.pending = r.pending /\ s.head = r.head
    BY DEF Formed, Reader
<1> HIDE DEF s
<1>2. Counted(s) <=> Counted(r)
    BY <1>1 DEF Counted
<1>3. Formed(s)
    BY <1>1, <1>2 DEF Formed
<1> QED BY <1>3 DEF s

\* The refill told is the one waited for only when none is asked for after it.
LEMMA ToldLast ==
    ASSUME SideTypes, NEW r, Formed(r), ack.epoch = r.epoch
    PROVE  owner.due = None /\ r.inbox = <<>>
<1> DEFINE n == Len(r.inbox)
<1>1. n \in Nat /\ n <= Requests /\ (n = 0 => r.inbox = <<>>)
    BY EmptySeq DEF Formed, Reader
<1>2. Requests \in Nat /\ Epochs \in Nat /\ Epochs > 2 * Requests + 1
    BY StreamAssumption
<1>3. PICK m \in 0 .. Requests :
          /\ m = 0 <=> owner.due = None
          /\ r.epoch = (ack.epoch + (m + n)) % Epochs
    BY DEF Formed, Counted
<1>4. m + n \in 0 .. 2 * Requests /\ ack.epoch \in Epoch
    BY <1>1, <1>2 DEF SideTypes, Boundary
<1>5. m + n = 0
    BY <1>2, <1>3, <1>4, Apart
<1> QED BY <1>1, <1>3, <1>5

\* The refill lands: the ring is what was pushed since the boundary.
LEMMA CollectSound ==
    ASSUME SideTypes, NEW r, Sound(r)
    PROVE  Sound(Collect(r))
<1>1. CASE r.pending = None \/ ack.epoch # r.epoch
    BY <1>1 DEF Collect
<1>2. CASE r.pending # None /\ ack.epoch = r.epoch
    <2> DEFINE k == Less(Len(r.ring), ack.since)
               left == SubSeq(r.ring, k + 1, Len(r.ring))
               s == [r EXCEPT !.ring = left, !.pending = None, !.head = r.pending]
               t == [r EXCEPT !.ring = left]
    <2>1. owner.due = None /\ r.inbox = <<>>
        BY <1>2, ToldLast DEF Sound
    <2>2. /\ r \in Reader /\ r.ring \in Seq(Nat) /\ r.pending \in Nat /\ Len(r.ring) \in Nat
          /\ Len(r.ring) <= Ring /\ ack.since \in Nat /\ r.wrap \in Maybe(Loops)
        BY <1>2 DEF Sound, Formed, Reader, Maybe, SideTypes, Boundary
    <2>3. /\ k \in 0 .. Len(r.ring)
          /\ (ack.since <= Len(r.ring) => k = Len(r.ring) - ack.since)
        BY <2>2, LessIs
    <2> HIDE DEF k
    <2>4. left \in Seq(Nat) /\ Len(left) = Len(r.ring) - k
        BY <2>2, <2>3, Remains
    <2>5. s = Collect(r)
        <3>1. 1 + k = k + 1
            BY <2>3
        <3> QED BY <1>2, <3>1 DEF Collect, k
    <2> HIDE DEF left
    <2>6. Formed(t)
        <3>1. Len(left) <= Ring
            BY <2>2, <2>3, <2>4, SizesAre
        <3> QED BY <2>4, <3>1, RingFormed DEF Sound
    <2>7. /\ s \in Reader /\ s.ring = left /\ s.inbox = r.inbox /\ s.epoch = r.epoch
          /\ s.pending = None /\ s.head = r.pending /\ s.wrap = r.wrap
          /\ s.refused = r.refused /\ s.outgoing = r.outgoing
        BY <2>2, <2>4 DEF Reader, Maybe
    <2>8. t.ring = left /\ t.inbox = r.inbox /\ t.epoch = r.epoch /\ t.outgoing = r.outgoing
        BY <2>2 DEF Reader
    <2> HIDE DEF s, t
    <2>9. Formed(s)
        <3>1. Counted(t) <=> Counted(s)
            BY <2>7, <2>8 DEF Counted
        <3> QED BY <2>6, <2>7, <2>8, <3>1 DEF Formed
    <2>10. ASSUME ~s.refused PROVE Asking(s) /\ Served(s) /\ Reading(s)
        <3>1. /\ owner.wrap = r.wrap /\ ack.since <= Len(r.ring)
              /\ ReadsOn(r.ring, Len(r.ring) - ack.since, r.wrap, r.pending)
              /\ owner.next = Advance(r.wrap, r.pending, ack.since)
            BY <1>2, <2>1, <2>7, <2>10 DEF Sound, Served, Told
        <3>2. ReadsOn(r.ring, k, r.wrap, r.pending) /\ Len(left) = ack.since
            BY <2>2, <2>3, <2>4, <3>1
        <3>3. ReadsOn(left, 0, r.wrap, r.pending)
            BY <2>2, <2>3, <3>2, ReadsFrom DEF left
        <3> QED BY <2>1, <2>7, <3>1, <3>2, <3>3 DEF Asking, Served, Reading
    <2> QED BY <2>5, <2>9, <2>10 DEF Sound
<1> QED BY <1>1, <1>2

\* Frames at the head thrown away.
LEMMA SkipFormed ==
    ASSUME NEW r, Formed(r), NEW n \in Nat
    PROVE  /\ Formed(Skip(r, n))
           /\ LET s == Skip(r, n)
              IN  /\ s.outgoing = r.outgoing /\ s.pending = r.pending /\ s.wrap = r.wrap
                  /\ s.refused = r.refused
           /\ Sound(r) /\ r.head # None => Sound(Skip(r, n))
<1> DEFINE k == AtMost(n, Len(r.ring))
           left == SubSeq(r.ring, k + 1, Len(r.ring))
           head == IF r.head = None THEN None ELSE Advance(r.wrap, r.head, k)
           s == Skip(r, n)
           t == [r EXCEPT !.ring = left]
<1>1. /\ r \in Reader /\ r.ring \in Seq(Nat) /\ Len(r.ring) \in Nat
      /\ Len(r.ring) <= Ring /\ r.wrap \in Maybe(Loops) /\ r.head \in Maybe(Nat)
    BY DEF Formed, Reader
<1>2. k \in 0 .. Len(r.ring)
    BY <1>1 DEF AtMost
<1>3. s = [r EXCEPT !.ring = left, !.head = head]
    BY DEF Skip
<1> HIDE DEF k, s
<1>4. left \in Seq(Nat) /\ Len(left) = Len(r.ring) - k
    BY <1>1, <1>2, Remains
<1>5. head \in Maybe(Nat) /\ (r.head = None => head = None)
    <2>1. ASSUME r.head # None PROVE Advance(r.wrap, r.head, k) \in Nat
        <3>1. r.head \in Nat /\ k \in Nat
            BY <1>1, <1>2, <2>1 DEF Maybe
        <3> QED BY <1>1, <3>1, AdvanceIs
    <2> QED BY <2>1 DEF Maybe
<1> HIDE DEF left, head
<1>6. /\ s \in Reader /\ s.ring = left /\ s.inbox = r.inbox /\ s.epoch = r.epoch
      /\ s.pending = r.pending /\ s.head = head /\ s.wrap = r.wrap
      /\ s.refused = r.refused /\ s.outgoing = r.outgoing
    BY <1>1, <1>3, <1>4, <1>5 DEF Reader
<1>7. Len(left) <= Ring
    BY <1>1, <1>2, <1>4, SizesAre
<1>8. Formed(s)
    <2>1. Counted(r) <=> Counted(s)
        BY <1>6 DEF Counted
    <2> QED BY <1>5, <1>6, <1>7, <2>1 DEF Formed
<1>9. ASSUME Sound(r), r.head # None PROVE Sound(s)
    <2>1. r.pending = None /\ r.head \in Nat
        BY <1>1, <1>9 DEF Formed, Maybe
    <2>2. Asking(s) /\ Served(s)
        BY <1>6, <2>1 DEF Asking, Served
    <2>3. ASSUME ~r.refused PROVE Reading(s)
        <3>1. /\ r.inbox = <<>> /\ owner.due = None /\ owner.wrap = r.wrap
              /\ ReadsOn(r.ring, 0, r.wrap, r.head)
              /\ owner.next = Advance(r.wrap, r.head, Len(r.ring))
            BY <1>9, <2>1, <2>3 DEF Sound, Reading
        <3>2. ReadsOn(left, 0, r.wrap, head)
            BY <1>1, <1>2, <1>9, <2>1, <3>1, ReadsFrom DEF left, head
        <3>3. Advance(r.wrap, head, Len(left)) = Advance(r.wrap, r.head, Len(r.ring))
            <4>1. k \in Nat /\ Len(left) \in Nat /\ k + Len(left) = Len(r.ring)
                BY <1>1, <1>2, <1>4
            <4>2. head = Advance(r.wrap, r.head, k)
                BY <1>9 DEF head
            <4>3. \A a, b \in Nat : Advance(r.wrap, Advance(r.wrap, r.head, a), b)
                                     = Advance(r.wrap, r.head, a + b)
                BY <1>1, <2>1, AdvanceSum
            <4> QED BY <4>1, <4>2, <4>3
        <3> QED BY <1>6, <3>1, <3>2, <3>3 DEF Reading
    <2> QED BY <1>6, <1>8, <2>2, <2>3 DEF Sound
<1> QED BY <1>6, <1>8, <1>9 DEF s

\* How far two readings from a frame agree, when they part at all.
LEMMA AgreeIs ==
    ASSUME NEW old \in Maybe(Loops), NEW new \in Maybe(Loops), NEW frame \in Nat
    PROVE  Agree(old, new, frame) \in Maybe(Nat)
<1>1. ASSUME NEW w \in Maybe(Loops) PROVE Before(w, frame) \in Maybe(Nat)
    <2>1. CASE w \in Loops
        BY <2>1, LoopsAre DEF Before, Maybe
    <2>2. CASE w = None
        BY <2>2 DEF Before, Maybe
    <2> QED BY <1>1, <2>1, <2>2 DEF Maybe
<1>2. Before(old, frame) \in Maybe(Nat) /\ Before(new, frame) \in Maybe(Nat)
    BY <1>1
<1> QED BY <1>2 DEF Agree, AtMost, Maybe

\* What is left of a sequence, and what it begins with.
LEMMA Begins ==
    ASSUME NEW s \in Seq(Nat), NEW n \in 0 .. Len(s)
    PROVE  SubSeq(s, 1, n) \in Seq(Nat) /\ Len(SubSeq(s, 1, n)) = n
<1>1. SubSeq(s, 1, n) = [i \in 1 .. n |-> s[i]]
    OBVIOUS
<1>2. n \in Nat /\ \A i \in 1 .. n : s[i] \in Nat
    OBVIOUS
<1>3. [i \in 1 .. n |-> s[i]] \in [1 .. n -> Nat]
    BY <1>2
<1> QED BY <1>1, <1>2, <1>3

LEMMA DiscardFormed ==
    ASSUME NEW r, Formed(r)
    PROVE  /\ Formed(Discard(r))
           /\ LET s == Discard(r)
              IN  s.outgoing = r.outgoing /\ s.wrap = r.wrap /\ s.inbox = r.inbox
<1>1. <<>> \in Seq(Nat) /\ Len(<<>>) <= Ring
    BY SizesAre
<1>2. Formed(Discard(r))
    BY <1>1, RingFormed DEF Discard
<1> QED BY <1>2 DEF Discard, Formed, Reader

\* The kept frames set, and nothing else that is told of.
LEMMA KeptFormed ==
    ASSUME NEW r, Formed(r), NEW o \in KeptFrames, o.at <= Len(o.next)
    PROVE  /\ Formed([r EXCEPT !.outgoing = o])
           /\ Sound(r) => Sound([r EXCEPT !.outgoing = o])
           /\ [r EXCEPT !.outgoing = o].outgoing = o
<1> DEFINE s == [r EXCEPT !.outgoing = o]
<1>1. /\ s \in Reader /\ s.outgoing = o
      /\ s.ring = r.ring /\ s.inbox = r.inbox /\ s.epoch = r.epoch
      /\ s.pending = r.pending /\ s.head = r.head
      /\ s.wrap = r.wrap /\ s.refused = r.refused
    BY DEF Formed, Reader, Maybe
<1> HIDE DEF s
<1>2. Formed(s)
    BY <1>1, SameFormed
<1>3. Sound(r) => Sound(s)
    BY <1>1, SameSound
<1> QED BY <1>1, <1>2, <1>3 DEF s

\* The kept frames dropped.
LEMMA DropsKept ==
    ASSUME NEW r, Sound(r)
    PROVE  Sound([r EXCEPT !.outgoing = None])
<1> DEFINE s == [r EXCEPT !.outgoing = None]
<1>1. /\ s \in Reader /\ s.outgoing = None
      /\ s.ring = r.ring /\ s.inbox = r.inbox /\ s.epoch = r.epoch
      /\ s.pending = r.pending /\ s.head = r.head
      /\ s.wrap = r.wrap /\ s.refused = r.refused
    BY DEF Sound, Formed, Reader, Maybe
<1> HIDE DEF s
<1>2. Sound(s)
    BY <1>1, SameSound
<1> QED BY <1>2 DEF s

LEMMA KeepOutgoingFormed ==
    ASSUME NEW r, Formed(r), NEW frame \in Nat, NEW agree \in Maybe(Nat)
    PROVE  Formed(KeepOutgoing(r, frame, agree))
<1> DEFINE s == IF r.head # None /\ r.head < frame THEN Skip(r, frame - r.head) ELSE r
           n == AtMost(Len(s.ring), Kept)
           o == [next |-> SubSeq(s.ring, 1, n),
                 at |-> IF agree = None THEN n ELSE AtMost(agree, n),
                 splice |-> FALSE, wrap |-> s.wrap, frame |-> frame]
<1>1. Formed(s)
    <2>1. CASE r.head # None /\ r.head < frame
        <3>1. frame - r.head \in Nat
            BY <2>1 DEF Formed, Reader, Maybe
        <3> QED BY <2>1, <3>1, SkipFormed
    <2> QED BY <2>1
<1> HIDE DEF s
<1>2. s.ring \in Seq(Nat) /\ s.wrap \in Maybe(Loops) /\ Len(s.ring) \in Nat
    BY <1>1 DEF Formed, Reader
<1>3. n \in 0 .. Len(s.ring)
    BY <1>2, SizesAre DEF AtMost
<1> HIDE DEF n
<1>4. o \in KeptFrames /\ o.at <= Len(o.next)
    <2>1. SubSeq(s.ring, 1, n) \in Seq(Nat) /\ Len(SubSeq(s.ring, 1, n)) = n
        BY <1>2, <1>3, Begins
    <2>2. /\ (IF agree = None THEN n ELSE AtMost(agree, n)) \in Nat
          /\ (IF agree = None THEN n ELSE AtMost(agree, n)) <= n
        BY <1>2, <1>3 DEF Maybe, AtMost
    <2> QED BY <1>2, <2>1, <2>2 DEF KeptFrames
<1> HIDE DEF o
<1>5. Formed([s EXCEPT !.outgoing = o])
    BY <1>1, <1>4, KeptFormed
<1>6. KeepOutgoing(r, frame, agree) = Discard(IF n = 0 THEN s ELSE [s EXCEPT !.outgoing = o])
    BY DEF KeepOutgoing, s, n, o
<1> QED BY <1>1, <1>5, <1>6, DiscardFormed

LEMMA KeepInForceFormed ==
    ASSUME NEW r, Formed(r), r.outgoing # None, NEW frame \in Nat
    PROVE  LET s == KeepInForce(r, frame)
           IN  /\ Formed(s) /\ s.outgoing \in KeptFrames
               /\ s.outgoing.at <= Len(s.outgoing.next)
<1> DEFINE o == r.outgoing
           spliced == Advance(r.wrap, frame, o.at)
           n == AtMost(Len(r.ring), Less(Kept, o.at))
           next == SubSeq(o.next, 1, o.at) \o SubSeq(r.ring, 1, n)
           left == SubSeq(r.ring, n + 1, Len(r.ring))
           head == Advance(r.wrap, spliced, n)
           kept == [next |-> next, at |-> Len(next), splice |-> TRUE,
                    wrap |-> r.wrap, frame |-> frame]
           t == [r EXCEPT !.ring = left]
           u == [r EXCEPT !.ring = left, !.head = head]
           s == [r EXCEPT !.ring = left, !.head = head, !.outgoing = kept]
<1>1. /\ r \in Reader /\ o \in KeptFrames /\ o.next \in Seq(Nat) /\ o.at \in 0 .. Len(o.next)
      /\ r.ring \in Seq(Nat) /\ Len(r.ring) \in Nat /\ Len(r.ring) <= Ring
      /\ r.wrap \in Maybe(Loops)
    <2>1. r \in Reader /\ o \in KeptFrames /\ o.at <= Len(o.next) /\ Len(r.ring) <= Ring
        BY DEF Formed, Reader, Maybe
    <2>2. o.next \in Seq(Nat) /\ o.at \in Nat /\ r.ring \in Seq(Nat) /\ r.wrap \in Maybe(Loops)
        BY <2>1 DEF Reader, KeptFrames
    <2> QED BY <2>1, <2>2
<1>2. CASE o.splice /\ o.frame = frame /\ r.applied = r.wrap /\ r.pending = None /\ r.head = spliced
    <2>1. n \in 0 .. Len(r.ring)
        BY <1>1, SizesAre DEF AtMost, Less
    <2>2. KeepInForce(r, frame) = s
        BY <1>2 DEF KeepInForce
    <2> HIDE DEF o, n, s
    <2>3. next \in Seq(Nat) /\ Len(next) \in Nat
        <3>1. SubSeq(o.next, 1, o.at) \in Seq(Nat)
            BY <1>1, Begins
        <3>2. SubSeq(r.ring, 1, n) \in Seq(Nat)
            BY <1>1, <2>1, Begins
        <3>3. next \in Seq(Nat)
            BY <3>1, <3>2, ConcatProperties, Zenon
        <3> QED BY <3>3
    <2> HIDE DEF next
    <2>4. kept \in KeptFrames /\ kept.at <= Len(kept.next)
        BY <1>1, <2>3 DEF KeptFrames
    <2> HIDE DEF kept
    <2>5. head \in Nat
        <3>1. o.at \in Nat /\ n \in Nat
            BY <1>1, <2>1
        <3>2. spliced \in Nat
            BY <1>1, <3>1, AdvanceIs
        <3> HIDE DEF spliced
        <3> QED BY <1>1, <3>1, <3>2, AdvanceIs
    <2> HIDE DEF head
    <2>6. left \in Seq(Nat) /\ Len(left) <= Ring
        <3>1. left \in Seq(Nat) /\ Len(left) = Len(r.ring) - n
            BY <1>1, <2>1, Remains
        <3> QED BY <1>1, <2>1, <3>1, SizesAre
    <2> HIDE DEF left
    <2>7. /\ s \in Reader /\ s.ring = left /\ s.inbox = r.inbox /\ s.epoch = r.epoch
          /\ s.pending = r.pending /\ s.outgoing = kept
        BY <1>1, <2>3, <2>4, <2>5, <2>6 DEF Reader, Maybe, s
    <2>8. Formed(s)
        <3>1. Counted(r) <=> Counted(s)
            BY <2>7 DEF Counted
        <3> QED BY <1>2, <2>4, <2>6, <2>7, <3>1 DEF Formed
    <2> QED BY <2>2, <2>4, <2>7, <2>8
<1>3. CASE ~(o.splice /\ o.frame = frame /\ r.applied = r.wrap /\ r.pending = None
             /\ r.head = spliced)
    BY <1>1, <1>3 DEF KeepInForce
<1> QED BY <1>2, <1>3

\* What a change does with the reading in hand.
LEMMA ReplaceFormed ==
    ASSUME NEW r, Formed(r), NEW frame \in Nat, NEW wrap \in Maybe(Loops),
           NEW rewrapped \in BOOLEAN, NEW playing \in BOOLEAN
    PROVE  LET p == Replace(r, frame, wrap, rewrapped, playing)
           IN  Formed(p.r) /\ p.from \in Nat
<1> DEFINE p == Replace(r, frame, wrap, rewrapped, playing)
           k == KeepOutgoing(r, frame, Agree(r.wrap, wrap, frame))
           inForce == IF rewrapped /\ KeptReads(r.outgoing, wrap) < LandLead
                      THEN KeepInForce(r, frame) ELSE r
           q == Discard(inForce)
           agree == Agree(q.outgoing.wrap, wrap, frame)
           left == IF agree = None THEN Len(q.outgoing.next)
                   ELSE AtMost(agree, Len(q.outgoing.next))
<1>1. Formed(k) /\ k \in Reader
    <2>1. Agree(r.wrap, wrap, frame) \in Maybe(Nat)
        BY AgreeIs DEF Formed, Reader
    <2>2. Formed(k)
        BY <2>1, KeepOutgoingFormed
    <2> QED BY <2>2 DEF Formed
<1>2. ASSUME r.outgoing # None
      PROVE  Formed(q) /\ q \in Reader /\ q.outgoing \in KeptFrames
             /\ q.outgoing.at \in Nat /\ Len(q.outgoing.next) \in Nat
             /\ q.outgoing.at <= Len(q.outgoing.next)
             /\ q.outgoing.wrap \in Maybe(Loops)
    <2>1. /\ Formed(inForce) /\ inForce.outgoing \in KeptFrames
          /\ inForce.outgoing.at <= Len(inForce.outgoing.next)
        BY <1>2, KeepInForceFormed, SMTT(30) DEF Formed, Reader, Maybe
    <2> HIDE DEF inForce
    <2>2. /\ Formed(q) /\ q.outgoing \in KeptFrames
          /\ q.outgoing.at <= Len(q.outgoing.next)
        BY <2>1, DiscardFormed
    <2> HIDE DEF q
    <2> QED BY <2>2 DEF Formed, KeptFrames
<1>3. CASE playing /\ rewrapped /\ k.outgoing # None
    <2> DEFINE o == [k.outgoing EXCEPT !.splice = TRUE]
    <2>1. p = [r |-> [k EXCEPT !.outgoing = o], from |-> Advance(wrap, frame, k.outgoing.at)]
        BY <1>3 DEF Replace
    <2> HIDE DEF k, p
    <2>2. k.outgoing \in KeptFrames /\ k.outgoing.at <= Len(k.outgoing.next)
        BY <1>1, <1>3 DEF Formed, Reader, Maybe
    <2>3. o \in KeptFrames /\ o.at <= Len(o.next) /\ k.outgoing.at \in Nat
        BY <2>2 DEF KeptFrames
    <2> HIDE DEF o
    <2>4. Formed([k EXCEPT !.outgoing = o]) /\ Advance(wrap, frame, k.outgoing.at) \in Nat
        BY <1>1, <2>3, KeptFormed, AdvanceIs
    <2> QED BY <2>1, <2>4 DEF p
<1>4. CASE playing /\ ~(rewrapped /\ k.outgoing # None)
    <2>1. p = [r |-> k, from |-> frame]
        BY <1>4 DEF Replace
    <2> QED BY <1>1, <2>1
<1>5. CASE ~playing /\ r.outgoing = None
    <2>1. p = [r |-> r, from |-> frame]
        BY <1>5 DEF Replace
    <2> QED BY <2>1
<1>6. CASE ~playing /\ r.outgoing # None /\ rewrapped /\ q.outgoing.splice
    <2> DEFINE o == [q.outgoing EXCEPT !.at = left]
    <2>1. p = [r |-> [q EXCEPT !.outgoing = o], from |-> Advance(wrap, frame, left)]
        BY <1>6 DEF Replace
    <2> HIDE DEF q, p
    <2>2. left \in Nat /\ left <= Len(q.outgoing.next)
        <3>1. agree \in Maybe(Nat)
            BY <1>2, <1>6, AgreeIs
        <3> HIDE DEF agree
        <3> QED BY <1>2, <1>6, <3>1 DEF AtMost, Maybe
    <2> HIDE DEF left
    <2>3. o \in KeptFrames /\ o.at <= Len(o.next)
        BY <1>2, <1>6, <2>2 DEF KeptFrames
    <2> HIDE DEF o
    <2>4. Formed([q EXCEPT !.outgoing = o]) /\ Advance(wrap, frame, left) \in Nat
        BY <1>2, <1>6, <2>2, <2>3, KeptFormed, AdvanceIs
    <2> QED BY <2>1, <2>4 DEF p
<1>7. CASE ~playing /\ r.outgoing # None /\ ~(rewrapped /\ q.outgoing.splice)
    <2> DEFINE o == [q.outgoing EXCEPT !.splice = FALSE]
    <2>1. p = [r |-> [q EXCEPT !.outgoing = o], from |-> frame]
        BY <1>7 DEF Replace
    <2> HIDE DEF q, p
    <2>2. o \in KeptFrames /\ o.at <= Len(o.next)
        BY <1>2, <1>7 DEF KeptFrames
    <2> HIDE DEF o
    <2>3. Formed([q EXCEPT !.outgoing = o])
        BY <1>2, <1>7, <2>2, KeptFormed
    <2> QED BY <2>1, <2>3 DEF p
<1> HIDE DEF p, k, q
<1> QED BY <1>3, <1>4, <1>5, <1>6, <1>7 DEF p

\* The change asked for: a refill, or none when the request ring is full.
LEMMA AskAnewSound ==
    ASSUME SideTypes, NEW r, Formed(r), NEW wrap \in Maybe(Loops), NEW from \in Nat
    PROVE  Sound(AskAnew(r, wrap, from))
<1>1. CASE CanAsk(r)
    <2> DEFINE t == [r EXCEPT !.wrap = wrap]
               u == Refill(t, from)
               s == [u EXCEPT !.sent = TRUE, !.gen = generation]
    <2>1. t \in Reader /\ t.outgoing = r.outgoing /\ t.ring = r.ring /\ t.inbox = r.inbox
          /\ t.epoch = r.epoch /\ t.pending = r.pending /\ t.head = r.head
        BY DEF Formed, Reader
    <2> HIDE DEF t
    <2>2. Formed(t)
        BY <2>1, SameFormed DEF Formed
    <2>3. Sound(u)
        BY <2>2, RefillSound
    <2> HIDE DEF u
    <2>4. /\ s \in Reader /\ s.outgoing = u.outgoing /\ s.ring = u.ring /\ s.inbox = u.inbox
          /\ s.epoch = u.epoch /\ s.pending = u.pending /\ s.head = u.head
          /\ s.wrap = u.wrap /\ s.refused = u.refused
          /\ (u.outgoing # None => u.outgoing.at <= Len(u.outgoing.next))
        BY <2>3 DEF Sound, Formed, Reader, SideTypes
    <2>5. AskAnew(r, wrap, from) = s
        BY <1>1 DEF AskAnew, t, u
    <2> HIDE DEF s
    <2> QED BY <2>3, <2>4, <2>5, SameSound
<1>2. CASE ~CanAsk(r)
    BY <1>2, RefusedSound DEF AskAnew
<1> QED BY <1>1, <1>2

\* A kept frame played.
LEMMA PlayKeptSound ==
    ASSUME NEW r, Sound(r), r.outgoing \in KeptFrames,
           r.outgoing.at <= Len(r.outgoing.next), r.outgoing.next # <<>>
    PROVE  Sound(PlayKept(r))
<1> DEFINE o == r.outgoing
           k == [o EXCEPT !.next = Tail(@), !.at = Less(@, 1), !.frame = Advance(o.wrap, @, 1)]
<1>1. /\ r \in Reader /\ o.next \in Seq(Nat) /\ o.at \in Nat /\ o.wrap \in Maybe(Loops)
      /\ o.frame \in Nat
    BY DEF Sound, Formed, KeptFrames
<1>2. Tail(o.next) \in Seq(Nat) /\ Len(Tail(o.next)) = Len(o.next) - 1
    BY <1>1
<1>3. Less(o.at, 1) \in Nat /\ Less(o.at, 1) <= Len(o.next) - 1
    <2>1. Len(o.next) \in Nat /\ Len(o.next) >= 1
        BY <1>1, EmptySeq
    <2> QED BY <1>1, <2>1 DEF Less
<1>4. Advance(o.wrap, o.frame, 1) \in Nat
    BY <1>1, AdvanceIs
<1>5. k \in KeptFrames /\ k.at <= Len(k.next)
    BY <1>1, <1>2, <1>3, <1>4 DEF KeptFrames
<1>6. PlayKept(r) = [r EXCEPT !.outgoing = k]
    BY <1>1 DEF PlayKept, Reader, KeptFrames
<1> HIDE DEF k
<1> QED BY <1>5, <1>6, KeptFormed DEF Sound

\* The kept frames play on past the splice: the old reading is asked for again.
LEMMA PlayOnSound ==
    ASSUME SideTypes, NEW r, Formed(r), r.outgoing \in KeptFrames, NEW frame \in Nat
    PROVE  LET s == PlayOn(r, frame)
           IN  /\ Sound(s) /\ s.outgoing \in KeptFrames
               /\ s.outgoing.next = r.outgoing.next
               /\ s.outgoing.at = Len(r.outgoing.next)
<1> DEFINE o == r.outgoing
           k == [o EXCEPT !.at = Len(o.next)]
           t == [Discard(r) EXCEPT !.wrap = o.wrap]
           u == [t EXCEPT !.outgoing = k]
           from == Advance(o.wrap, frame, Len(o.next))
<1>1. o \in KeptFrames /\ o.next \in Seq(Nat) /\ Len(o.next) \in Nat /\ o.wrap \in Maybe(Loops)
    BY DEF KeptFrames
<1>2. /\ k \in KeptFrames /\ k.at = Len(o.next) /\ k.next = o.next /\ from \in Nat
    BY <1>1, AdvanceIs DEF KeptFrames
<1>3. Formed(Discard(r)) /\ Discard(r).outgoing = o /\ Discard(r) \in Reader
    BY DiscardFormed DEF Formed
<1>4. Formed(t) /\ t \in Reader
    <2>1. /\ t \in Reader /\ t.outgoing = o /\ t.ring = Discard(r).ring
          /\ t.inbox = Discard(r).inbox /\ t.epoch = Discard(r).epoch
          /\ t.pending = Discard(r).pending /\ t.head = Discard(r).head
        BY <1>1, <1>3 DEF Reader
    <2> HIDE DEF t
    <2> QED BY <1>3, <2>1, SameFormed DEF Formed
<1>5. Formed(u) /\ u.outgoing = k
    <2> HIDE DEF t, k
    <2> QED BY <1>1, <1>2, <1>4, KeptFormed
<1>6. PlayOn(r, frame) = Refill(u, from)
    <2>1. u = [Discard(r) EXCEPT !.wrap = o.wrap, !.outgoing.at = Len(o.next)]
        BY <1>1, <1>3 DEF Reader, KeptFrames
    <2> QED BY <2>1 DEF PlayOn
<1> HIDE DEF u, from, k
<1>7. Sound(Refill(u, from)) /\ Refill(u, from).outgoing = k
    BY <1>2, <1>5, RefillSound
<1> QED BY <1>2, <1>6, <1>7

LEMMA TakeOutgoingSound ==
    ASSUME SideTypes, NEW r, Sound(r), r.outgoing # None, NEW frame \in Nat
    PROVE  Sound(TakeOutgoing(r, frame))
<1> DEFINE o == r.outgoing
           left == Len(o.next)
           holds == Len(r.ring)
           behind == IF r.head = None THEN 0 ELSE Less(frame, r.head)
           landed == /\ r.pending = None /\ r.head # None
                     /\ \/ holds >= behind + Cross + LandLead
                        \/ holds >= behind + Cross /\ left <= Cross
           atSplice == o.splice /\ o.at = 0
           playsOn == atSplice /\ r.applied # r.wrap /\ r.applied = o.wrap /\ left > 0
           s == IF playsOn THEN PlayOn(r, frame) ELSE r
           apart == o.frame # frame /\ s.outgoing.at > 0
           over == \/ apart
                   \/ atSplice /\ ~playsOn
                   \/ ~o.splice /\ (landed \/ left = 0)
<1>1. TakeOutgoing(r, frame) = IF over THEN [s EXCEPT !.outgoing = None] ELSE PlayKept(s)
    BY DEF TakeOutgoing
<1>2. o \in KeptFrames /\ o.at <= Len(o.next) /\ o.at \in Nat /\ left \in Nat
    <2>1. o \in KeptFrames /\ o.at <= Len(o.next)
        BY DEF Sound, Formed, Reader, Maybe
    <2> QED BY <2>1 DEF KeptFrames
<1>3. /\ Sound(s) /\ s.outgoing \in KeptFrames /\ s.outgoing.next = o.next
      /\ s.outgoing.at <= Len(s.outgoing.next)
    <2>1. CASE playsOn
        <3> DEFINE t == PlayOn(r, frame)
        <3>1. /\ Sound(t) /\ t.outgoing \in KeptFrames
              /\ t.outgoing.next = o.next /\ t.outgoing.at = left
            BY <1>2, PlayOnSound DEF Sound
        <3>2. s = t
            BY <2>1
        <3> HIDE DEF s, t
        <3> QED BY <1>2, <3>1, <3>2
    <2>2. CASE ~playsOn
        BY <1>2, <2>2
    <2> HIDE DEF playsOn, s
    <2> QED BY <2>1, <2>2
<1>4. ASSUME ~over PROVE o.next # <<>>
    <2>1. Len(<<>>) = 0
        OBVIOUS
    <2>2. CASE o.splice
        <3>1. CASE o.at = 0
            <4>1. left > 0
                BY <1>4, <2>2, <3>1
            <4> QED BY <2>1, <4>1
        <3>2. CASE o.at # 0
            BY <1>2, <2>1, <3>2
        <3> QED BY <3>1, <3>2
    <2>3. CASE ~o.splice
        <3>1. left # 0
            BY <1>4, <2>3
        <3> QED BY <2>1, <3>1
    <2> QED BY <2>2, <2>3
<1> HIDE DEF over, s
<1>5. CASE over
    BY <1>1, <1>3, <1>5, DropsKept
<1>6. CASE ~over
    BY <1>1, <1>3, <1>4, <1>6, PlayKeptSound
<1> QED BY <1>5, <1>6

\* The ring gives a sample, is skipped up to the frame, or a refill is asked for.
LEMMA TakeRingSound ==
    ASSUME SideTypes, NEW r, Sound(r), NEW frame \in Nat
    PROVE  Sound(TakeRing(r, frame).r)
<1> DEFINE near == r.head <= frame /\ frame - r.head <= Ring
           s == Skip(r, frame - r.head)
<1>1. CASE r.pending # None
    BY <1>1 DEF TakeRing
<1>2. CASE r.pending = None /\ (r.head = None \/ ~near)
    BY <1>2, RefillSound DEF TakeRing, Sound
<1>3. CASE r.pending = None /\ r.head # None /\ near
    <2>1. r.head \in Nat /\ frame - r.head \in Nat
        BY <1>3, SizesAre DEF Sound, Formed, Reader, Maybe
    <2>2. Sound(s) /\ s.pending = None
        BY <1>3, <2>1, SkipFormed DEF Sound
    <2>3. CASE s.head # frame \/ s.ring = <<>>
        <3>1. TakeRing(r, frame).r = s
            BY <1>3, <2>3 DEF TakeRing
        <3> QED BY <2>2, <3>1
    <2>4. CASE s.head = frame /\ s.ring # <<>>
        <3> DEFINE t == [s EXCEPT !.ring = Tail(@), !.head = Advance(s.wrap, frame, 1)]
        <3>1. TakeRing(r, frame).r = t
            BY <1>3, <2>4 DEF TakeRing
        <3> HIDE DEF s
        <3>2. s \in Reader /\ s.ring \in Seq(Nat) /\ Len(s.ring) \in Nat /\ Len(s.ring) >= 1
            <4>1. s \in Reader /\ s.ring \in Seq(Nat)
                BY <2>2 DEF Sound, Formed, Reader
            <4> QED BY <2>4, <4>1, EmptySeq
        <3>3. s.head # None
            BY <2>4, StreamAssumption
        <3>4. AtMost(1, Len(s.ring)) = 1
            <4>1. \A n \in Nat : n >= 1 => AtMost(1, n) = 1
                BY DEF AtMost
            <4> QED BY <3>2, <4>1
        <3>5. Tail(s.ring) = SubSeq(s.ring, 1 + 1, Len(s.ring))
            BY <3>2
        <3>6. t = Skip(s, 1)
            BY <2>4, <3>3, <3>4, <3>5 DEF Skip
        <3>7. Sound(Skip(s, 1))
            BY <2>2, <3>3, SkipFormed DEF Sound
        <3> QED BY <3>1, <3>6, <3>7
    <2> QED BY <2>3, <2>4
<1> QED BY <1>1, <1>2, <1>3

LEMMA TakeSound ==
    ASSUME SideTypes, NEW r, Sound(r), NEW frame \in Nat
    PROVE  Sound(Take(r, frame).r)
<1> DEFINE s == IF r.outgoing = None THEN r ELSE TakeOutgoing(r, frame)
<1>1. Sound(s)
    BY TakeOutgoingSound
<1>2. Take(r, frame).r = IF s.outgoing = None THEN TakeRing(s, frame).r ELSE s
    BY DEF Take
<1> HIDE DEF s
<1> QED BY <1>1, <1>2, TakeRingSound

\* A slice begins: the change seen, if there is one, is asked for.
LEMMA NotingSound ==
    ASSUME SideTypes, NEW r, Sound(r), NEW t \in Transport, NEW n \in Nat
    PROVE  Sound(Noting(r, t, n)) /\ Noting(r, t, n) \in Reader
<1> DEFINE s == Noting(r, t, n)
<1>1. /\ s \in Reader /\ s.outgoing = r.outgoing
      /\ s.ring = r.ring /\ s.inbox = r.inbox /\ s.epoch = r.epoch
      /\ s.pending = r.pending /\ s.head = r.head
      /\ s.wrap = r.wrap /\ s.refused = r.refused
      /\ (r.outgoing # None => r.outgoing.at <= Len(r.outgoing.next))
    <2>1. r \in Reader /\ (r.outgoing # None => r.outgoing.at <= Len(r.outgoing.next))
        BY DEF Sound, Formed
    <2>2. /\ t.loop \in Maybe(Loops) /\ t.pos \in Nat /\ t.pos + n \in Nat
          /\ t.rolling \in BOOLEAN /\ generation \in Nat
        BY DEF Transport, SideTypes
    <2> DEFINE standing == IF t.rolling \/ t.pos >= Frames THEN None ELSE t.pos
               gen == IF r.sent THEN r.gen ELSE generation
               continues == IF t.rolling THEN t.pos + n ELSE None
    <2>3. standing \in Maybe(Nat) /\ gen \in Nat /\ continues \in Maybe(Nat)
        BY <2>1, <2>2 DEF Reader, Maybe
    <2>4. s = [r EXCEPT !.applied = t.loop, !.standing = standing, !.gen = gen,
                        !.continues = continues]
        BY DEF Noting
    <2> HIDE DEF s, standing, gen, continues
    <2>5. s \in Reader
        BY <2>1, <2>2, <2>3, <2>4 DEF Reader
    <2> QED BY <2>1, <2>4, <2>5 DEF Reader
<1> HIDE DEF s
<1>2. Sound(s)
    BY <1>1, SameSound
<1> QED BY <1>1, <1>2 DEF s

LEMMA ChangeSound ==
    ASSUME SideTypes, NEW r, Formed(r), NEW frame \in Nat, NEW wrap \in Maybe(Loops),
           NEW playsOn \in BOOLEAN
    PROVE  Sound(Change(r, frame, wrap, playsOn))
<1> DEFINE rewrapped == r.sent /\ r.gen = generation
           playing == playsOn /\ r.head # None /\ r.pending = None /\ r.outgoing = None
           p == Replace(r, frame, wrap, rewrapped, playing)
<1>1. rewrapped \in BOOLEAN /\ playing \in BOOLEAN
    OBVIOUS
<1>2. Change(r, frame, wrap, playsOn) = AskAnew(p.r, wrap, p.from)
    BY DEF Change
<1> HIDE DEF rewrapped, playing
<1>3. Formed(p.r) /\ p.from \in Nat
    BY <1>1, ReplaceFormed
<1> HIDE DEF p
<1> QED BY <1>2, <1>3, AskAnewSound

LEMMA BeginSound ==
    ASSUME SideTypes, NEW r, Sound(r), NEW t \in Transport, NEW n \in Nat
    PROVE  Sound(Begin(r, t, n))
<1> DEFINE frame == IF t.pos < Frames THEN t.pos ELSE 0
           playsOn == t.rolling /\ r.continues = t.pos
<1>1. frame \in Nat /\ playsOn \in BOOLEAN /\ Asked(t) \in Maybe(Loops)
    BY DEF Transport, Asked, Maybe
<1>2. Begin(r, t, n) = IF Changed(r, t) THEN Change(Noting(r, t, n), frame, Asked(t), playsOn)
                       ELSE Noting(r, t, n)
    BY DEF Begin
<1> HIDE DEF frame, playsOn
<1>3. Sound(Noting(r, t, n))
    BY NotingSound
<1>4. Sound(Change(Noting(r, t, n), frame, Asked(t), playsOn))
    BY <1>1, <1>3, ChangeSound DEF Sound
<1> QED BY <1>2, <1>3, <1>4

\* A reader that stands is made ready at the frame it stands on.
LEMMA StandingSound ==
    ASSUME SideTypes, NEW r, Sound(r), NEW t \in Transport
    PROVE  Sound(Standing(r, t))
<1>1. ASSUME NEW s, Sound(s) PROVE Sound(Stand(s))
    <2> DEFINE u == [s EXCEPT !.outgoing = None]
    <2>1. Sound(u)
        BY <1>1, DropsKept
    <2>2. Stand(s) = IF u.standing = None \/ u.standing \in {u.head, u.pending} THEN u
                     ELSE Refill(u, u.standing)
        BY DEF Stand
    <2> HIDE DEF u
    <2>3. u.standing # None => u.standing \in Nat
        BY <2>1 DEF Sound, Formed, Reader, Maybe
    <2> QED BY <2>1, <2>2, <2>3, RefillSound DEF Sound
<1>2. Sound(Begin(r, t, 0))
    BY BeginSound
<1> QED BY <1>1, <1>2 DEF Standing

-----------------------------------------------------------------------------
(* The owner's steps, and the actions.                                       *)

\* What the reader is left as is told of against the same owner and boundary.
LEMMA SoundLater ==
    ASSUME owner' = owner, ack' = ack
    PROVE  \A x : Sound(x) /\ rd' = x => Sound(rd)'
<1> SUFFICES ASSUME NEW x, Sound(x), rd' = x PROVE Sound(rd)'
    OBVIOUS
<1>1. Told' = Told
    BY DEF Told
<1>2. Formed(rd)'
    BY DEF Sound, Formed, Counted
<1>3. ~x.refused => Asking(rd)' /\ Served(rd)' /\ Reading(rd)'
    BY <1>1 DEF Sound, Asking, Served, Reading, ReadsOn
<1> QED BY <1>2, <1>3 DEF Sound

\* A boundary is not None.
LEMMA BoundaryIs ==
    ASSUME NEW b \in Boundary
    PROVE  b # None /\ b.epoch \in Epoch /\ b.since \in Nat
<1>1. b \in [epoch : Nat, since : Nat]
    BY DEF Boundary, Epoch
<1> QED BY <1>1, StreamAssumption DEF Boundary

\* The last request taken: the owner renders it, with nothing pushed for it yet.
LEMMA LatestSound ==
    ASSUME SideTypes, Sound(rd), Latest
    PROVE  SideTypes' /\ Sound(rd)'
<1>1. /\ owner.pc = "turn" /\ owner.due = None /\ owner \in Owner /\ ack \in Boundary
      /\ rd \in Reader /\ ack' = ack /\ generation' = generation
    BY DEF Latest, SideTypes, Sound, Formed
<1>2. CASE rd.inbox = <<>>
    <2>1. owner' = [owner EXCEPT !.pc = "render"] /\ rd' = [rd EXCEPT !.inbox = <<>>]
        BY <1>2 DEF Latest
    <2>2. rd' = rd
        BY <1>1, <1>2, <2>1 DEF Reader
    <2>3. /\ owner' \in Owner /\ owner'.pc = "render" /\ owner'.due = owner.due
          /\ owner'.wrap = owner.wrap /\ owner'.next = owner.next
        BY <1>1, <2>1 DEF Owner
    <2>4. SideTypes'
        BY <1>1, <2>3 DEF SideTypes
    <2>5. Told' = Told
        BY <1>1, <2>3 DEF Told
    <2>6. Formed(rd)'
        BY <1>1, <2>2, <2>3 DEF Sound, Formed, Counted
    <2>7. ~rd.refused => Asking(rd)' /\ Served(rd)' /\ Reading(rd)'
        BY <2>2, <2>3, <2>5 DEF Sound, Asking, Served, Reading, ReadsOn
    <2> QED BY <2>2, <2>4, <2>6, <2>7 DEF Sound
<1>3. CASE rd.inbox # <<>>
    <2> DEFINE n == Len(rd.inbox)
               q == rd.inbox[n]
               due == [epoch |-> q.epoch, since |-> 0]
    <2>1. /\ n \in Nat /\ n > 0 /\ n <= Requests /\ q \in Request
        <3>1. rd.inbox \in Seq(Request) /\ n <= Requests
            BY DEF Sound, Formed, Reader
        <3>2. n \in Nat /\ n > 0
            BY <1>3, <3>1, EmptySeq
        <3> QED BY <3>1, <3>2
    <2>2. q.frame \in Nat /\ q.epoch \in Epoch /\ q.wrap \in Maybe(Loops) /\ q.epoch = rd.epoch
        BY <1>3, <2>1 DEF Request, Sound, Formed
    <2>3. /\ rd' = [rd EXCEPT !.inbox = <<>>]
          /\ owner' = [owner EXCEPT !.pc = "render", !.next = q.frame, !.wrap = q.wrap,
                                    !.first = TRUE, !.due = due]
        BY <1>3 DEF Latest, Last
    <2>4. due \in Boundary /\ due.epoch = rd.epoch /\ due.since = 0
        BY <2>2 DEF Boundary
    <2> HIDE DEF n, q, due
    <2>5. due # None
        BY <2>4, BoundaryIs
    <2>6. /\ owner' \in Owner /\ owner'.pc = "render" /\ owner'.due = due
          /\ owner'.wrap = q.wrap /\ owner'.next = q.frame
        BY <1>1, <2>2, <2>3, <2>4 DEF Owner, Maybe
    <2>7. SideTypes'
        BY <1>1, <2>6 DEF SideTypes
    <2>8. <<>> \in Seq(Request) /\ Len(<<>>) = 0
        OBVIOUS
    <2>9. /\ rd' \in Reader /\ rd'.inbox = <<>> /\ rd'.ring = rd.ring /\ rd'.epoch = rd.epoch
          /\ rd'.pending = rd.pending /\ rd'.head = rd.head /\ rd'.wrap = rd.wrap
          /\ rd'.refused = rd.refused /\ rd'.outgoing = rd.outgoing
        BY <1>1, <2>3, <2>8 DEF Reader
    <2>10. Counted(rd)'
        <3>1. rd.epoch = (ack.epoch + n) % Epochs
            <4>1. PICK m \in 0 .. Requests :
                      /\ m = 0 <=> owner.due = None
                      /\ rd.epoch = (ack.epoch + (m + n)) % Epochs
                BY DEF Sound, Formed, Counted, n
            <4>2. m + n = n
                BY <1>1, <2>1, <4>1
            <4> QED BY <4>1, <4>2
        <3>2. n \in 0 .. Requests /\ n # 0 /\ n + 0 = n
            BY <2>1, SizesAre
        <3>3. /\ n = 0 <=> owner'.due = None
              /\ owner'.due # None => owner'.due.epoch = (ack'.epoch + n) % Epochs
              /\ rd'.epoch = (ack'.epoch + (n + Len(rd'.inbox))) % Epochs
            BY <1>1, <2>4, <2>5, <2>6, <2>8, <2>9, <3>1, <3>2
        <3> QED BY <3>2, <3>3 DEF Counted
    <2>11. Formed(rd)'
        <3>1. 0 <= Requests
            BY SizesAre
        <3> QED BY <2>8, <2>9, <2>10, <3>1 DEF Sound, Formed
    <2>12. ASSUME ~rd.refused PROVE Asking(rd)' /\ Served(rd)' /\ Reading(rd)'
        <3>1. Asking(rd)'
            BY <2>9 DEF Asking
        <3>2. Reading(rd)'
            BY <1>3, <2>9, <2>12 DEF Sound, Reading
        <3>3. ASSUME rd.pending # None PROVE Served(rd)'
            <4>1. q.frame = rd.pending /\ q.wrap = rd.wrap
                BY <1>3, <2>12, <3>3 DEF Sound, Asking, q, n
            <4>2. Told'.since = 0
                BY <2>4, <2>5, <2>6 DEF Told
            <4>3. Advance(rd.wrap, rd.pending, 0) = rd.pending
                BY <2>2, <4>1, AdvanceIs
            <4>4. Len(rd.ring) \in Nat /\ \A k \in Nat : ReadsOn(rd.ring, Len(rd.ring) - 0, rd.wrap, k)
                BY <1>1 DEF Reader, ReadsOn
            <4>5. rd.pending \in Nat
                BY <2>2, <4>1
            <4>6. /\ owner'.wrap = rd'.wrap /\ Told'.since <= Len(rd'.ring)
                  /\ owner'.next = Advance(rd'.wrap, rd'.pending, Told'.since)
                BY <2>6, <2>9, <4>1, <4>2, <4>3, <4>4
            <4>7. ReadsOn(rd'.ring, Len(rd'.ring) - Told'.since, rd'.wrap, rd'.pending)
                BY <2>9, <4>2, <4>4, <4>5
            <4> QED BY <4>6, <4>7 DEF Served, ReadsOn
        <3>4. ASSUME rd.pending = None PROVE Served(rd)'
            BY <2>9, <3>4 DEF Served
        <3> QED BY <3>1, <3>2, <3>3, <3>4
    <2> QED BY <2>7, <2>9, <2>11, <2>12 DEF Sound
<1> QED BY <1>2, <1>3

\* What the owner renders fits in the ring and goes straight on: it ends at the
\* loop's end at the latest.
LEMMA ChunksIs ==
    ASSUME SideTypes, rd \in Reader, Len(rd.ring) <= Ring
    PROVE  /\ Chunks \in Nat /\ Len(rd.ring) + Chunks <= Ring
           /\ Chunks # 0 =>
                  /\ owner.next \in Nat
                  /\ \A i \in 1 .. Chunks :
                         Advance(owner.wrap, owner.next, i - 1) = owner.next + i - 1
<1> DEFINE want == IF owner.first THEN FirstChunk ELSE Chunk
           room == Ring - Len(rd.ring)
           toEnd == Before(owner.wrap, owner.next)
           left == IF toEnd = None THEN Frames - owner.next ELSE toEnd
           n == AtMost(AtMost(want, room), left)
<1>1. want \in Nat /\ room \in Nat /\ Len(rd.ring) \in Nat /\ Frames \in Nat
    BY SizesAre DEF Reader
<1>2. owner.next \in Maybe(Nat) /\ owner.wrap \in Maybe(Loops)
    BY DEF SideTypes, Owner
<1>3. Chunks = 0 \/ (Chunks = n /\ owner.next # None /\ ~(owner.next >= Frames))
    BY DEF Chunks
<1>4. CASE Chunks = 0
    BY <1>1, <1>4, SizesAre
<1>5. CASE Chunks = n /\ owner.next # None /\ ~(owner.next >= Frames)
    <2>1. owner.next \in Nat /\ owner.next < Frames
        BY <1>1, <1>2, <1>5 DEF Maybe
    <2>2. /\ left \in Nat
          /\ \A j \in Nat : j < left => Advance(owner.wrap, owner.next, j) = owner.next + j
        <3>1. CASE owner.wrap # None /\ owner.next < owner.wrap.to
            <4>1. owner.wrap.to \in Nat /\ owner.wrap.to - owner.next \in Nat
                BY <1>2, <2>1, <3>1, LoopsAre DEF Maybe
            <4>2. left = owner.wrap.to - owner.next
                BY <3>1, <4>1, StreamAssumption DEF Before
            <4> HIDE DEF left
            <4>3. \A j \in Nat : j < left => ~(owner.next + j >= owner.wrap.to)
                BY <2>1, <4>1, <4>2
            <4> QED BY <4>1, <4>2, <4>3 DEF Advance
        <3>2. CASE ~(owner.wrap # None /\ owner.next < owner.wrap.to)
            <4>1. left = Frames - owner.next
                BY <3>2 DEF Before
            <4>2. \A j \in Nat : Advance(owner.wrap, owner.next, j) = owner.next + j
                BY <3>2 DEF Advance
            <4>3. Frames - owner.next \in Nat
                BY <1>1, <2>1
            <4> HIDE DEF left
            <4>4. left \in Nat
                BY <4>1, <4>3
            <4> QED BY <4>2, <4>4
        <3> QED BY <3>1, <3>2
    <2> HIDE DEF left, want, room, toEnd
    <2>3. n \in Nat /\ n <= room /\ n <= left
        BY <1>1, <2>2 DEF AtMost
    <2> HIDE DEF n
    <2>4. Len(rd.ring) + n <= Ring
        <3>1. n <= Ring - Len(rd.ring)
            BY <2>3 DEF room
        <3> QED BY <1>1, <2>3, <3>1, SizesAre
    <2>5. ASSUME NEW i \in 1 .. n
          PROVE  Advance(owner.wrap, owner.next, i - 1) = owner.next + i - 1
        <3>1. i - 1 \in Nat /\ i - 1 < left /\ owner.next + (i - 1) = owner.next + i - 1
            BY <2>1, <2>2, <2>3, <2>5
        <3> QED BY <2>2, <3>1
    <2> QED BY <1>5, <2>1, <2>3, <2>4, <2>5
<1> QED BY <1>3, <1>4, <1>5

\* The owner renders on: what is in the ring and since the boundary grows alike.
LEMMA RenderSound ==
    ASSUME SideTypes, Sound(rd), Render
    PROVE  SideTypes' /\ Sound(rd)'
<1> DEFINE n == Chunks
           more(b) == IF b = None THEN None ELSE [b EXCEPT !.since = AtMost(@ + n, Ring)]
           chunk == [i \in 1 .. n |-> owner.next + i - 1]
           pc == IF owner.due = None THEN "turn" ELSE "publish"
<1>1. /\ owner \in Owner /\ ack \in Boundary /\ generation' = generation /\ generation \in Nat
      /\ rd \in Reader /\ Formed(rd) /\ Len(rd.ring) <= Ring /\ rd.ring \in Seq(Nat)
      /\ Len(rd.ring) \in Nat
    <2>1. rd \in Reader /\ Formed(rd) /\ Len(rd.ring) <= Ring
        BY DEF Sound, Formed
    <2> QED BY <2>1 DEF Render, SideTypes, Reader
<1>2. /\ n \in Nat /\ Len(rd.ring) + n <= Ring
      /\ n # 0 => /\ owner.next \in Nat
                  /\ \A i \in 1 .. n : Advance(owner.wrap, owner.next, i - 1) = owner.next + i - 1
    BY <1>1, ChunksIs
<1>3. CASE n = 0
    <2>1. owner' = [owner EXCEPT !.pc = pc] /\ rd' = rd /\ ack' = ack
        BY <1>3 DEF Render
    <2>2. pc \in {"turn", "publish"} /\ (pc = "turn" <=> owner.due = None)
        OBVIOUS
    <2> HIDE DEF pc, n
    <2>3. /\ owner' \in Owner /\ owner'.pc = pc /\ owner'.due = owner.due
          /\ owner'.wrap = owner.wrap /\ owner'.next = owner.next
        BY <1>1, <2>1, <2>2 DEF Owner
    <2>4. SideTypes'
        BY <1>1, <2>1, <2>2, <2>3 DEF SideTypes
    <2>5. Told' = Told
        BY <2>1, <2>3 DEF Told
    <2>6. Formed(rd)'
        BY <1>1, <2>1, <2>3 DEF Formed, Counted
    <2>7. ~rd.refused => Asking(rd)' /\ Served(rd)' /\ Reading(rd)'
        BY <2>1, <2>3, <2>5 DEF Sound, Asking, Served, Reading, ReadsOn
    <2> QED BY <2>1, <2>4, <2>6, <2>7 DEF Sound
<1>4. CASE n # 0
    <2>1. /\ rd' = [rd EXCEPT !.ring = rd.ring \o chunk]
          /\ owner' = [owner EXCEPT !.pc = pc, !.first = FALSE, !.due = more(owner.due),
                                    !.next = Advance(owner.wrap, owner.next, n)]
          /\ ack' = more(ack)
        BY <1>4 DEF Render
    <2>2. pc \in {"turn", "publish"} /\ (pc = "turn" <=> owner.due = None)
        OBVIOUS
    <2>3. chunk = [i \in 1 .. n |-> owner.next + i - 1]
        OBVIOUS
    <2>4. ASSUME NEW b \in Boundary
          PROVE  /\ more(b) \in Boundary /\ more(b) # None /\ more(b).epoch = b.epoch
                 /\ b.since <= Len(rd.ring) => more(b).since = b.since + n
        <3>1. b # None /\ b.since \in Nat /\ b.epoch \in Epoch
            BY BoundaryIs
        <3>2. more(b) = [b EXCEPT !.since = AtMost(b.since + n, Ring)]
            BY <3>1
        <3> HIDE DEF n, more
        <3>3. /\ AtMost(b.since + n, Ring) \in Nat
              /\ b.since <= Len(rd.ring) => AtMost(b.since + n, Ring) = b.since + n
            <4>1. \A x, y \in Nat : AtMost(x, y) \in Nat /\ (x <= y => AtMost(x, y) = x)
                BY DEF AtMost
            <4>2. b.since + n \in Nat /\ (b.since <= Len(rd.ring) => b.since + n <= Ring)
                BY <1>1, <1>2, <3>1, SizesAre
            <4> QED BY <4>1, <4>2, SizesAre
        <3>4. more(b) \in Boundary
            BY <3>1, <3>2, <3>3 DEF Boundary
        <3>5. more(b).epoch = b.epoch /\ more(b).since = AtMost(b.since + n, Ring)
            BY <3>2 DEF Boundary
        <3> QED BY <3>3, <3>4, <3>5, BoundaryIs
    <2>5. more(None) = None
        OBVIOUS
    <2> HIDE DEF n, more, chunk, pc
    <2>6. owner.due \in Maybe(Boundary) /\ owner.wrap \in Maybe(Loops) /\ owner.next \in Nat
        BY <1>1, <1>2, <1>4 DEF Owner
    <2>7. more(owner.due) \in Maybe(Boundary) /\ (more(owner.due) = None <=> owner.due = None)
        BY <2>4, <2>5, <2>6 DEF Maybe
    <2>8. Advance(owner.wrap, owner.next, n) \in Nat
        BY <1>2, <2>6, AdvanceIs
    <2>9. /\ owner' \in Owner /\ owner'.pc = pc /\ owner'.due = more(owner.due)
          /\ owner'.wrap = owner.wrap /\ owner'.next = Advance(owner.wrap, owner.next, n)
        BY <1>1, <2>1, <2>2, <2>7, <2>8 DEF Owner, Maybe
    <2>10. ack' \in Boundary /\ ack'.epoch = ack.epoch
        BY <1>1, <2>1, <2>4
    <2>11. SideTypes'
        BY <1>1, <2>2, <2>7, <2>9, <2>10 DEF SideTypes
    <2>12. /\ chunk \in Seq(Nat) /\ Len(chunk) = n
           /\ \A i \in 1 .. n : chunk[i] = owner.next + i - 1
        <3>1. chunk \in [1 .. n -> Nat]
            BY <1>2, <2>3, <2>6
        <3> QED BY <1>2, <2>3, <3>1
    <2>13. ASSUME NEW f \in Nat, NEW k \in 0 .. Len(rd.ring),
                  ReadsOn(rd.ring, k, owner.wrap, f),
                  owner.next = Advance(owner.wrap, f, Len(rd.ring) - k)
           PROVE  /\ ReadsOn(rd.ring \o chunk, k, owner.wrap, f)
                  /\ Advance(owner.wrap, owner.next, n)
                         = Advance(owner.wrap, f, (Len(rd.ring) + n) - k)
        <3>1. \A i \in 1 .. n : chunk[i] = Advance(owner.wrap, owner.next, i - 1)
            BY <1>2, <1>4, <2>12
        <3>2. n - 0 = n /\ \A i \in 1 .. n : 0 + i = i
            BY <1>2
        <3>3. ReadsOn(chunk, 0, owner.wrap, owner.next)
            BY <2>12, <3>1, <3>2 DEF ReadsOn
        <3>4. ReadsOn(rd.ring \o chunk, k, owner.wrap, f)
            BY <1>1, <2>6, <2>12, <2>13, <3>3, RendersOn
        <3>5. Len(rd.ring) - k \in Nat /\ (Len(rd.ring) - k) + n = (Len(rd.ring) + n) - k
            BY <1>1, <1>2
        <3>6. Advance(owner.wrap, owner.next, n) = Advance(owner.wrap, f, (Len(rd.ring) + n) - k)
            <4>1. \A wrap \in Maybe(Loops), a, b \in Nat :
                      Advance(wrap, Advance(wrap, f, a), b) = Advance(wrap, f, a + b)
                BY AdvanceSum
            <4>2. PICK a \in Nat : a = Len(rd.ring) - k
                BY <3>5
            <4>3. n \in Nat
                BY <1>2
            <4>4. Advance(owner.wrap, Advance(owner.wrap, f, a), n) = Advance(owner.wrap, f, a + n)
                BY <2>6, <2>13, <4>1, <4>3
            <4>5. owner.next = Advance(owner.wrap, f, a) /\ a + n = (Len(rd.ring) + n) - k
                BY <2>13, <3>5, <4>2
            <4> QED BY <4>4, <4>5
        <3> QED BY <3>4, <3>6
    <2>14. /\ rd.ring \o chunk \in Seq(Nat) /\ Len(rd.ring \o chunk) = Len(rd.ring) + n
        BY <1>1, <2>12, ConcatProperties
    <2>15. /\ rd' \in Reader /\ rd'.ring = rd.ring \o chunk /\ rd'.inbox = rd.inbox
           /\ rd'.epoch = rd.epoch /\ rd'.pending = rd.pending /\ rd'.head = rd.head
           /\ rd'.wrap = rd.wrap /\ rd'.refused = rd.refused /\ rd'.outgoing = rd.outgoing
        BY <1>1, <2>1, <2>14 DEF Reader
    <2>16. Counted(rd)'
        <3>1. PICK m \in 0 .. Requests :
                  /\ m = 0 <=> owner.due = None
                  /\ owner.due # None => owner.due.epoch = (ack.epoch + m) % Epochs
                  /\ rd.epoch = (ack.epoch + (m + Len(rd.inbox))) % Epochs
            BY <1>1 DEF Formed, Counted
        <3>2. owner.due # None => owner'.due.epoch = owner.due.epoch
            BY <2>4, <2>6, <2>9 DEF Maybe
        <3>3. /\ m = 0 <=> owner'.due = None
              /\ owner'.due # None => owner'.due.epoch = (ack'.epoch + m) % Epochs
              /\ rd'.epoch = (ack'.epoch + (m + Len(rd'.inbox))) % Epochs
            BY <2>7, <2>9, <2>10, <2>15, <3>1, <3>2
        <3> QED BY <3>3 DEF Counted
    <2>17. Formed(rd)'
        BY <1>1, <1>2, <2>14, <2>15, <2>16 DEF Formed
    <2>18. Told \in Boundary /\ Told' = more(Told)
        <3>1. CASE owner.due = None
            BY <1>1, <2>1, <2>5, <2>9, <3>1 DEF Told
        <3>2. CASE owner.due # None
            BY <2>6, <2>7, <2>9, <3>2 DEF Told, Maybe
        <3> QED BY <3>1, <3>2
    <2>19. /\ Told.since \in Nat
           /\ Told.since <= Len(rd.ring) => Told'.since = Told.since + n
        BY <2>4, <2>18, BoundaryIs
    <2>20. ASSUME ~rd.refused PROVE Served(rd)'
        <3>1. SUFFICES ASSUME rd.pending # None, rd.inbox = <<>> PROVE Served(rd)'
            BY <2>15 DEF Served
        <3>2. /\ owner.wrap = rd.wrap /\ Told.since <= Len(rd.ring)
              /\ ReadsOn(rd.ring, Len(rd.ring) - Told.since, rd.wrap, rd.pending)
              /\ owner.next = Advance(rd.wrap, rd.pending, Told.since)
            BY <2>20, <3>1 DEF Sound, Served
        <3>3. rd.pending \in Nat /\ rd.wrap \in Maybe(Loops)
            BY <1>1, <3>1 DEF Reader, Maybe
        <3>4. PICK k \in 0 .. Len(rd.ring) : k = Len(rd.ring) - Told.since
            BY <1>1, <2>19, <3>2
        <3>5. Len(rd.ring) - k = Told.since
            BY <1>1, <2>19, <3>2, <3>4
        <3>6. /\ ReadsOn(rd.ring \o chunk, k, rd.wrap, rd.pending)
              /\ Advance(rd.wrap, owner.next, n)
                     = Advance(rd.wrap, rd.pending, (Len(rd.ring) + n) - k)
            BY <2>13, <3>2, <3>3, <3>4, <3>5
        <3>7. Told'.since = Told.since + n
            BY <2>19, <3>2
        <3>8. /\ Told'.since <= Len(rd'.ring) /\ Len(rd'.ring) - Told'.since = k
              /\ (Len(rd.ring) + n) - k = Told'.since
            <4>1. PICK l, s, m \in Nat : l = Len(rd.ring) /\ s = Told.since /\ m = n
                BY <1>1, <1>2, <2>19
            <4>2. s <= l /\ k = l - s /\ Told'.since = s + m
                BY <3>2, <3>4, <3>7, <4>1
            <4>3. s + m <= l + m /\ (l + m) - (s + m) = k /\ (l + m) - k = s + m
                BY <4>2
            <4> QED BY <2>14, <2>15, <4>1, <4>2, <4>3
        <3>9. owner'.wrap = rd'.wrap /\ owner'.next = Advance(rd'.wrap, rd'.pending, Told'.since)
            BY <2>9, <2>15, <3>2, <3>6, <3>8
        <3>10. ReadsOn(rd'.ring, Len(rd'.ring) - Told'.since, rd'.wrap, rd'.pending)
            BY <2>15, <3>6, <3>8
        <3> QED BY <3>8, <3>9, <3>10 DEF Served, ReadsOn
    <2>21. ASSUME ~rd.refused PROVE Reading(rd)'
        <3>1. SUFFICES ASSUME rd.pending = None, rd.head # None PROVE Reading(rd)'
            BY <2>15 DEF Reading
        <3>2. /\ rd.inbox = <<>> /\ owner.due = None /\ owner.wrap = rd.wrap
              /\ ReadsOn(rd.ring, 0, rd.wrap, rd.head)
              /\ owner.next = Advance(rd.wrap, rd.head, Len(rd.ring))
            BY <2>21, <3>1 DEF Sound, Reading
        <3>3. rd.head \in Nat /\ rd.wrap \in Maybe(Loops)
            BY <1>1, <3>1 DEF Reader, Maybe
        <3>4. 0 \in 0 .. Len(rd.ring) /\ Len(rd.ring) - 0 = Len(rd.ring)
            BY <1>1
        <3>5. /\ ReadsOn(rd.ring \o chunk, 0, rd.wrap, rd.head)
              /\ Advance(rd.wrap, owner.next, n)
                     = Advance(rd.wrap, rd.head, (Len(rd.ring) + n) - 0)
            BY <2>13, <3>2, <3>3, <3>4
        <3>6. (Len(rd.ring) + n) - 0 = Len(rd.ring \o chunk)
            BY <1>1, <1>2, <2>14
        <3>7. /\ rd'.inbox = <<>> /\ owner'.due = None /\ owner'.wrap = rd'.wrap
              /\ owner'.next = Advance(rd'.wrap, rd'.head, Len(rd'.ring))
            BY <2>5, <2>9, <2>15, <3>2, <3>5, <3>6
        <3>8. ReadsOn(rd'.ring, 0, rd'.wrap, rd'.head)
            BY <2>15, <3>5
        <3> QED BY <3>7, <3>8 DEF Reading, ReadsOn
    <2>22. ~rd.refused => Asking(rd)'
        BY <2>15 DEF Sound, Asking
    <2> QED BY <2>11, <2>15, <2>17, <2>20, <2>21, <2>22 DEF Sound
<1> QED BY <1>3, <1>4

\* The refill taken is told: its epoch is the published one, its boundary stays.
LEMMA PublishSound ==
    ASSUME SideTypes, Sound(rd), Publish
    PROVE  SideTypes' /\ Sound(rd)'
<1>1. /\ owner \in Owner /\ ack \in Boundary /\ rd \in Reader /\ Formed(rd)
      /\ owner.due # None /\ owner.due \in Boundary
      /\ generation' = generation /\ rd' = rd /\ ack' = owner.due
      /\ owner' = [owner EXCEPT !.pc = "turn", !.due = None]
    BY DEF Publish, SideTypes, Sound, Formed, Owner, Maybe
<1>2. /\ owner' \in Owner /\ owner'.pc = "turn" /\ owner'.due = None
      /\ owner'.wrap = owner.wrap /\ owner'.next = owner.next
    BY <1>1 DEF Owner, Maybe
<1>3. SideTypes'
    BY <1>1, <1>2 DEF SideTypes
<1>4. Told' = Told
    BY <1>1, <1>2 DEF Told
<1>5. Counted(rd)'
    <2>1. PICK m \in 0 .. Requests :
              /\ owner.due.epoch = (ack.epoch + m) % Epochs
              /\ rd.epoch = (ack.epoch + (m + Len(rd.inbox))) % Epochs
        BY <1>1 DEF Formed, Counted
    <2>2. PICK a \in Int, l \in Nat : a = ack.epoch /\ l = Len(rd.inbox)
        BY <1>1, BoundaryIs DEF Epoch, Reader
    <2>3. (((a + m) % Epochs) + l) % Epochs = ((a + m) + l) % Epochs
        <3>1. Epochs \in Int /\ Epochs > 0 /\ a + m \in Int /\ l \in Int
            <4>1. Epochs \in Int /\ Epochs > 0
                BY EpochsAre
            <4>2. m \in Nat
                BY SizesAre
            <4> QED BY <2>2, <4>1, <4>2
        <3> QED BY <3>1, SumOfRemainder
    <2>4. (a + m) + l = a + (m + l)
        BY <2>1, <2>2
    <2>5. rd.epoch = (owner.due.epoch + (0 + l)) % Epochs
        <3>1. 0 + l = l
            BY <2>2
        <3> QED BY <2>1, <2>2, <2>3, <2>4, <3>1
    <2>6. 0 \in 0 .. Requests
        BY SizesAre
    <2>7. /\ 0 = 0 <=> owner'.due = None
          /\ owner'.due # None => owner'.due.epoch = (ack'.epoch + 0) % Epochs
          /\ rd'.epoch = (ack'.epoch + (0 + Len(rd'.inbox))) % Epochs
        BY <1>1, <1>2, <2>2, <2>5
    <2> QED BY <2>6, <2>7 DEF Counted
<1>6. Formed(rd)'
    BY <1>1, <1>5 DEF Formed
<1>7. ASSUME ~rd.refused PROVE Asking(rd)' /\ Served(rd)' /\ Reading(rd)'
    BY <1>1, <1>2, <1>4, <1>7 DEF Sound, Asking, Served, Reading, ReadsOn
<1> QED BY <1>1, <1>3, <1>6, <1>7 DEF Sound

-----------------------------------------------------------------------------
(* The transport's steps.                                                    *)

LEMMA PutLoopWithin ==
    ASSUME NEW t, Within(t), NEW span \in Maybe(Loops)
    PROVE  Within(PutLoop(t, span))
<1>1. t \in Transport /\ PutLoop(t, span) = [t EXCEPT !.loop = span, !.change = None]
    BY DEF Within, PutLoop
<1>2. /\ PutLoop(t, span) \in Transport
      /\ PutLoop(t, span).slice = t.slice /\ PutLoop(t, span).left = t.left
    BY <1>1 DEF Transport, Maybe
<1> QED BY <1>2 DEF Within

LEMMA LandedWithin ==
    ASSUME NEW t, Within(t)
    PROVE  Within(Landed(t))
<1>1. t.change # None => t.change.span \in Maybe(Loops)
    BY DEF Within, Transport, Maybe
<1> QED BY <1>1, PutLoopWithin DEF Landed

LEMMA SettleWithin ==
    ASSUME NEW t, Within(t)
    PROVE  Within(Settle(t))
<1>1. CASE t.left = 0 /\ ~AtEnd(t)
    <2>1. t \in Transport /\ Settle(t) = [t EXCEPT !.left = None]
        BY <1>1 DEF Within, Settle
    <2>2. Settle(t) \in Transport /\ Settle(t).slice = t.slice
        BY <2>1 DEF Transport, Maybe
    <2>3. t.slice \in Nat /\ ~(t.slice > 0)
        BY <1>1, <2>1 DEF Within, Transport
    <2> QED BY <2>2, <2>3 DEF Within
<1>2. CASE ~(t.left = 0 /\ ~AtEnd(t))
    BY <1>2 DEF Settle
<1> QED BY <1>1, <1>2

LEMMA StartBlockWithin ==
    ASSUME TransportTypes, StartBlock
    PROVE  TransportTypes'
<1> DEFINE t == [transport EXCEPT !.left = Block]
<1>1. /\ transport \in Transport /\ transport.slice \in Nat /\ ~(transport.slice > 0)
      /\ Block \in Nat
    BY SizesAre DEF StartBlock, TransportTypes, Within, Transport
<1>2. t \in Transport /\ t.slice = transport.slice /\ t.change = transport.change
    BY <1>1 DEF Transport, Maybe
<1>3. Within(t)
    BY <1>1, <1>2 DEF Within
<1>4. t.change # None => t.change.span \in Maybe(Loops) /\ t.change.waited \in Nat
    BY <1>2 DEF Transport, Maybe
<1>5. CASE LoopCueReady
    <2>1. transport' = PutLoop(t, t.change.span) /\ t.change # None
        BY <1>2, <1>5 DEF StartBlock, LoopCueReady
    <2> HIDE DEF t
    <2> QED BY <1>3, <1>4, <2>1, PutLoopWithin DEF TransportTypes
<1>6. CASE ~LoopCueReady /\ t.change = None
    <2>1. transport' = t
        BY <1>6 DEF StartBlock
    <2> QED BY <1>3, <2>1 DEF TransportTypes
<1>7. CASE ~LoopCueReady /\ t.change # None
    <2> DEFINE c == [t.change EXCEPT !.waited = @ + 1]
    <2>1. transport' = [t EXCEPT !.change.waited = @ + 1]
        BY <1>7 DEF StartBlock
    <2>2. c \in [span : Maybe(Loops), waited : Nat]
        BY <1>2, <1>4, <1>7 DEF Transport, Maybe
    <2> HIDE DEF t
    <2>3. transport' = [t EXCEPT !.change = c]
        BY <2>1
    <2> HIDE DEF c
    <2>4. transport' \in Transport /\ transport'.slice = t.slice
        BY <1>2, <2>2, <2>3 DEF Transport, Maybe
    <2> QED BY <1>1, <1>2, <2>4 DEF TransportTypes, Within
<1> QED BY <1>5, <1>6, <1>7

LEMMA WrapWithin ==
    ASSUME TransportTypes, Wrap
    PROVE  TransportTypes'
<1> DEFINE t == IF LoopCueReady THEN PutLoop(transport, transport.change.span) ELSE transport
           u == [t EXCEPT !.pos = IF t.loop = None THEN @ ELSE t.loop.from]
<1>1. transport' = Settle(u)
    BY DEF Wrap
<1>2. Within(t)
    <2>1. LoopCueReady => transport.change.span \in Maybe(Loops)
        BY DEF LoopCueReady, TransportTypes, Within, Transport, Maybe
    <2> QED BY <2>1, PutLoopWithin DEF TransportTypes
<1> HIDE DEF t
<1>3. t \in Transport /\ (t.loop # None => t.loop.from \in Nat)
    BY <1>2, LoopsAre DEF Within, Transport, Maybe
<1>4. u \in Transport /\ u.slice = t.slice /\ u.left = t.left
    BY <1>3 DEF Transport
<1>5. Within(u)
    BY <1>2, <1>4 DEF Within
<1> QED BY <1>1, <1>5, SettleWithin DEF TransportTypes

\* A slice is no longer than what is left of its block.
LEMMA SliceWithin ==
    ASSUME TransportTypes, SideTypes, Sound(rd), Slice
    PROVE  TransportTypes' /\ SideTypes' /\ Sound(rd)'
<1> DEFINE toEnd == Before(transport.loop, transport.pos)
           n == IF toEnd = None THEN transport.left ELSE AtMost(toEnd, transport.left)
           c == Collect(rd)
<1>1. /\ transport \in Transport /\ transport.left \in Nat
      /\ rd' = Begin(c, transport, n)
      /\ transport' = [transport EXCEPT !.slice = n, !.mute = Muted(c, transport, rd')]
      /\ owner' = owner /\ ack' = ack /\ generation' = generation
    BY DEF Slice, TransportTypes, Within, Transport, Maybe
<1>2. toEnd = None \/ toEnd \in Nat
    <2>1. transport.loop # None => transport.loop.to \in Nat
        BY <1>1, LoopsAre DEF Transport, Maybe
    <2> QED BY <1>1, <2>1 DEF Before, Transport
<1> HIDE DEF toEnd
<1>3. n \in Nat /\ n <= transport.left
    BY <1>1, <1>2 DEF AtMost
<1> HIDE DEF n
<1>4. Sound(c)
    BY CollectSound
<1> HIDE DEF c
<1>5. Sound(Begin(c, transport, n))
    BY <1>1, <1>3, <1>4, BeginSound
<1>6. Sound(rd)'
    BY <1>1, <1>5, SoundLater
<1>7. Muted(c, transport, rd') \in BOOLEAN
    BY DEF Muted
<1>8. transport' \in Transport /\ transport'.slice = n /\ transport'.left = transport.left
    BY <1>1, <1>3, <1>7 DEF Transport
<1>9. TransportTypes'
    BY <1>1, <1>3, <1>8, StreamAssumption DEF TransportTypes, Within
<1>10. SideTypes'
    BY <1>1 DEF SideTypes
<1> QED BY <1>6, <1>9, <1>10

LEMMA SampleWithin ==
    ASSUME TransportTypes, SideTypes, Sound(rd), Sample
    PROVE  TransportTypes' /\ SideTypes' /\ Sound(rd)'
<1> DEFINE t == [transport EXCEPT !.pos = @ + 1, !.slice = @ - 1, !.left = @ - 1,
                                  !.mute = @ /\ transport.slice > 1]
<1>1. /\ transport \in Transport /\ transport.slice > 0 /\ transport.slice \in Nat
      /\ transport.left \in Nat /\ transport.slice <= transport.left /\ transport.pos \in Nat
      /\ transport' = Settle(t)
      /\ owner' = owner /\ ack' = ack /\ generation' = generation
    BY DEF Sample, TransportTypes, Within, Transport, Maybe
<1>2. rd' = rd \/ rd' = Take(rd, transport.pos).r
    BY DEF Sample
<1>3. Sound(rd)'
    BY <1>1, <1>2, TakeSound, SoundLater
<1>4. /\ transport.slice - 1 \in Nat /\ transport.left - 1 \in Nat /\ transport.pos + 1 \in Nat
      /\ transport.slice - 1 <= transport.left - 1
      /\ (transport.mute /\ transport.slice > 1) \in BOOLEAN
    BY <1>1
<1>5. t \in Transport /\ t.slice = transport.slice - 1 /\ t.left = transport.left - 1
    BY <1>1, <1>4 DEF Transport, Maybe
<1>6. Within(t)
    BY <1>4, <1>5, StreamAssumption DEF Within
<1> HIDE DEF t
<1>7. TransportTypes'
    BY <1>1, <1>6, SettleWithin DEF TransportTypes
<1>8. SideTypes'
    BY <1>1 DEF SideTypes
<1> QED BY <1>3, <1>7, <1>8

LEMMA CueBlockSound ==
    ASSUME TransportTypes, SideTypes, Sound(rd), CueBlock
    PROVE  TransportTypes' /\ SideTypes' /\ Sound(rd)'
<1> DEFINE t == Landed(transport)
           cue == IF Cued(rd') \/ t.cue >= CueWait THEN None ELSE t.cue + 1
<1>1. /\ rd' = Standing(Collect(rd), t) /\ transport' = [t EXCEPT !.cue = cue]
      /\ owner' = owner /\ ack' = ack /\ generation' = generation
      /\ transport.cue # None
    BY DEF CueBlock
<1>2. Within(t) /\ t \in Transport /\ t.cue = transport.cue
    <2>1. Within(t)
        BY LandedWithin DEF TransportTypes
    <2>2. t.cue = transport.cue
        BY DEF Landed, PutLoop, TransportTypes, Within, Transport
    <2> QED BY <2>1, <2>2 DEF Within
<1> HIDE DEF t
<1>3. Sound(Collect(rd))
    BY CollectSound
<1>4. Sound(Standing(Collect(rd), t))
    BY <1>2, <1>3, StandingSound
<1>5. Sound(rd)'
    BY <1>1, <1>4, SoundLater
<1>6. cue \in Maybe(Nat)
    BY <1>1, <1>2 DEF Transport, Maybe
<1> HIDE DEF cue
<1>7. transport' \in Transport /\ transport'.slice = t.slice /\ transport'.left = t.left
    BY <1>1, <1>2, <1>6 DEF Transport
<1>8. TransportTypes'
    BY <1>2, <1>7 DEF TransportTypes, Within
<1>9. SideTypes'
    BY <1>1 DEF SideTypes
<1> QED BY <1>5, <1>8, <1>9

LEMMA CommandWithin ==
    ASSUME TransportTypes, Command
    PROVE  TransportTypes' /\ UNCHANGED <<rd, owner, ack, generation>>
<1>1. transport \in Transport
    BY DEF TransportTypes, Within
<1>2. CASE Play
    <2>1. transport' = [transport EXCEPT !.rolling = TRUE, !.cue = None]
        BY <1>2 DEF Play
    <2>2. /\ transport' \in Transport /\ transport'.slice = transport.slice
          /\ transport'.left = transport.left
        BY <1>1, <2>1 DEF Transport, Maybe
    <2> QED BY <1>2, <2>2 DEF Play, Commanded, TransportTypes, Within
<1>3. CASE Stop
    <2>1. transport' = [transport EXCEPT !.rolling = FALSE]
        BY <1>3 DEF Stop
    <2>2. /\ transport' \in Transport /\ transport'.slice = transport.slice
          /\ transport'.left = transport.left
        BY <1>1, <2>1 DEF Transport
    <2> QED BY <1>3, <2>2 DEF Stop, Commanded, TransportTypes, Within
<1>4. CASE Cue
    <2>1. transport' = [transport EXCEPT !.cue = 0]
        BY <1>4 DEF Cue
    <2>2. /\ transport' \in Transport /\ transport'.slice = transport.slice
          /\ transport'.left = transport.left
        BY <1>1, <2>1 DEF Transport, Maybe
    <2> QED BY <1>4, <2>2 DEF Cue, Commanded, TransportTypes, Within
<1>5. ASSUME NEW p \in Places, Locate(p)
      PROVE  TransportTypes' /\ UNCHANGED <<rd, owner, ack, generation>>
    <2>1. transport' = [transport EXCEPT !.pos = p] /\ p \in Nat
        BY <1>5, StreamAssumption DEF Locate
    <2>2. /\ transport' \in Transport /\ transport'.slice = transport.slice
          /\ transport'.left = transport.left
        BY <1>1, <2>1 DEF Transport
    <2> QED BY <1>5, <2>2 DEF Locate, Commanded, TransportTypes, Within
<1>6. ASSUME NEW span \in Loops \cup {None}, Loop(span)
      PROVE  TransportTypes' /\ UNCHANGED <<rd, owner, ack, generation>>
    <2>1. span \in Maybe(Loops)
        BY DEF Maybe
    <2>2. CASE transport' = PutLoop(transport, span)
        BY <1>6, <2>1, <2>2, PutLoopWithin DEF Loop, Commanded, TransportTypes
    <2>3. CASE transport' = [transport EXCEPT !.change = [span |-> span, waited |-> 0]]
        <3>1. /\ transport' \in Transport /\ transport'.slice = transport.slice
              /\ transport'.left = transport.left
            BY <1>1, <2>1, <2>3 DEF Transport, Maybe
        <3> QED BY <1>6, <3>1 DEF Loop, Commanded, TransportTypes, Within
    <2> QED BY <1>6, <2>2, <2>3 DEF Loop
<1> QED BY <1>2, <1>3, <1>4, <1>5, <1>6 DEF Command

-----------------------------------------------------------------------------
(* The theorem.                                                              *)

LEMMA StartsSound ==
    ASSUME Init
    PROVE  StreamInv
<1>1. PICK rolling \in BOOLEAN :
          transport = [pos |-> 0, rolling |-> rolling, loop |-> None, change |-> None,
                       cue |-> None, left |-> None, slice |-> 0, mute |-> FALSE]
    BY DEF Init
<1>2. TransportTypes
    BY <1>1 DEF TransportTypes, Within, Transport, Maybe
<1>3. 0 \in Epoch
    BY EpochsAre DEF Epoch
<1>4. /\ owner = [pc |-> "turn", next |-> None, wrap |-> None, first |-> FALSE, due |-> None]
      /\ ack = [epoch |-> 0, since |-> 0] /\ generation = 0
    BY DEF Init
<1>5. SideTypes
    <2>1. owner \in Owner
        BY <1>4 DEF Owner, Maybe
    <2>2. ack \in Boundary
        BY <1>3, <1>4 DEF Boundary
    <2> QED BY <1>4, <2>1, <2>2 DEF SideTypes
<1>6. rd = [ring |-> <<>>, inbox |-> <<>>, epoch |-> 0, pending |-> None, head |-> None,
            outgoing |-> None, continues |-> None, applied |-> None, wrap |-> None,
            standing |-> None, sent |-> FALSE, gen |-> 0, refused |-> FALSE]
    BY DEF Init
<1>7. /\ rd.ring = <<>> /\ rd.inbox = <<>> /\ rd.epoch = 0 /\ rd.pending = None
      /\ rd.head = None /\ rd.outgoing = None /\ ~rd.refused
    BY <1>6
<1>8. <<>> \in Seq(Nat) /\ <<>> \in Seq(Request) /\ Len(<<>>) = 0
    OBVIOUS
<1>9. rd \in Reader
    BY <1>3, <1>6, <1>8 DEF Reader, Maybe
<1>10. Counted(rd)
    <2>1. 0 \in 0 .. Requests /\ 0 + 0 = 0 /\ 0 % Epochs = 0
        <3>1. 0 \in 0 .. Epochs - 1 /\ Epochs \in Int
            BY EpochsAre
        <3>2. 0 % Epochs = 0
            BY <3>1, EpochsAre, SmallRemainder
        <3> QED BY <3>2, SizesAre
    <2>2. /\ 0 = 0 <=> owner.due = None
          /\ owner.due # None => owner.due.epoch = (ack.epoch + 0) % Epochs
          /\ rd.epoch = (ack.epoch + (0 + Len(rd.inbox))) % Epochs
        BY <1>4, <1>7, <1>8, <2>1
    <2> QED BY <2>1, <2>2 DEF Counted
<1>11. Formed(rd)
    BY <1>7, <1>8, <1>9, <1>10, SizesAre DEF Formed
<1>12. Asking(rd) /\ Served(rd) /\ Reading(rd)
    BY <1>7 DEF Asking, Served, Reading
<1> QED BY <1>2, <1>5, <1>11, <1>12 DEF StreamInv, Sound

\* Every action keeps the invariant.
LEMMA StepSound ==
    ASSUME StreamInv, [Next]_vars
    PROVE  StreamInv'
<1> USE DEF StreamInv
<1>1. ASSUME UNCHANGED <<rd, owner, ack, generation>>
      PROVE  SideTypes' /\ Sound(rd)'
    <2>1. Sound(rd)'
        BY <1>1, SoundLater
    <2> QED BY <1>1, <2>1 DEF SideTypes
<1>2. ASSUME UNCHANGED transport PROVE TransportTypes'
    BY <1>2 DEF TransportTypes
<1>3. CASE StartBlock
    BY <1>1, <1>3, StartBlockWithin DEF StartBlock
<1>4. CASE Wrap
    BY <1>1, <1>4, WrapWithin DEF Wrap
<1>5. CASE Slice
    BY <1>5, SliceWithin
<1>6. CASE Sample
    BY <1>6, SampleWithin
<1>7. CASE LandStanding
    <2>1. TransportTypes'
        BY <1>7, LandedWithin DEF LandStanding, TransportTypes
    <2> QED BY <1>1, <1>7, <2>1 DEF LandStanding
<1>8. CASE CueBlock
    BY <1>8, CueBlockSound
<1>9. CASE Command
    BY <1>1, <1>9, CommandWithin
<1>10. CASE Edit
    <2>1. SideTypes' /\ UNCHANGED <<transport, rd, owner, ack>>
        BY <1>10 DEF Edit, SideTypes
    <2> QED BY <1>2, <2>1, SoundLater
<1>11. CASE Latest
    BY <1>2, <1>11, LatestSound DEF Latest
<1>12. CASE Render
    BY <1>2, <1>12, RenderSound DEF Render
<1>13. CASE Publish
    BY <1>2, <1>13, PublishSound DEF Publish
<1>14. CASE UNCHANGED vars
    BY <1>1, <1>2, <1>14 DEF vars
<1> QED BY <1>3, <1>4, <1>5, <1>6, <1>7, <1>8, <1>9, <1>10, <1>11, <1>12, <1>13, <1>14
        DEF Next, Audio, Serve

LEMMA HeadIsFirst ==
    ASSUME StreamInv
    PROVE  HeadIsRing
<1> SUFFICES ASSUME rd.pending = None, rd.head # None, rd.ring # <<>>, ~rd.refused
             PROVE  rd.ring[1] = rd.head
    BY DEF HeadIsRing
<1>1. ReadsOn(rd.ring, 0, rd.wrap, rd.head) /\ rd \in Reader
    BY DEF StreamInv, Sound, Reading, Formed
<1>2. rd.ring \in Seq(Nat) /\ rd.head \in Nat /\ rd.wrap \in Maybe(Loops)
    BY <1>1 DEF Reader, Maybe
<1>3. Len(rd.ring) \in Nat /\ Len(rd.ring) > 0
    BY <1>2, EmptySeq
<1>4. rd.ring[0 + 1] = Advance(rd.wrap, rd.head, 1 - 1)
    <2>1. 1 \in 1 .. Len(rd.ring) - 0
        BY <1>3
    <2> QED BY <1>1, <2>1 DEF ReadsOn
<1>5. 0 + 1 = 1 /\ 1 - 1 = 0
    OBVIOUS
<1>6. Advance(rd.wrap, rd.head, 0) = rd.head
    BY <1>2, AdvanceIs
<1> QED BY <1>4, <1>5, <1>6

\* The ring's front is the frame the reader takes it for, of every ring, kept
\* part and chunk, of any number of refills, edits, locates and loop changes that
\* cross the owner's turns and pushes: an epoch is never taken for another one as
\* long as the request ring holds fewer than half of them (stream.rs:341-369,
\* fed.rs:157-197).
THEOREM HeadIsRead == Spec => []HeadIsRing
<1>1. Init => StreamInv
    BY StartsSound
<1>2. StreamInv /\ [Next]_vars => StreamInv'
    BY StepSound
<1>3. StreamInv => HeadIsRing
    BY HeadIsFirst
<1> QED BY <1>1, <1>2, <1>3, PTL DEF Spec
=============================================================================
