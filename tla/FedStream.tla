----------------------------- MODULE FedStream -------------------------------
(***************************************************************************)
(* A fed buffer played at the transport's position: the reader of the      *)
(* audio thread (src/dsp/stream.rs), the owner's thread that renders into  *)
(* its ring (src/crates/clausters-app-engine/src/take.rs) and the two      *)
(* rings between them (src/dsp/fed.rs), with the part of the engine that   *)
(* drives the reader: the position, its loop, and the loop changes and     *)
(* cues that wait.                                                         *)
(*                                                                         *)
(* One mono stream of one transport, played in real time from the stream's *)
(* first frame on (offset and start 0, so a frame of the list is a         *)
(* position of the transport).  A sample is the frame it was rendered      *)
(* from, so what is heard can be compared with the place the transport     *)
(* plays; an edit of the list shows as its generation alone.  The measures *)
(* pushed and popped are kept as the samples pushed since a boundary, all  *)
(* they are used for.  How two readings are mixed over a crossfade, and    *)
(* what is counted as starved, is left out: where one takes over from the  *)
(* other is not.                                                           *)
(***************************************************************************)
EXTENDS Integers, Sequences, SequencesExt, FiniteSets

CONSTANTS
    Frames,         \* the frames of every list
    Ring,           \* RING_SAMPLES
    Kept,           \* KEPT: how much of an old reading is kept
    Cross,          \* CROSS: the length of a crossfade
    LandLead,       \* LAND_LEAD: what a replacing reading holds to land
    CueLead,        \* CUE_LEAD: what a cued reader holds
    FirstChunk,     \* the owner's first render of a refill, and the others
    Chunk,
    Requests,       \* the places of the request ring
    Epochs,         \* 2^16 in the code
    Block,          \* samples of a block
    CueWait,        \* blocks a loop change or a cue waits for its readers
    Loops,          \* the loops a client sets
    Places,         \* the positions a client locates to
    MaxCommands,    \* what clients and the application ask for in one behaviour
    None

ASSUME StreamAssumption ==
    /\ {Frames, Ring, Kept, Cross, LandLead, CueLead, FirstChunk, Chunk, Requests,
        Block} \subseteq Nat \ {0}
    /\ Epochs \in Nat /\ Epochs > 2 * Requests + 1
    /\ CueWait \in Nat /\ MaxCommands \in Nat
    /\ Loops \subseteq [from: Nat, to: Nat]
    /\ \A l \in Loops : l.from < l.to /\ l.to <= Frames
    /\ Places \subseteq 0 .. Frames - 1
    /\ None \notin Loops \cup Nat \cup [epoch : Nat, since : Nat]

VARIABLES
    transport,      \* position, loop, loop change and cue waiting, and the block
    rd,             \* the reader, with the two rings it shares
    owner,          \* the owner's thread
    ack,            \* the epoch published, and the samples pushed past its boundary
    generation,     \* how often the list was edited
    heard,          \* the frame of the last sample, None for a silence
    owed,           \* frames a ready reader still owes without a silence
    commands

vars == <<transport, rd, owner, ack, generation, heard, owed, commands>>

AtMost(a, b) == IF a < b THEN a ELSE b
Less(a, b) == IF a > b THEN a - b ELSE 0

(***************************************************************************)
(* A loop in the list's frames (ListWrap).                                 *)
(***************************************************************************)

\* The frame `by` frames after `frame`: one already past the loop runs on.
Advance(wrap, frame, by) ==
    IF wrap # None /\ frame < wrap.to /\ frame + by >= wrap.to
    THEN wrap.from + ((frame + by - wrap.to) % (wrap.to - wrap.from))
    ELSE frame + by

\* The frames from `frame` to the wrap, or None when no wrap is ahead.
Before(wrap, frame) ==
    IF wrap # None /\ frame < wrap.to THEN wrap.to - frame ELSE None

\* How far two readings from `frame` read alike, or None when they never part.
Agree(old, new, frame) ==
    LET a == Before(old, frame)
        b == Before(new, frame)
    IN  IF old = new THEN None
        ELSE IF a = None THEN b
        ELSE IF b = None THEN a
        ELSE AtMost(a, b)

(***************************************************************************)
(* The reader's steps, on a record of its state: the ring's front is where *)
(* it reads, the request ring's back is where it asks.                     *)
(***************************************************************************)

CanAsk(r) == Len(r.inbox) < Requests

\* refill: a request under a new epoch; nothing changes when the ring is full.
Refill(r, frame) ==
    IF ~CanAsk(r) THEN [r EXCEPT !.refused = TRUE]
    ELSE LET e == (r.epoch + 1) % Epochs
         IN  [r EXCEPT !.inbox = Append(@, [frame |-> frame, epoch |-> e, wrap |-> r.wrap]),
                       !.epoch = e, !.pending = frame, !.head = None, !.refused = FALSE]

\* A mistake: whatever the owner published last is taken for the refill asked for.
CollectAny(r) ==
    IF r.pending = None THEN r
    ELSE [r EXCEPT !.ring = SubSeq(@, 1 + Less(Len(@), ack.since), Len(@)),
                   !.pending = None, !.head = r.pending]

\* collect: once the epoch asked for is published, everything before its
\* boundary goes and the head is the frame asked for.
Collect(r) ==
    IF r.pending = None \/ ack.epoch # r.epoch THEN r
    ELSE [r EXCEPT !.ring = SubSeq(@, 1 + Less(Len(@), ack.since), Len(@)),
                   !.pending = None, !.head = r.pending]

\* skip: `n` frames at the head thrown away, as many as are there.
Skip(r, n) ==
    LET k == AtMost(n, Len(r.ring))
    IN  [r EXCEPT !.ring = SubSeq(@, k + 1, Len(@)),
                  !.head = IF @ = None THEN None ELSE Advance(r.wrap, @, k)]

Discard(r) == [r EXCEPT !.ring = <<>>]

\* keep_outgoing: the next frames of the reading in hand are kept aside, right
\* up to where the two readings part, and the ring is emptied.
KeepOutgoing(r, frame, agree) ==
    LET s == IF r.head # None /\ r.head < frame THEN Skip(r, frame - r.head) ELSE r
        n == AtMost(Len(s.ring), Kept)
        kept == [next |-> SubSeq(s.ring, 1, n),
                 at |-> IF agree = None THEN n ELSE AtMost(agree, n),
                 splice |-> FALSE, wrap |-> s.wrap, frame |-> frame]
    IN  Discard(IF n = 0 THEN s ELSE [s EXCEPT !.outgoing = kept])

\* kept_reads: how many of the kept frames of a loop change read the loop asked.
KeptReads(o, asked) ==
    IF o = None \/ ~o.splice THEN 0
    ELSE LET a == Agree(o.wrap, asked, o.frame)
         IN  IF a = None THEN Len(o.next) ELSE AtMost(a, Len(o.next))

\* keep_in_force: what the loop in force plays from here -- the kept frames to
\* their splice and the ring after it -- becomes the kept frames.
KeepInForce(r, frame) ==
    LET o == r.outgoing
        spliced == Advance(r.wrap, frame, o.at)
        n == AtMost(Len(r.ring), Less(Kept, o.at))
        next == SubSeq(o.next, 1, o.at) \o SubSeq(r.ring, 1, n)
    IN  IF \/ ~o.splice \/ o.frame # frame \/ r.applied # r.wrap
           \/ r.pending # None \/ r.head # spliced
        THEN r
        ELSE [r EXCEPT !.ring = SubSeq(@, n + 1, Len(@)),
                       !.head = Advance(r.wrap, spliced, n),
                       !.outgoing = [next |-> next, at |-> Len(next), splice |-> TRUE,
                                     wrap |-> r.wrap, frame |-> frame]]

\* The next kept frame is played.
PlayKept(r) ==
    [r EXCEPT !.outgoing.next = Tail(@), !.outgoing.at = Less(@, 1),
              !.outgoing.frame = Advance(r.outgoing.wrap, @, 1)]

\* At the splice and the loop read there is not in place: the kept frames play on
\* past it, and the old reading is read again from their end.
PlayOn(r, frame) ==
    LET o == r.outgoing
    IN  Refill([Discard(r) EXCEPT !.wrap = o.wrap, !.outgoing.at = Len(o.next)],
               Advance(o.wrap, frame, Len(o.next)))

\* take_outgoing: the reader after the kept frames gave their sample, or with
\* no kept frames any more when the ring is to give it.
TakeOutgoing(r, frame) ==
    LET o == r.outgoing
        left == Len(o.next)
        holds == Len(r.ring)
        behind == IF r.head = None THEN 0 ELSE Less(frame, r.head)
        landed == /\ r.pending = None /\ r.head # None
                  /\ \/ holds >= behind + Cross + LandLead
                     \/ holds >= behind + Cross /\ left <= Cross
        atSplice == o.splice /\ o.at = 0
        playsOn == atSplice /\ r.applied # r.wrap /\ r.applied = o.wrap /\ left > 0
        s == IF playsOn THEN PlayOn(r, frame) ELSE r
        apart == o.frame # frame /\ s.outgoing.at > 0
        over == \/ apart
                \/ atSplice /\ ~playsOn
                \/ ~o.splice /\ (landed \/ left = 0)
    IN  IF over THEN [s EXCEPT !.outgoing = None] ELSE PlayKept(s)

\* take, where the ring gives the sample: a refill is waited for, asked for, or
\* what came late is skipped up to the frame; none of them is a sample.
TakeRing(r, frame) ==
    LET near == r.head <= frame /\ frame - r.head <= Ring
        s == Skip(r, frame - r.head)
    IN  IF r.pending # None
        THEN [r |-> r, v |-> None]
        ELSE IF r.head = None \/ ~near
        THEN [r |-> Refill(r, frame), v |-> None]
        ELSE IF s.head # frame \/ s.ring = <<>>
        THEN [r |-> s, v |-> None]
        ELSE [r |-> [s EXCEPT !.ring = Tail(@), !.head = Advance(s.wrap, frame, 1)],
              v |-> Head(s.ring)]

Take(r, frame) ==
    LET s == IF r.outgoing = None THEN r ELSE TakeOutgoing(r, frame)
    IN  IF s.outgoing = None THEN TakeRing(s, frame)
        ELSE [r |-> s, v |-> Head(r.outgoing.next)]

(***************************************************************************)
(* A slice of the reader begins (play): the refill in flight lands, and    *)
(* what changed -- the list or the loop -- is asked for.                   *)
(***************************************************************************)

\* The loop the reader is to read: the one waiting for it, else the one in force.
Asked(t) == IF t.change = None THEN t.loop ELSE t.change.span

\* What a change does with the reading in hand: kept aside while it plays on,
\* kept still, or nothing.  The frame the new reading is asked for from is `from`.
Replace(r, frame, wrap, rewrapped, playing) ==
    LET k == KeepOutgoing(r, frame, Agree(r.wrap, wrap, frame))
        q == Discard(IF rewrapped /\ KeptReads(r.outgoing, wrap) < LandLead
                     THEN KeepInForce(r, frame) ELSE r)
        agree == Agree(q.outgoing.wrap, wrap, frame)
        left == IF agree = None THEN Len(q.outgoing.next) ELSE AtMost(agree, Len(q.outgoing.next))
    IN  IF playing /\ rewrapped /\ k.outgoing # None
        THEN [r |-> [k EXCEPT !.outgoing.splice = TRUE],
              from |-> Advance(wrap, frame, k.outgoing.at)]
        ELSE IF playing
        THEN [r |-> k, from |-> frame]
        ELSE IF r.outgoing = None
        THEN [r |-> r, from |-> frame]
        ELSE IF rewrapped /\ q.outgoing.splice
        THEN [r |-> [q EXCEPT !.outgoing.at = left], from |-> Advance(wrap, frame, left)]
        ELSE [r |-> [q EXCEPT !.outgoing.splice = FALSE], from |-> frame]

\* The change asked for: refused by a full request ring, it is seen again by
\* the next slice.
AskAnew(r, wrap, from) ==
    IF CanAsk(r)
    THEN [Refill([r EXCEPT !.wrap = wrap], from) EXCEPT !.sent = TRUE, !.gen = generation]
    ELSE [r EXCEPT !.refused = TRUE]

\* A change of the list or of the loop asked for, of a reader that plays on or not.
Change(r, frame, wrap, playsOn) ==
    LET rewrapped == r.sent /\ r.gen = generation
        playing == playsOn /\ r.head # None /\ r.pending = None /\ r.outgoing = None
        p == Replace(r, frame, wrap, rewrapped, playing)
    IN  AskAnew(p.r, wrap, p.from)

\* Standing: a reading playing out is done with, and the reader is made ready
\* at the frame it stands on.
Stand(r) ==
    LET s == [r EXCEPT !.outgoing = None]
    IN  IF s.standing = None \/ s.standing \in {s.head, s.pending} THEN s
        ELSE Refill(s, s.standing)

\* What the reader takes note of as a slice of `n` samples begins.
Noting(r, t, n) ==
    [r EXCEPT !.applied = t.loop,
              !.standing = IF t.rolling \/ t.pos >= Frames THEN None ELSE t.pos,
              !.gen = IF r.sent THEN @ ELSE generation,
              !.continues = IF t.rolling THEN t.pos + n ELSE None]

Changed(r, t) == ~r.sent \/ Asked(t) # r.wrap \/ r.gen # generation

\* The reader after a slice of `n` samples began.  It is silent for one that
\* finds a change and has nothing kept to play.
Begin(r, t, n) ==
    IF Changed(r, t)
    THEN Change(Noting(r, t, n), IF t.pos < Frames THEN t.pos ELSE 0, Asked(t),
                t.rolling /\ r.continues = t.pos)
    ELSE Noting(r, t, n)

Muted(before, t, after) == Changed(before, t) /\ after.outgoing = None

\* The reader after a block of a transport that stands.
Standing(r, t) ==
    LET s == Begin(r, t, 0)
    IN  IF Muted(r, t, s) THEN s ELSE Stand(s)

\* holds and looped: whether the reader has what a cue or a loop change waits for.
Holds(r, frame) ==
    LET ahead == IF Before(r.wrap, frame) # None THEN CueLead ELSE AtMost(Frames - frame, CueLead)
    IN  /\ r.pending = None /\ r.outgoing = None /\ r.head = frame
        /\ Len(r.ring) >= AtMost(ahead, Ring)

Cued(r) == r.standing = None \/ Holds(r, r.standing)

\* A mistake: kept frames past the splice, or of another list, count too.
LoopedPast(r, asked) ==
    LET kept == IF r.outgoing = None THEN 0 ELSE Len(r.outgoing.next)
        ring == IF r.pending = None /\ r.head # None THEN Len(r.ring) ELSE 0
    IN  IF asked # r.wrap THEN KeptReads(r.outgoing, asked) >= LandLead
        ELSE ring + kept >= LandLead

Looped(r, asked) ==
    LET o == r.outgoing
        kept == IF o # None /\ o.splice THEN o.at ELSE 0
        ring == IF r.pending = None /\ r.head # None THEN Len(r.ring) ELSE 0
        ahead == IF r.wrap = None /\ r.head # None
                 THEN AtMost(Less(Frames, r.head), LandLead) ELSE LandLead
    IN  IF asked # r.wrap THEN KeptReads(o, asked) >= LandLead
        ELSE ring + kept >= AtMost(ahead, LandLead) /\ ring + kept >= 1

(***************************************************************************)
(* The audio thread: the block, its cut at the loop's end, and the         *)
(* samples.                                                                *)
(***************************************************************************)

\* A loop change waiting for the reader may be put in place.
LoopCueReady ==
    /\ transport.change # None
    /\ \/ ~transport.rolling \/ transport.change.waited >= CueWait
       \/ rd.sent => Looped(rd, transport.change.span)

\* What the reader plays next: the kept frames, and its ring.
InHand == (IF rd.outgoing = None THEN <<>> ELSE rd.outgoing.next) \o rd.ring

\* Kept frames come before the reader's head, and looped counts them with the
\* ring as if they were after it: near the list's end it may hold too few.
CountsTwice ==
    /\ rd.wrap = None /\ rd.outgoing # None
    /\ Len(InHand) < AtMost(LandLead, Frames - transport.pos)

\* The reader itself said so, of a transport that goes on, with the frame it is
\* at the next in hand and neither an edit unheard of nor a refill refused: from
\* there on it owes what it said it holds.  A loop it does not read yet, put in
\* place on its own end, sends the position back at once, and what it said is
\* about frames past it.
ReaderSaidSo ==
    /\ transport.rolling /\ heard # None /\ rd.continues = transport.pos
    /\ ~rd.refused /\ rd.sent /\ rd.gen = generation /\ Looped(rd, transport.change.span)
    /\ InHand # <<>> /\ Head(InHand) = transport.pos /\ ~CountsTwice
    /\ rd.outgoing # None => rd.outgoing.splice
    /\ transport.change.span \in {rd.wrap, None} \/ transport.change.span.to # transport.pos

HeadsOn == transport.change.span = None \/ transport.change.span.to = transport.pos

PutLoop(t, span) == [t EXCEPT !.loop = span, !.change = None]

\* The start of a block, of a transport before the list's end, where the model
\* stops (land_loop_cues): a change that is ready is put in place.
StartBlock ==
    /\ transport.rolling /\ transport.left = None /\ transport.pos < Frames
    /\ LET t == [transport EXCEPT !.left = Block]
       IN  IF LoopCueReady
           THEN /\ transport' = PutLoop(t, t.change.span)
                /\ owed' = IF ReaderSaidSo THEN LandLead ELSE owed
           ELSE /\ transport' = IF t.change = None THEN t
                                ELSE [t EXCEPT !.change.waited = @ + 1]
                /\ UNCHANGED owed
    /\ UNCHANGED <<rd, owner, ack, generation, heard, commands>>

AtEnd(t) == t.loop # None /\ t.pos = t.loop.to

\* The block is over once its samples are, and a wrap on its end with them.
Settle(t) == IF t.left = 0 /\ ~AtEnd(t) THEN [t EXCEPT !.left = None] ELSE t

\* The wrap (cross_edge), which lands a change that is ready first: the position
\* goes to the start of the loop then in force, or straight on.
Wrap ==
    /\ transport.rolling /\ transport.left # None /\ transport.slice = 0 /\ AtEnd(transport)
    /\ LET t == IF LoopCueReady THEN PutLoop(transport, transport.change.span) ELSE transport
       IN  transport' = Settle([t EXCEPT !.pos = IF t.loop = None THEN @ ELSE t.loop.from])
    /\ owed' = IF LoopCueReady /\ ReaderSaidSo /\ HeadsOn THEN LandLead ELSE owed
    /\ UNCHANGED <<rd, owner, ack, generation, heard, commands>>

\* A slice: what is left of the block, cut at the loop's end.
Slice ==
    /\ transport.rolling /\ transport.left \notin {None, 0} /\ transport.slice = 0
    /\ ~AtEnd(transport)
    /\ LET toEnd == Before(transport.loop, transport.pos)
           n == IF toEnd = None THEN transport.left ELSE AtMost(toEnd, transport.left)
           c == Collect(rd)
       IN  /\ rd' = Begin(c, transport, n)
           /\ transport' = [transport EXCEPT !.slice = n, !.mute = Muted(c, transport, rd')]
    /\ UNCHANGED <<owner, ack, generation, heard, owed, commands>>

\* One sample of the reader, and the position moves on.
Sample ==
    /\ transport.slice > 0
    /\ LET x == IF transport.mute \/ transport.pos >= Frames THEN [r |-> rd, v |-> None]
                ELSE Take(rd, transport.pos)
       IN  rd' = x.r /\ heard' = x.v
    /\ transport' = Settle([transport EXCEPT !.pos = @ + 1, !.slice = @ - 1, !.left = @ - 1,
                                                 !.mute = @ /\ transport.slice > 1])
    /\ owed' = Less(owed, 1)
    /\ UNCHANGED <<owner, ack, generation, commands>>

\* A block of a stopped transport: a loop change lands, and a cue runs the
\* reader standing (cue_transports) until it is ready or has waited enough.  On
\* the loop's own end a play wraps at once, away from what the reader holds.
Landed(t) == IF t.change = None THEN t ELSE PutLoop(t, t.change.span)

LandStanding ==
    /\ ~transport.rolling /\ transport.change # None /\ transport.cue = None
    /\ transport' = Landed(transport)
    /\ UNCHANGED <<rd, owner, ack, generation, heard, owed, commands>>

CueBlock ==
    /\ ~transport.rolling /\ transport.cue # None
    /\ rd' = Standing(Collect(rd), Landed(transport))
    /\ transport' = [Landed(transport) EXCEPT
                        !.cue = IF Cued(rd') \/ @ >= CueWait THEN None ELSE @ + 1]
    /\ owed' = IF Cued(rd') /\ rd'.standing # None /\ ~rd'.refused /\ ~AtEnd(transport')
               THEN AtMost(AtMost(CueLead, Ring), Frames - transport.pos) ELSE 0
    /\ UNCHANGED <<owner, ack, generation, heard, commands>>

(***************************************************************************)
(* The transport's commands, at the start of a block.                      *)
(***************************************************************************)

Commanded ==
    /\ transport.left = None /\ commands > 0
    /\ commands' = commands - 1
    /\ UNCHANGED <<rd, owner, ack, generation, heard>>

Play ==
    /\ Commanded /\ ~transport.rolling
    /\ transport' = [transport EXCEPT !.rolling = TRUE, !.cue = None]
    /\ UNCHANGED owed

Stop ==
    /\ Commanded /\ transport.rolling
    /\ transport' = [transport EXCEPT !.rolling = FALSE]
    /\ owed' = 0

Locate(p) ==
    /\ Commanded /\ p # transport.pos
    /\ transport' = [transport EXCEPT !.pos = p]
    /\ owed' = 0

\* A loop changed while a reader plays waits for it; anything else is put in
\* place at once.
Loop(span) ==
    /\ Commanded /\ span # Asked(transport)
    /\ transport' = IF transport.rolling /\ transport.loop # span /\ rd.sent
                    THEN [transport EXCEPT !.change = [span |-> span, waited |-> 0]]
                    ELSE PutLoop(transport, span)
    /\ owed' = 0

Cue ==
    /\ Commanded /\ ~transport.rolling
    /\ transport' = [transport EXCEPT !.cue = 0]
    /\ UNCHANGED owed

(***************************************************************************)
(* The application's edit, which hands the list over and then says so, and *)
(* the owner's thread, which serves its one stream turn after turn.        *)
(***************************************************************************)

Edit ==
    /\ commands > 0 /\ commands' = commands - 1
    /\ generation' = generation + 1 /\ owed' = 0
    /\ UNCHANGED <<transport, rd, owner, ack, heard>>

\* What the owner would render now: nothing with no request yet, past the list's
\* end, or without room; a read stops at the loop's end and goes on at its start.
Chunks ==
    LET want == IF owner.first THEN FirstChunk ELSE Chunk
        room == Ring - Len(rd.ring)
        toEnd == Before(owner.wrap, owner.next)
        left == IF toEnd = None THEN Frames - owner.next ELSE toEnd
        n == AtMost(AtMost(want, room), left)
    IN  IF \/ owner.next = None \/ owner.next >= Frames
           \/ ~owner.first /\ room < want /\ left > room
        THEN 0 ELSE n

\* A mistake: one request a turn is the one that counts, the oldest.
LatestFirst ==
    /\ owner.pc = "turn" /\ (rd.inbox # <<>> \/ Chunks > 0)
    /\ owner' = IF rd.inbox = <<>> THEN [owner EXCEPT !.pc = "render"]
                ELSE LET q == Head(rd.inbox)
                     IN  [owner EXCEPT !.pc = "render", !.next = q.frame, !.wrap = q.wrap,
                                       !.first = TRUE, !.due = [epoch |-> q.epoch, since |-> 0]]
    /\ rd' = [rd EXCEPT !.inbox = <<>>]
    /\ UNCHANGED <<transport, ack, generation, heard, owed, commands>>

\* latest: every request is taken and the last one counts; its boundary is here.
Latest ==
    /\ owner.pc = "turn" /\ (rd.inbox # <<>> \/ Chunks > 0)
    /\ owner' = IF rd.inbox = <<>> THEN [owner EXCEPT !.pc = "render"]
                ELSE LET q == Last(rd.inbox)
                     IN  [owner EXCEPT !.pc = "render", !.next = q.frame, !.wrap = q.wrap,
                                       !.first = TRUE, !.due = [epoch |-> q.epoch, since |-> 0]]
    /\ rd' = [rd EXCEPT !.inbox = <<>>]
    /\ UNCHANGED <<transport, ack, generation, heard, owed, commands>>

Render ==
    /\ owner.pc = "render"
    /\ LET n == Chunks
           more(b) == IF b = None THEN None ELSE [b EXCEPT !.since = AtMost(@ + n, Ring)]
           chunk == [i \in 1 .. n |-> owner.next + i - 1]
           pc == IF owner.due = None THEN "turn" ELSE "publish"
       IN  IF n = 0
           THEN owner' = [owner EXCEPT !.pc = pc] /\ UNCHANGED <<rd, ack>>
           ELSE /\ rd' = [rd EXCEPT !.ring = @ \o chunk]
                /\ owner' = [owner EXCEPT !.pc = pc, !.first = FALSE, !.due = more(@),
                                          !.next = Advance(owner.wrap, @, n)]
                /\ ack' = more(ack)
    /\ UNCHANGED <<transport, generation, heard, owed, commands>>

\* publish: the refill taken last is told, once; without one it does nothing.
Publish ==
    /\ owner.pc = "publish"
    /\ owner' = [owner EXCEPT !.pc = "turn", !.due = None]
    /\ ack' = owner.due
    /\ UNCHANGED <<transport, rd, generation, heard, owed, commands>>

Init ==
    /\ \E rolling \in BOOLEAN :
       transport = [pos |-> 0, rolling |-> rolling, loop |-> None, change |-> None,
                    cue |-> None, left |-> None, slice |-> 0, mute |-> FALSE]
    /\ rd = [ring |-> <<>>, inbox |-> <<>>, epoch |-> 0, pending |-> None, head |-> None,
             outgoing |-> None, continues |-> None, applied |-> None, wrap |-> None,
             standing |-> None, sent |-> FALSE, gen |-> 0, refused |-> FALSE]
    /\ owner = [pc |-> "turn", next |-> None, wrap |-> None,
                first |-> FALSE, due |-> None]
    /\ ack = [epoch |-> 0, since |-> 0]
    /\ generation = 0
    /\ heard = None /\ owed = 0 /\ commands = MaxCommands

Audio == StartBlock \/ Wrap \/ Slice \/ Sample \/ LandStanding \/ CueBlock
Command == Play \/ Stop \/ Cue \/ (\E p \in Places : Locate(p))
              \/ (\E span \in Loops \cup {None} : Loop(span))
Serve == Latest \/ Render \/ Publish

Next == Audio \/ Command \/ Edit \/ Serve

AudioCan ==
    \/ transport.rolling /\ transport.left = None /\ transport.pos < Frames
    \/ transport.rolling /\ transport.left # None
    \/ ~transport.rolling /\ (transport.change # None \/ transport.cue # None)
ServeCan == owner.pc # "turn" \/ rd.inbox # <<>> \/ Chunks > 0

\* The audio thread runs block after block, and the owner's thread turn after
\* turn: parked, it looks again when it is woken or its park has timed out.
Spec ==
    /\ Init /\ [][Next]_vars
    /\ []<>~AudioCan \/ []<><<Audio>>_vars
    /\ []<>~ServeCan \/ []<><<Serve>>_vars

(***************************************************************************)
(* What the reader promises.                                               *)
(***************************************************************************)

\* The ring's front is the frame the reader takes it for, however refills, edits,
\* loop changes and locates cross the owner's pushes: what was pushed before a
\* refill is told from what was pushed for it by its epoch and boundary alone
\* (stream.rs:341-369, fed.rs:157-197).  A refill refused by the full request ring
\* leaves the owner rendering another loop than the reader has: not before it is
\* asked again.
HeadIsRing ==
    rd.pending = None /\ rd.head # None /\ rd.ring # <<>> /\ ~rd.refused => rd.ring[1] = rd.head

\* A reader that said it holds what a loop change or a cue waits for (stream.rs:
\* 397-407, 635-684) plays on from there, once the change is in place, frame by
\* frame what the transport is at, without a silence (engine.rs:1497-1535).
ReadyIsHeard ==
    [][Sample /\ owed > 0 /\ transport.pos < Frames => heard' = transport.pos]_vars

\* A refill in flight lands, while the transport plays: no request is left
\* unanswered however many overtake each other in the request ring.
RefillsLand ==
    rd.pending # None ~> rd.pending = None \/ ~transport.rolling \/ transport.pos >= Frames
=============================================================================
