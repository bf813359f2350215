------------------------------- MODULE Engine --------------------------------
(***************************************************************************)
(* The audio thread's block loop (src/src/server/engine.rs): Engine::        *)
(* process_block drains the command FIFO at the block's start, then cuts the *)
(* block at whatever falls due next -- a timed bundle of the device queue or *)
(* of a rolling transport's queue, an edge of a transport (its loop's end,   *)
(* its end mark, the freeze a ramped stop ends in), or an event-lane entry   *)
(* its position reaches -- processing the node tree in slices between.       *)
(*                                                                          *)
(* One behaviour is the audio thread alone: its steps are sequential, and    *)
(* what is nondeterministic is what the network thread sends it and when.    *)
(* A step is one command applied, one slice, one edge crossed, one bundle    *)
(* taken or closed, one lane entry fired, or a block boundary.               *)
(*                                                                          *)
(* Left out: the node tree itself (a governed group is its paused flag), the *)
(* samples, the level of a fade (a ramped stop lasts any length the level    *)
(* could give it), tempo, taps, meters, and the cue of a stopped transport,  *)
(* which changes nothing here.                                               *)
(***************************************************************************)
EXTENDS ClockAxis, Integers, Sequences, SequencesExt

CONSTANTS
    Transports,     \* transport ids, 0 .. n-1
    Groups,         \* groups a transport can govern
    Lanes,          \* event lanes
    LaneOf,         \* the transport each lane is on
    Block,          \* BLOCK_SIZE
    SchedCap,       \* SCHED_CAPACITY, per queue
    LaneCap,        \* LANE_CAPACITY
    CueWait,        \* blocks a loop change waits for its readers
    Readers,        \* whether governed groups hold disk readers
    Immediate,      \* simple commands the network thread may send
    Bundles,        \* command sequences it may schedule
    Times,          \* stamps it may schedule them on
    Entries,        \* lane entries it may feed
    MaxCommands,    \* bound: commands sent in a behaviour
    Horizon,        \* bound: device samples played
    None

Mark == [end: Nat, back: Nat \union {None}]
Span == {s \in [start: Nat, end: Nat] : s.start < s.end}

Command ==
    [op: {"run"}, k: Transports, on: BOOLEAN]
    \union [op: {"locate"}, k: Transports, position: Nat]
    \union [op: {"loop"}, k: Transports, span: Span \union {None}]
    \union [op: {"end"}, k: Transports, mark: Mark \union {None}]
    \union [op: {"fade"}, k: Transports, samples: Nat]
    \union [op: {"group"}, k: Transports, id: Groups \union {None}]
    \union [op: {"touch"}, group: Groups]
    \union [op: {"clear_sched"}, only: Transports \union {None}]
    \union [op: {"clear_lane"}, lane: Lanes, release: BOOLEAN]

EntrySpec == [lane: Lanes, position: Nat, length: Nat,
              kind: {"synth", "node"}]

ASSUME EngineAssumption ==
    /\ Transports \subseteq Nat /\ IsFiniteSet(Transports)
    /\ LaneOf \in [Lanes -> Transports]
    /\ Block \in Nat \ {0} /\ Horizon \in Nat
    /\ SchedCap \in Nat /\ LaneCap \in Nat /\ CueWait \in Nat
    /\ MaxCommands \in Nat /\ Readers \in BOOLEAN
    /\ None \notin Nat /\ None \notin Groups
    /\ None \notin Span /\ None \notin Mark /\ None \notin Lanes
    /\ Immediate \subseteq Command
    /\ Bundles \subseteq Seq(Command)
    /\ Times \subseteq Nat
    /\ Entries \subseteq EntrySpec

VARIABLES
    now,            \* Engine::now, the block's first device sample
    cursor,         \* samples into the block
    stage,          \* "drain", "cut", or "bundle" while one is applied
    batch,          \* what is left of the bundle being applied
    sched,          \* the device queue
    rolling, frozenTotal, frozenFrom, anchor, looping, loopCue,
    endMark, fadeLen, stopping, ended, group,   \* TransportState, by transport
    tsched,         \* the transports' queues
    lanes,          \* the transports' lane queues
    paused,         \* governed groups the tree holds paused
    sounding,       \* lane notes that have started and not ended
    published,      \* clock and position the network thread reads
    sent,           \* commands sent so far
    rolled,         \* history: samples each transport processed rolling
    looped,         \* history: the position has stood inside the loop in force
    fired           \* history: the bundle taken last

running == <<rolling, frozenTotal, frozenFrom, stopping, ended>>
placing == <<anchor, looping, loopCue, endMark, fadeLen>>
queues  == <<sched, tsched, lanes>>
tree    == <<group, paused, sounding>>
history == <<rolled, looped, fired>>
block   == <<now, cursor, stage, batch>>
vars    == <<block, running, placing, queues, tree, published, sent, history>>
-----------------------------------------------------------------------------
(* Where a transport stands.  The history in a loop change that waits is     *)
(* whether the position was short of its end when it was asked for, and in a *)
(* stopping phase the mark it is to end on.                                  *)

Here == now + cursor                    \* Engine::device_here
BlockEnd == now + Block

At(k, device) == ToTransport(device, frozenTotal[k])     \* TransportState::at

\* The position a transport's readers are given at the cursor (view_of).
ViewPosition(k) == PositionAt(anchor[k], At(k, Here))

\* Where it stands by the samples it rolled (history): what it plays next.
Position(k) == PositionAt(anchor[k], rolled[k])

\* TransportState::reaching: the device sample position p is reached on, or
\* this one when it already has been.
DeviceReaching(k, p) ==
    LET here == At(k, Here) IN
    ToDevice(IF Ahead(anchor[k], p, here) THEN Reaching(anchor[k], p, here)
                                          ELSE here,
             frozenTotal[k])

Larger(a, b) == IF a > b THEN a ELSE b
-----------------------------------------------------------------------------
(* What cuts the block next (Engine::next_due).  Each source of cuts gives   *)
(* the set of what it has due; the next one is the earliest, and on the same *)
(* sample the device queue goes before a transport's, a queue before an      *)
(* edge, an edge before a lane, and a lower transport before a higher one.   *)

Cut(rank, k, edge, due) == [rank |-> rank, k |-> k, edge |-> edge, due |-> due]

DeviceCuts ==
    {Cut(0, 0, "bundle", Head(sched).time) : x \in IF sched = << >> THEN {} ELSE {1}}

TransportCuts ==
    {Cut(1, k, "bundle", ToDevice(Head(tsched[k]).time, frozenTotal[k])) :
        k \in {j \in Transports : rolling[j] /\ tsched[j] # << >>}}

\* TransportState::edge_due, as the set of the edges it has due.
RampStart(k) == SatSub(endMark[k].end, fadeLen[k])

\* A loop put in place on its own end wraps at once.
\* Mutant: only a loop's end that lies ahead wraps.
WrapsNever(k) == FALSE
WrapsNow(k) == ViewPosition(k) = looping[k].end

Edges(k) ==
    IF ~rolling[k] THEN {}
    ELSE IF stopping[k] # None
    THEN {Cut(2, k, "freeze", Larger(stopping[k].at, Here))}
    ELSE IF looping[k] # None
    THEN IF WrapsNow(k) \/ Ahead(anchor[k], looping[k].end, At(k, Here))
         THEN {Cut(2, k, "wrap", DeviceReaching(k, looping[k].end))}
         ELSE {}
    ELSE IF endMark[k] = None THEN {}
    ELSE IF fadeLen[k] = 0
    THEN {Cut(2, k, "end", DeviceReaching(k, endMark[k].end))}
    ELSE {Cut(2, k, "end_ramp", DeviceReaching(k, RampStart(k)))}

EdgeCuts == UNION {Edges(k) : k \in Transports}

\* The entries of a lane queue at or after where the transport stands; the
\* queue is sorted, so the first of them is the one due next.
LaneAhead(k) == {i \in DOMAIN lanes[k] : lanes[k][i].position >= ViewPosition(k)}
NextEntry(k) == CHOOSE i \in LaneAhead(k) : \A j \in LaneAhead(k) : i <= j
LaneCuts ==
    {Cut(3, k, "lane", DeviceReaching(k, lanes[k][NextEntry(k)].position)) :
        k \in {j \in Transports : rolling[j] /\ LaneAhead(j) # {}}}

\* A bundle or an entry on the block's end belongs to the next block; an edge
\* there belongs to this one.
InBlock(c) == c.due \in 0 .. (IF c.rank = 2 THEN BlockEnd ELSE BlockEnd - 1)

Cuts == {c \in DeviceCuts \union TransportCuts \union EdgeCuts \union LaneCuts :
           InBlock(c)}

Precedes(c, d) ==
    \/ c.due < d.due
    \/ c.due = d.due /\ c.rank < d.rank
    \/ c.due = d.due /\ c.rank = d.rank /\ c.k <= d.k

Due == CHOOSE c \in Cuts : \A d \in Cuts : Precedes(c, d)

\* What is due is acted on once the slices have brought the cursor to it; a
\* late bundle is due where the cursor stands.
DueNow(edge) == stage = "cut" /\ Cuts # {} /\ Due.due <= Here /\ Due.edge = edge
-----------------------------------------------------------------------------
(* Helpers the handlers share. *)

\* A sorted insert after equal stamps (partition_point, then Vec::insert).
\* Mutant: before equal stamps.
InsertFirst(queue, bundle) ==
    LET before == {i \in DOMAIN queue : queue[i].time < bundle.time}
    IN  InsertAt(queue, Cardinality(before) + 1, bundle)
Insert(queue, bundle) ==
    LET before == {i \in DOMAIN queue : queue[i].time <= bundle.time}
    IN  InsertAt(queue, Cardinality(before) + 1, bundle)

\* Mutant: one more than the queue was allocated for.
Overfull(queue) == Len(queue) > SchedCap
Full(queue) == Len(queue) >= SchedCap

IsRelease(bundle) == bundle.lane # None

\* Vec::retain: what is to be kept, in the order it was in.
Retain(queue, keep) ==
    LET kept[n \in 0 .. Len(queue)] ==
            IF n = 0 THEN << >>
            ELSE IF queue[n] \in keep THEN Append(kept[n - 1], queue[n])
            ELSE kept[n - 1]
    IN  kept[Len(queue)]

\* take_releases and run_released: the lane releases of a transport's queue
\* leave it and run, so the notes they end are over.
Releases(k, which) == {b \in Range(tsched[k]) : IsRelease(b) /\ b.lane \in which}
WithoutReleases(k, which) == Retain(tsched[k], Range(tsched[k]) \ Releases(k, which))
ReleasedNotes(k, which) == {b.note : b \in Releases(k, which)}

\* What a locate, a stop or a wrap of transport k does to its lanes' notes:
\* release_transport_notes ends those on a node, the queued releases the rest.
ReleaseNotes(k) ==
    /\ sounding' = {s \in sounding :
                        /\ s.note \notin ReleasedNotes(k, Lanes)
                        /\ ~(s.kind = "node" /\ LaneOf[s.lane] = k)}
    /\ tsched' = [tsched EXCEPT ![k] = WithoutReleases(k, Lanes)]

\* Tree::set_paused on the group transport k governs, if any.
PausedIf(k, on) ==
    IF group[k] = None THEN paused
    ELSE IF on THEN paused \union {group[k]} ELSE paused \ {group[k]}

\* Engine::put_loop: the position re-anchored where it stands.
\* Mutant: where it was anchored.
StaleAnchor(k) == Located(anchor[k].position, At(k, Here))
Reanchored(k) == Located(ViewPosition(k), At(k, Here))
PutLoop(k, span) ==
    /\ anchor' = [anchor EXCEPT ![k] = Reanchored(k)]
    /\ looping' = [looping EXCEPT ![k] = span]
    /\ looped' = [looped EXCEPT ![k] =
                    span # None /\ ViewPosition(k) <= span.end]

\* A jump to position p, anchored at the cursor (PositionAnchor::located).
\* Mutant: the position moves and its anchor on the clock does not.
JumpUnanchored(k, p) ==
    /\ anchor' = [anchor EXCEPT ![k].position = p]
    /\ looped' = [looped EXCEPT ![k] =
                    looping[k] # None /\ p <= looping[k].end]
JumpTo(k, p) ==
    /\ anchor' = [anchor EXCEPT ![k] = Located(p, At(k, Here))]
    /\ looped' = [looped EXCEPT ![k] =
                    looping[k] # None /\ p <= looping[k].end]
-----------------------------------------------------------------------------
(* The commands (Engine::apply).  Each is applied with the cursor at 0 as    *)
(* the FIFO is drained, or inside a bundle at the sample it is due on.       *)

Play(k) ==                              \* TransportRun, TransportState::play
    /\ stopping' = [stopping EXCEPT ![k] = None]
    /\ IF stopping[k] # None \/ rolling[k]
       THEN UNCHANGED <<rolling, paused>>
       ELSE /\ rolling' = [rolling EXCEPT ![k] = TRUE]
            /\ paused' = PausedIf(k, FALSE)
    /\ UNCHANGED <<frozenTotal, frozenFrom, ended, placing, queues, group,
                   sounding, looped>>

\* TransportRun with rolling false: the lanes' notes are released, then the
\* transport freezes (TransportState::stop with no ramp) ...
StopNow(k) ==
    /\ rolling[k] /\ stopping[k] = None /\ fadeLen[k] = 0
    /\ ReleaseNotes(k)
    /\ rolling' = [rolling EXCEPT ![k] = FALSE]
    /\ paused' = PausedIf(k, TRUE)
    /\ UNCHANGED <<stopping, frozenTotal, frozenFrom, ended, placing, sched,
                   lanes, group, looped>>

\* ... or its stopping phase begins, over as much of the ramp as the level
\* has left to fall.
StopRamp(k) ==
    /\ rolling[k] /\ stopping[k] = None /\ fadeLen[k] > 0
    /\ ReleaseNotes(k)
    /\ \E len \in 1 .. fadeLen[k] :
         stopping' = [stopping EXCEPT ![k] =
                        [at |-> Here + len, back |-> None, ended |-> FALSE, mark |-> None]]
    /\ UNCHANGED <<rolling, frozenTotal, frozenFrom, ended, placing, sched,
                   lanes, group, paused, looped>>

StopAgain(k) ==
    /\ ~rolling[k] \/ stopping[k] # None
    /\ UNCHANGED <<running, placing, queues, tree, looped>>

Locate(k, p) ==                         \* TransportLocate
    /\ IF stopping[k] # None
       THEN /\ stopping' = [stopping EXCEPT ![k].back = p]
            /\ UNCHANGED <<anchor, looped>>
       ELSE JumpTo(k, p) /\ UNCHANGED stopping
    /\ ReleaseNotes(k)
    /\ UNCHANGED <<rolling, frozenTotal, frozenFrom, ended, looping, loopCue,
                   endMark, fadeLen, sched, lanes, group, paused>>

\* TransportLoop: cued over disk readers while the transport rolls, put in
\* place at once otherwise.
SetLoop(k, span) ==
    /\ IF rolling[k] /\ looping[k] # span /\ group[k] # None /\ Readers
       THEN /\ loopCue' = [loopCue EXCEPT ![k] =
                            [span |-> span, waited |-> 0,
                             short |-> span # None /\ Position(k) < span.end]]
            /\ UNCHANGED <<anchor, looping, looped>>
       ELSE /\ loopCue' = [loopCue EXCEPT ![k] = None]
            /\ PutLoop(k, span)
    /\ UNCHANGED <<running, endMark, fadeLen, queues, tree>>

SetEnd(k, mark) ==                      \* TransportEnd
    /\ endMark' = [endMark EXCEPT ![k] = mark]
    /\ UNCHANGED <<running, anchor, looping, loopCue, fadeLen, queues, tree,
                   looped>>

SetFade(k, samples) ==                  \* TransportFade
    /\ fadeLen' = [fadeLen EXCEPT ![k] = samples]
    /\ UNCHANGED <<running, anchor, looping, loopCue, endMark, queues, tree,
                   looped>>

\* TransportGroup: thaw what it governed, freeze the new one if it is stopped.
\* A group has one transport (the network thread refuses a second).
\* Mutant: the new one runs on.
LeftRunning(k, id) == {}
Adopted(k, id) == IF id # None /\ ~rolling[k] THEN {id} ELSE {}
SetGroup(k, id) ==
    /\ \A j \in Transports \ {k} : group[j] # id \/ id = None
    /\ group' = [group EXCEPT ![k] = id]
    /\ paused' = (paused \ {group[k]}) \union Adopted(k, id)
    /\ UNCHANGED <<running, placing, queues, sounding, looped>>

\* Any command on a node under a governed group: its effect is the tree's.
Touch == UNCHANGED <<running, placing, queues, tree, looped>>

\* ClearSched: every queue, or one transport's; lane releases stay.
\* Mutant: they go too.
KeptNone(k) == << >>
Kept(k) == Retain(tsched[k], Releases(k, Lanes))
ClearSched(only) ==
    /\ sched' = IF only = None THEN << >> ELSE sched
    /\ tsched' = [k \in Transports |->
                    IF only \in {None, k} THEN Kept(k) ELSE tsched[k]]
    /\ UNCHANGED <<running, placing, lanes, tree, looped>>

\* ClearLane: its entries leave the queue and its notes on a node end; the
\* queued releases of the others run now when asked to.
ClearLane(lane, release) ==
    LET k == LaneOf[lane] IN
    /\ lanes' = [lanes EXCEPT ![k] =
                    Retain(lanes[k], {e \in Range(lanes[k]) : e.lane # lane})]
    /\ tsched' = IF release
                 THEN [tsched EXCEPT ![k] = WithoutReleases(k, {lane})]
                 ELSE tsched
    /\ sounding' = {s \in sounding :
                        /\ ~(release /\ s.note \in ReleasedNotes(k, {lane}))
                        /\ ~(s.kind = "node" /\ s.lane = lane)}
    /\ UNCHANGED <<running, placing, sched, group, paused, looped>>

Apply(c) ==
    \/ c.op = "run" /\ c.on /\ Play(c.k)
    \/ c.op = "run" /\ ~c.on /\ (StopNow(c.k) \/ StopRamp(c.k) \/ StopAgain(c.k))
    \/ c.op = "locate" /\ Locate(c.k, c.position)
    \/ c.op = "loop" /\ SetLoop(c.k, c.span)
    \/ c.op = "end" /\ SetEnd(c.k, c.mark)
    \/ c.op = "fade" /\ SetFade(c.k, c.samples)
    \/ c.op = "group" /\ SetGroup(c.k, c.id)
    \/ c.op = "touch" /\ Touch
    \/ c.op = "clear_sched" /\ ClearSched(c.only)
    \/ c.op = "clear_lane" /\ ClearLane(c.lane, c.release)

\* Engine::governing_transport: the first command on a governed node decides.
Governing(cmds) ==
    LET governed == {i \in DOMAIN cmds :
                        /\ cmds[i].op = "touch"
                        /\ \E k \in Transports : group[k] = cmds[i].group}
        first == CHOOSE i \in governed : \A j \in governed : i <= j
    IN  IF governed = {} THEN None
        ELSE CHOOSE k \in Transports : group[k] = cmds[first].group

\* Schedule: onto the device queue, or onto the transport's that governs what
\* it touches, converted to its clock here.  A full queue rejects it.  The
\* history of a bundle is when it was sent, on its own axis, and how far ahead.
Schedule(time, cmds) ==
    LET k == Governing(cmds)
        bundle(at, from) == [time |-> at, born |-> from, sent |-> sent,
                             lead |-> SatSub(time, Here),
                             cmds |-> cmds, lane |-> None, note |-> None]
    IN  /\ IF k = None
           THEN /\ sched' = IF Full(sched) THEN sched
                            ELSE Insert(sched, bundle(time, Here))
                /\ UNCHANGED tsched
           ELSE /\ tsched' =
                     IF Full(tsched[k]) THEN tsched
                     ELSE [tsched EXCEPT ![k] =
                             Insert(@, bundle(At(k, time), rolled[k]))]
                /\ UNCHANGED sched
        /\ UNCHANGED <<running, placing, lanes, tree, looped>>

\* EventLaneEntry: onto its transport's lane queue, or handed back when full.
FeedLane(spec) ==
    LET k == LaneOf[spec.lane]
        before == {i \in DOMAIN lanes[k] : lanes[k][i].position <= spec.position}
        entry == [position |-> spec.position, lane |-> spec.lane,
                  length |-> spec.length, kind |-> spec.kind, note |-> sent]
    IN  /\ lanes' = IF Len(lanes[k]) >= LaneCap THEN lanes
                    ELSE [lanes EXCEPT ![k] =
                            InsertAt(@, Cardinality(before) + 1, entry)]
        /\ UNCHANGED <<running, placing, sched, tsched, tree, looped>>
-----------------------------------------------------------------------------
(* The block loop (Engine::process_block). *)

\* Whether a loop change may, or must, be put in place now: its readers are
\* ready whenever their frames arrive, and are not waited for longer than
\* CueWait blocks, nor by a transport that is stopped or governs no reader.
\* Mutant: the wait has no end.
WaitsForReaders(k) == ~rolling[k] \/ group[k] = None \/ ~Readers
NeedNotWait(k) ==
    \/ ~rolling[k] \/ group[k] = None \/ ~Readers
    \/ loopCue[k].waited >= CueWait

\* One command taken off the FIFO and applied at the block's start.
Receive ==
    /\ stage = "drain" /\ sent < MaxCommands /\ now < Horizon
    /\ sent' = sent + 1
    /\ \/ \E c \in Immediate : Apply(c)
       \/ \E time \in Times, cmds \in Bundles : Schedule(time, cmds)
       \/ \E spec \in Entries : FeedLane(spec)
    /\ UNCHANGED <<block, published, rolled, fired>>

\* The FIFO is empty: the loop changes whose readers are ready land
\* (land_loop_cues), and every stopped transport's frozen run opens at 0.
BeginBlock ==
    /\ stage = "drain" /\ now < Horizon
    /\ stage' = "cut"
    /\ LET cued == {k \in Transports : loopCue[k] # None} IN
       \E ready \in SUBSET cued :
         /\ {k \in cued : NeedNotWait(k)} \subseteq ready
         /\ loopCue' = [k \in Transports |->
                          IF k \in ready THEN None
                          ELSE IF k \in cued THEN [loopCue[k] EXCEPT !.waited = @ + 1]
                          ELSE loopCue[k]]
         /\ looping' = [k \in Transports |->
                          IF k \in ready THEN loopCue[k].span ELSE looping[k]]
         /\ anchor' = [k \in Transports |->
                          IF k \in ready THEN Reanchored(k) ELSE anchor[k]]
         /\ looped' = [k \in Transports |->
                          IF k \in ready
                          THEN loopCue[k].span # None
                               /\ ViewPosition(k) <= loopCue[k].span.end
                          ELSE looped[k]]
    /\ frozenFrom' = [k \in Transports |-> IF rolling[k] THEN None ELSE 0]
    /\ UNCHANGED <<now, cursor, batch, rolling, frozenTotal, stopping, ended,
                   endMark, fadeLen, queues, tree, published, sent, rolled, fired>>

\* The node tree runs from the cursor to what is due next, or to the end.
SliceEnd == IF Cuts = {} THEN Block ELSE Due.due - now
Slice ==
    /\ stage = "cut" /\ cursor < SliceEnd
    /\ cursor' = SliceEnd
    /\ rolled' = [k \in Transports |->
                    rolled[k] + IF rolling[k] THEN SliceEnd - cursor ELSE 0]
    /\ looped' = [k \in Transports |->
                    /\ stopping[k] = None
                    /\ \/ looped[k]
                       \/ looping[k] # None /\ ViewPosition(k) <= looping[k].end]
    /\ UNCHANGED <<now, stage, batch, running, placing, queues, tree,
                   published, sent, fired>>

\* cross_edge, Edge::Wrap: back to the loop's start, the lanes' notes over ...
Wrap ==
    LET k == Due.k IN
    /\ DueNow("wrap")
    /\ loopCue[k] # None => ~NeedNotWait(k)
    /\ JumpTo(k, looping[k].start)
    /\ ReleaseNotes(k)
    /\ UNCHANGED <<block, running, looping, loopCue, endMark, fadeLen, sched,
                   lanes, group, paused, published, sent, rolled, fired>>

\* ... or a loop change lands first: the new loop's start, or straight on.
WrapLanding ==
    LET k == Due.k
        span == loopCue[k].span
    IN
    /\ DueNow("wrap") /\ loopCue[k] # None
    /\ loopCue' = [loopCue EXCEPT ![k] = None]
    /\ looping' = [looping EXCEPT ![k] = span]
    /\ IF span = None
       THEN /\ anchor' = [anchor EXCEPT ![k] = Reanchored(k)]
            /\ looped' = [looped EXCEPT ![k] = FALSE]
            /\ UNCHANGED <<sounding, tsched>>
       ELSE /\ anchor' = [anchor EXCEPT ![k] = Located(span.start, At(k, Here))]
            /\ looped' = [looped EXCEPT ![k] = TRUE]
            /\ ReleaseNotes(k)
    /\ UNCHANGED <<block, running, endMark, fadeLen, sched, lanes, group,
                   paused, published, sent, rolled, fired>>

\* Where in the block a stopped transport's frozen run began.
\* Mutant: at the block's start.
FrozenFromStart(k) == IF frozenFrom[k] = None THEN 0 ELSE frozenFrom[k]
FrozenSince(k) == IF frozenFrom[k] = None THEN cursor ELSE frozenFrom[k]

\* What freezing on this sample does, whether the end mark caused it or not.
FreezeHere(k, back, byMark) ==
    /\ rolling' = [rolling EXCEPT ![k] = FALSE]
    /\ stopping' = [stopping EXCEPT ![k] = None]
    /\ frozenFrom' = [frozenFrom EXCEPT ![k] = FrozenSince(k)]
    /\ ended' = [ended EXCEPT ![k] = @ \/ byMark]
    /\ paused' = PausedIf(k, TRUE)
    /\ IF back = None THEN UNCHANGED <<anchor, looped>> ELSE JumpTo(k, back)
    /\ ReleaseNotes(k)
    /\ UNCHANGED <<block, frozenTotal, looping, loopCue, endMark, fadeLen,
                   sched, lanes, group, published, sent, rolled, fired>>

\* Edge::Freeze: a stopping phase is over.
Freeze ==
    /\ DueNow("freeze")
    /\ FreezeHere(Due.k, stopping[Due.k].back, stopping[Due.k].ended)

\* The device sample the end mark is reached on.
MarkReached(k) == DeviceReaching(k, endMark[k].end)

\* Edge::End, and Edge::EndRamp with the mark already reached.
StopOnMark ==
    /\ \/ DueNow("end")
       \/ DueNow("end_ramp") /\ MarkReached(Due.k) <= Here
    /\ FreezeHere(Due.k, endMark[Due.k].back, TRUE)

\* Edge::EndRamp: the stopping phase that ends on the mark.
RampToMark ==
    LET k == Due.k
        at == MarkReached(k)
    IN
    /\ DueNow("end_ramp") /\ at > Here
    /\ stopping' = [stopping EXCEPT ![k] =
                      [at |-> at, back |-> endMark[k].back, ended |-> TRUE,
                       mark |-> endMark[k].end]]
    /\ UNCHANGED <<block, rolling, frozenTotal, frozenFrom, ended, placing,
                   queues, tree, published, sent, history>>

\* apply_due_bundle takes the head of a queue.  A lane's release is a bundle
\* that ends its note.
TakeDevice ==
    /\ DueNow("bundle") /\ Due.rank = 0
    /\ stage' = "bundle"
    /\ batch' = Head(sched).cmds
    /\ sched' = Tail(sched)
    /\ fired' = [born |-> Head(sched).born, lead |-> Head(sched).lead, at |-> Here]
    /\ UNCHANGED <<now, cursor, running, placing, tsched, lanes, tree,
                   published, sent, rolled, looped>>

TakeTransport ==
    LET k == Due.k
        bundle == Head(tsched[k])
    IN
    /\ DueNow("bundle") /\ Due.rank = 1
    /\ stage' = "bundle"
    /\ batch' = bundle.cmds
    /\ tsched' = [tsched EXCEPT ![k] = Tail(@)]
    /\ sounding' = {s \in sounding : s.note # bundle.note}
    /\ fired' = [born |-> bundle.born, lead |-> bundle.lead, at |-> rolled[k]]
    /\ UNCHANGED <<now, cursor, running, placing, sched, lanes, group, paused,
                   published, sent, rolled, looped>>

RunCommand ==
    /\ stage = "bundle" /\ batch # << >>
    /\ Apply(Head(batch))
    /\ batch' = Tail(batch)
    /\ UNCHANGED <<now, cursor, stage, published, sent, rolled, fired>>

\* The bundle is done: every frozen run it closed is credited to its sample,
\* and every one it opened begins there.
\* Mutant: a play inside a block credits nothing.
CreditNone(k) == 0
Credit(k) ==
    IF rolling[k] /\ frozenFrom[k] # None THEN cursor - frozenFrom[k] ELSE 0
CloseBundle ==
    /\ stage = "bundle" /\ batch = << >>
    /\ stage' = "cut"
    /\ frozenTotal' = [k \in Transports |-> frozenTotal[k] + Credit(k)]
    /\ frozenFrom' = [k \in Transports |->
                         IF rolling[k] THEN None ELSE FrozenSince(k)]
    /\ UNCHANGED <<now, cursor, batch, rolling, stopping, ended, placing,
                   queues, tree, published, sent, history>>

\* apply_due_lane: the note starts, and its release goes onto the transport's
\* queue a length later -- or it ends at once when that queue is full.
FireLane ==
    LET k == Due.k
        entry == lanes[k][NextEntry(k)]
        release == [time |-> At(k, Here) + entry.length, born |-> rolled[k],
                    sent |-> sent, lead |-> entry.length, cmds |-> << >>, lane |-> entry.lane,
                    note |-> entry.note]
    IN
    /\ DueNow("lane")
    /\ lanes' = [lanes EXCEPT ![k] = RemoveAt(@, NextEntry(k))]
    /\ IF ~Full(tsched[k])
       THEN /\ tsched' = [tsched EXCEPT ![k] = Insert(@, release)]
            /\ sounding' = sounding \union
                 {[note |-> entry.note, lane |-> entry.lane, kind |-> entry.kind]}
       ELSE UNCHANGED <<tsched, sounding>>
    /\ UNCHANGED <<block, running, placing, sched, group, paused, published,
                   sent, history>>

\* Nothing is left to cut: the tail of every frozen run is credited and the
\* block's clocks and positions are published (publish_block).
EndBlock ==
    LET credited == [k \in Transports |->
                       frozenTotal[k] +
                         IF frozenFrom[k] # None THEN Block - frozenFrom[k] ELSE 0]
        clock(k) == ToTransport(BlockEnd, credited[k])
    IN
    /\ stage = "cut" /\ Cuts = {} /\ cursor = Block
    /\ frozenTotal' = credited
    /\ frozenFrom' = [k \in Transports |-> None]
    /\ now' = BlockEnd /\ cursor' = 0 /\ stage' = "drain"
    /\ published' = [k \in Transports |->
                       [clock |-> clock(k),
                        position |-> PositionAt(anchor[k], clock(k))]]
    /\ ended' = [k \in Transports |-> FALSE]
    /\ UNCHANGED <<batch, rolling, stopping, placing, queues, tree, sent, history>>

\* The bound: after Horizon samples the model plays no more.
Finished == stage = "drain" /\ now >= Horizon /\ UNCHANGED vars

CrossEdge == Wrap \/ WrapLanding \/ Freeze \/ StopOnMark \/ RampToMark

\* The audio thread's own steps; the rest is what the network thread sends.
Audio ==
    \/ BeginBlock \/ Slice \/ CrossEdge
    \/ TakeDevice \/ TakeTransport \/ RunCommand \/ CloseBundle
    \/ FireLane \/ EndBlock

Next == Receive \/ Audio \/ Finished

Init ==
    /\ now = 0 /\ cursor = 0 /\ stage = "drain" /\ batch = << >>
    /\ sched = << >>
    /\ rolling = [k \in Transports |-> FALSE]
    /\ frozenTotal = [k \in Transports |-> 0]
    /\ frozenFrom = [k \in Transports |-> None]
    /\ anchor = [k \in Transports |-> Located(0, 0)]
    /\ looping = [k \in Transports |-> None]
    /\ loopCue = [k \in Transports |-> None]
    /\ endMark = [k \in Transports |-> None]
    /\ fadeLen = [k \in Transports |-> 0]
    /\ stopping = [k \in Transports |-> None]
    /\ ended = [k \in Transports |-> FALSE]
    /\ group = [k \in Transports |-> None]
    /\ tsched = [k \in Transports |-> << >>]
    /\ lanes = [k \in Transports |-> << >>]
    /\ paused = {} /\ sounding = {}
    /\ published = [k \in Transports |-> [clock |-> 0, position |-> 0]]
    /\ sent = 0
    /\ rolled = [k \in Transports |-> 0]
    /\ looped = [k \in Transports |-> FALSE]
    /\ fired = None

Safety == Init /\ [][Next]_vars

\* The device asks for block after block, whatever the network thread does.
Spec == Safety /\ WF_vars(Audio)
-----------------------------------------------------------------------------
(* Properties. *)

Bundle == [time: Nat, born: Nat, sent: Nat, lead: Nat, cmds: Seq(Command),
           lane: Lanes \union {None}, note: Nat \union {None}]
Entry == [position: Nat, lane: Lanes, length: Nat, kind: {"synth", "node"},
          note: Nat]
Stopping == [at: Nat, back: Nat \union {None}, ended: BOOLEAN,
             mark: Nat \union {None}]
LoopCue == [span: Span \union {None}, waited: 0 .. CueWait, short: BOOLEAN]

\* Every variable holds a value of its type, and no queue outgrows the
\* capacity it was allocated with.
TypeOK ==
    /\ now \in Nat /\ cursor \in 0 .. Block
    /\ stage \in {"drain", "cut", "bundle"}
    /\ batch \in Seq(Command)
    /\ sched \in Seq(Bundle) /\ Len(sched) <= SchedCap
    /\ rolling \in [Transports -> BOOLEAN]
    /\ frozenTotal \in [Transports -> Nat]
    /\ frozenFrom \in [Transports -> (0 .. Block) \union {None}]
    /\ anchor \in [Transports -> Anchor]
    /\ looping \in [Transports -> Span \union {None}]
    /\ loopCue \in [Transports -> LoopCue \union {None}]
    /\ endMark \in [Transports -> Mark \union {None}]
    /\ fadeLen \in [Transports -> Nat]
    /\ stopping \in [Transports -> Stopping \union {None}]
    /\ ended \in [Transports -> BOOLEAN]
    /\ group \in [Transports -> Groups \union {None}]
    /\ tsched \in [Transports -> Seq(Bundle)]
    /\ \A k \in Transports : Len(tsched[k]) <= SchedCap
    /\ lanes \in [Transports -> Seq(Entry)]
    /\ \A k \in Transports : Len(lanes[k]) <= LaneCap
    /\ paused \subseteq Groups
    /\ sounding \subseteq [note: Nat, lane: Lanes, kind: {"synth", "node"}]
    /\ published \in [Transports -> [clock: Nat, position: Nat]]
    /\ sent \in 0 .. MaxCommands
    /\ rolled \in [Transports -> Nat]
    /\ looped \in [Transports -> BOOLEAN]

\* The part of the current block transport k has already spent stopped and
\* that frozenTotal does not hold yet.
InFlight(k) ==
    IF stage = "drain" \/ frozenFrom[k] = None THEN 0 ELSE cursor - frozenFrom[k]

\* Frozen time is credited at the sample a transport flips, whatever the edges
\* and bundles that flip it inside a block: the device samples not frozen are
\* exactly the samples the transport rolled, so its clock never drifts from
\* what it played (the comment of process_block on crediting at the flip).
CreditedClock ==
    \A k \in Transports :
        /\ now + cursor = frozenTotal[k] + InFlight(k) + rolled[k]
        /\ stage = "drain" => frozenFrom[k] = None
        /\ stage = "cut" => (frozenFrom[k] = None <=> rolling[k])
        /\ published[k].clock <= rolled[k]
        /\ stage = "drain" => published[k].clock = rolled[k]

\* A bundle runs on the sample it was stamped for, of the device's axis or of
\* its transport's, however often the transport stopped in between; one that
\* reached the engine late runs at once.
OnStamp == fired # None => fired.at = fired.born + fired.lead

\* Bundles of one queue with equal stamps run in the order they were sent.
ArrivalOrder ==
    LET InOrder(queue) ==
            \A i, j \in DOMAIN queue :
                /\ i < j => queue[i].time <= queue[j].time
                /\ i < j /\ queue[i].time = queue[j].time /\ queue[j].lane = None
                     => queue[i].sent <= queue[j].sent
    IN  InOrder(sched) /\ \A k \in Transports : InOrder(tsched[k])

\* With an end mark and no loop, a transport no stop is ramping out plays no
\* sample past the mark, and a pass that ends on it ends no sooner; the ramp that
\* ends on a mark plays nothing past the one it was begun for, whatever mark is
\* set since (TransportState::edge_due: never rolls past its mark).
NeverPastMark ==
    [][\A k \in Transports :
         /\ cursor' > cursor /\ rolling[k] =>
              /\ stopping[k] = None /\ looping[k] = None /\ endMark[k] # None
                   => Position(k)' <= endMark[k].end
              /\ stopping[k] # None /\ stopping[k].ended
                   => Position(k)' <= stopping[k].mark
         /\ ended'[k] /\ ~ended[k] /\ stopping[k] = None
              => Position(k) >= endMark[k].end]_vars

\* Once the position has stood inside the loop in force, a rolling transport
\* leaves it only through the wrap, or in the ramp of a stop: but for that, it
\* plays no sample past the loop's end.
InsideLoop ==
    \A k \in Transports :
        rolling[k] /\ stopping[k] = None /\ looping[k] # None /\ looped[k]
            => Position(k) <= looping[k].end

\* The governed group is frozen exactly while its transport is: no stop, end
\* mark, ramp, play or rebinding leaves a frozen group nobody resumes.
GovernedFrozen ==
    /\ \A k \in Transports :
         group[k] # None => (group[k] \in paused <=> ~rolling[k])
    /\ paused \subseteq {group[k] : k \in Transports}

\* A lane note that sounds has its release queued on its transport, so no
\* clear, edit or full queue leaves it ringing for good; and no note of a
\* lane outlives a stop of its transport.
NotesEnd ==
    \A s \in sounding :
        LET k == LaneOf[s.lane] IN
        /\ \E b \in Range(tsched[k]) : IsRelease(b) /\ b.note = s.note
        /\ rolling[k]

\* Putting a loop in place does not move the transport: whenever the loop in
\* force changes it stays where it stands, but for a change that lands on the
\* old loop's wrap and goes to its own start (put_loop, cross_edge).  A bundle
\* that finds it stopped since an earlier sample of the block is excepted: the
\* clock put_loop reads runs ahead by those samples, not credited yet.
LoopMovesNothing ==
    [][\A k \in Transports :
         looping'[k] # looping[k] /\ InFlight(k) = 0 =>
            \/ Position(k)' = Position(k)
            \/ /\ looping[k] # None /\ Position(k) = looping[k].end
               /\ looping'[k] # None /\ Position(k)' = looping'[k].start]_vars

\* A block always ends: no edge, bundle or lane entry stays due for ever.
BlocksEnd == [](stage # "drain" => <>(stage = "drain"))
=============================================================================
