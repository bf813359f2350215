------------------------------ MODULE LaneFeed ------------------------------
(***************************************************************************)
(* One event lane fed ahead of its transport (osc/server/lanes.rs): the    *)
(* network thread keeps the events of the next Window samples on the       *)
(* engine's lane queue, knows which are there from what it sent and from   *)
(* what comes back spent, and starts over whenever the transport jumps.    *)
(*                                                                         *)
(* Between the two threads are the command FIFO, the garbage FIFO and the  *)
(* position published at the end of a block, none in step with the others. *)
(* The engine's half is what Engine.tla has in detail: here a block is     *)
(* Block samples of one transport that plays, stands, loops or stops on    *)
(* its end mark.                                                           *)
(***************************************************************************)
EXTENDS Naturals, Sequences, FiniteSets, SequencesExt

CONSTANTS Scores,       \* the data /lane_set may carry: the events' positions
          NoScore,      \* no data
          Landings,     \* positions a client locates to
          Spans,        \* loops a client sets: [start, end]
          Marks,        \* end marks a client sets: [at, back]
          None,         \* no lane, loop, mark, return or locate under way
          Window,       \* LOOKAHEAD_SECS, in samples
          Block,
          FifoCap,      \* capacity of the command FIFO
          LaneCap,      \* capacity of the engine's lane queue
          Horizon,      \* bound: where a playing transport stands still
          MaxEdits,     \* bound: lane commands, locates, loops and marks received
          MaxRuns,      \* bound: plays and stops received
          MaxAmiss      \* bound: what went amiss before a turn that would too

ASSUME LaneFeedAssumption ==
    /\ {Window, Block, FifoCap, LaneCap, Horizon, MaxEdits, MaxRuns, MaxAmiss} \subseteq Nat
    /\ Block > 0
    /\ Landings \subseteq Nat
    /\ Spans \subseteq [start: Nat, end: Nat]
    /\ \A span \in Spans : span.start < span.end
    /\ Marks \subseteq [at: Nat, back: Nat \cup {None}]
    /\ Scores \cup {NoScore} \subseteq Seq(Nat)
    /\ \A score \in Scores : \A d, e \in DOMAIN score : d <= e => score[d] <= score[e]
    /\ None \notin [generation: Nat, score: Seq(Nat), queued: SUBSET Nat]

VARIABLES lane,          \* EventLane, or None
          looping, mark, \* the mirror's loop_span and end_mark
          pending,       \* pending_locate while it counts, or None
          commands,      \* the command FIFO
          garbage,       \* spent entries on the garbage FIFO
          ends,          \* for each TransportEnded on it, the entries before it
          entries,       \* the engine's lane queue
          position, rolling, span, end, \* the engine's transport
          ended,         \* it stopped on its mark in this block
          left,          \* samples left of the block
          draining,      \* its commands may still be drained
          published,     \* the position as last published
          sounded,       \* events fired since the last jump or clear
          remade,        \* the lane was freed, or made over an existing one
          amiss,         \* clears refused, and feeds of a pass twice over
          edits, runs

network == <<lane, looping, mark, pending>>
fifos   == <<commands, garbage, ends>>
engine  == <<entries, position, rolling, span, end, sounded>>
clock   == <<left, draining, ended, published>>
bounds  == <<remade, amiss, edits, runs>>
vars    == <<network, fifos, engine, clock, bounds>>

Least(a, b) == IF a < b THEN a ELSE b

-----------------------------------------------------------------------------
\* --- Feeding --------------------------------------------------------------

Full(fifo) == Len(fifo) >= FifoCap

Sent(fifo, command) == IF Full(fifo) THEN fifo ELSE Append(fifo, command)

\* ahead: the spans of position played next from p, in playback order, as
\* <<from, to>>; an empty one is none.  A loop wins over the end mark.
Ahead(p, loop, stop) ==
    IF loop # None /\ p < loop.end
    THEN LET left_over == IF p + Window > loop.end THEN p + Window - loop.end ELSE 0
             limit == IF p >= loop.start THEN p ELSE loop.end
         IN <<<<p, Least(loop.end, p + Window)>>,
              <<loop.start, Least(loop.start + left_over, limit)>>>>
    ELSE LET limit == IF stop = None THEN p + Window ELSE Least(stop.at, p + Window)
         IN <<<<p, limit>>, <<p, p>>>>

\* The spans overlap: the whole loop is ahead of p, and the window goes past it.
Overlap(p, loop) == loop # None /\ p < loop.start /\ loop.end < p + Window

WithinAfter(at, s) == s[1] < at /\ at < s[2]

Within(at, s) == s[1] <= at /\ at < s[2]

\* The events of lane l in span s that are not queued.
Unqueued(l, s) == {e \in DOMAIN l.score : e \notin l.queued /\ Within(l.score[e], s)}

InOrder(S) ==
    [i \in 1..Cardinality(S) |-> CHOOSE e \in S : Cardinality({d \in S : d < e}) + 1 = i]

\* The events due from p, span after span: of spans that overlap, some twice.
Due(l, p, loop, stop) ==
    LET spans == Ahead(p, loop, stop)
    IN  InOrder(Unqueued(l, spans[1])) \o InOrder(Unqueued(l, spans[2]))

EntryOf(l, e) == [op |-> "entry", generation |-> l.generation, event |-> e,
                  position |-> l.score[e]]

\* EventLanes::feed over a FIFO: what is due, up to the first one refused.
Fed(l, p, loop, stop, fifo) ==
    LET due == Due(l, p, loop, stop)
        n == Least(Len(due), FifoCap - Len(fifo))
    IN [lane     |-> [l EXCEPT !.queued = @ \cup {due[i] : i \in 1..n}],
        commands |-> fifo \o [i \in 1..n |-> EntryOf(l, due[i])],
        amiss    |-> IF Overlap(p, loop) THEN 1 ELSE 0]

\* transport_position: a locate sent counts until the clock moves.
Standing == IF pending # None THEN pending ELSE published

Outcome(fed) == lane' = fed.lane /\ amiss' = amiss + fed.amiss

CanFeed ==
    /\ lane # None
    /\ ~Full(commands)
    /\ Due(lane, Standing, looping, mark) # <<>>
    /\ Overlap(Standing, looping) => amiss < MaxAmiss

\* feed_lanes, one turn.
Feed ==
    /\ CanFeed
    /\ LET fed == Fed(lane, Standing, looping, mark, commands) IN
         Outcome(fed) /\ commands' = fed.commands
    /\ UNCHANGED <<looping, mark, pending, garbage, ends, engine, clock, remade, edits, runs>>

-----------------------------------------------------------------------------
\* --- Commands received ----------------------------------------------------

ClearedKept(l) == [l EXCEPT !.generation = @ + 1]

Cleared(l) == [l EXCEPT !.generation = @ + 1, !.queued = {}]

ClearLane == [op |-> "clear"]

\* The lane cleared and fed again from p; a clear refused is not fed after.
Restarted(l, p, loop, stop, fifo) ==
    IF l = None THEN [lane |-> None, commands |-> fifo, amiss |-> 0]
    ELSE IF Full(fifo)
    THEN [lane |-> Cleared(l), commands |-> fifo, amiss |-> 1]
    ELSE Fed(Cleared(l), p, loop, stop, Append(fifo, ClearLane))

Edit == edits < MaxEdits /\ edits' = edits + 1

\* handle_lane_new: one of that id already there is freed first.
Make ==
    /\ Edit
    /\ lane' = [generation |-> 0, score |-> NoScore, queued |-> {}]
    /\ commands' = IF lane = None THEN commands ELSE Sent(commands, ClearLane)
    /\ remade' = (remade \/ lane # None)
    /\ amiss' = IF lane # None /\ Full(commands) THEN amiss + 1 ELSE amiss
    /\ UNCHANGED <<looping, mark, pending, garbage, ends, engine, clock, runs>>

\* handle_lane_set: its data replaced, what it had queued cleared and fed again;
\* refused, it has the new data all the same.
SetScore(score) ==
    /\ Edit
    /\ lane # None
    /\ LET fed == Restarted([lane EXCEPT !.score = score], Standing, looping, mark, commands)
       IN Outcome(fed) /\ commands' = fed.commands
    /\ UNCHANGED <<looping, mark, pending, garbage, ends, engine, clock, remade, runs>>

\* handle_lane_free.
FreeLane ==
    /\ Edit
    /\ lane # None
    /\ lane' = None
    /\ commands' = Sent(commands, ClearLane)
    /\ remade' = TRUE
    /\ amiss' = IF Full(commands) THEN amiss + 1 ELSE amiss
    /\ UNCHANGED <<looping, mark, pending, garbage, ends, engine, clock, runs>>

\* locate_engine: the lanes first, built for where it lands, then the locate,
\* which pending_locate stands for once it is sent.
Locate(p) ==
    /\ Edit
    /\ LET fed == Restarted(lane, p, looping, mark, commands) IN
         /\ Outcome(fed)
         /\ commands' = Sent(fed.commands, [op |-> "locate", to |-> p])
         /\ pending' = IF Full(fed.commands) THEN pending ELSE p
    /\ UNCHANGED <<looping, mark, garbage, ends, engine, clock, remade, runs>>

\* handle_transport_loop: the engine's half first, or nothing.
SetLoop(loop) ==
    /\ Edit
    /\ ~Full(commands)
    /\ looping' = loop
    /\ LET sent == Append(commands, [op |-> "loop", span |-> loop])
           fed == Restarted(lane, Standing, loop, mark, sent)
       IN Outcome(fed) /\ commands' = fed.commands
    /\ UNCHANGED <<mark, pending, garbage, ends, engine, clock, remade, runs>>

\* handle_transport_end: the engine's half first, or nothing; the lanes are left
\* as they are.
SetMark(stop) ==
    /\ Edit
    /\ ~Full(commands)
    /\ commands' = Append(commands, [op |-> "end", mark |-> stop])
    /\ mark' = stop
    /\ UNCHANGED <<lane, looping, pending, garbage, ends, engine, clock, remade, amiss, runs>>

\* A play or a stop.
Play(on) ==
    /\ runs < MaxRuns
    /\ runs' = runs + 1
    /\ ~Full(commands)
    /\ commands' = Append(commands, [op |-> "run", on |-> on])
    /\ UNCHANGED <<network, garbage, ends, engine, clock, remade, amiss, edits>>

\* An entry came back spent (EventLanes::spent).
AnyGeneration(tag) == tag.event \in lane.queued

OwnGeneration(tag) == tag.generation = lane.generation

CollectSpent ==
    /\ garbage # <<>>
    /\ ends # <<>> => Head(ends) > 0
    /\ garbage' = Tail(garbage)
    /\ ends' = [i \in DOMAIN ends |-> ends[i] - 1]
    /\ lane' = IF lane # None /\ OwnGeneration(Head(garbage))
               THEN [lane EXCEPT !.queued = @ \ {Head(garbage).event}]
               ELSE lane
    /\ UNCHANGED <<looping, mark, pending, commands, engine, clock, bounds>>

\* on_transport_ended: no locate counts any more, and the pass may have gone
\* back, which is a jump.
CollectEnded ==
    /\ ends # <<>>
    /\ Head(ends) = 0
    /\ ends' = Tail(ends)
    /\ pending' = None
    /\ LET fed == Restarted(lane, published, looping, mark, commands) IN
         Outcome(fed) /\ commands' = fed.commands
    /\ UNCHANGED <<looping, mark, garbage, engine, clock, remade, edits, runs>>

-----------------------------------------------------------------------------
\* --- The engine -----------------------------------------------------------

Tag(entry) == [generation |-> entry.generation, event |-> entry.event]

NonePassed(p) == 0

\* The entries before position p, and those up to it (partition_point): the
\* queue is sorted.
Passed(p) == Cardinality({i \in DOMAIN entries : entries[i].position < p})

UpTo(p) == Cardinality({i \in DOMAIN entries : entries[i].position <= p})

TakeEntry(entry) ==
    /\ IF Len(entries) = LaneCap
       THEN /\ garbage' = Append(garbage, Tag(entry))
            /\ entries' = entries
       ELSE /\ entries' = InsertAt(entries, UpTo(entry.position) + 1, entry)
            /\ garbage' = garbage
    /\ UNCHANGED <<position, rolling, span, end, sounded>>

TakeClear ==
    /\ garbage' = garbage \o [i \in DOMAIN entries |-> Tag(entries[i])]
    /\ entries' = <<>>
    /\ sounded' = {}
    /\ UNCHANGED <<position, rolling, span, end>>

\* One command of drain_commands, before the first sample of a block.
Drain ==
    /\ draining
    /\ commands # <<>>
    /\ commands' = Tail(commands)
    /\ LET command == Head(commands) IN
       \/ command.op = "entry" /\ TakeEntry(command)
       \/ command.op = "clear" /\ TakeClear
       \/ /\ command.op = "locate" /\ position' = command.to /\ sounded' = {}
          /\ UNCHANGED <<entries, rolling, span, end, garbage>>
       \/ /\ command.op = "loop" /\ span' = command.span
          /\ UNCHANGED <<entries, position, rolling, end, sounded, garbage>>
       \/ /\ command.op = "end" /\ end' = command.mark
          /\ UNCHANGED <<entries, position, rolling, span, sounded, garbage>>
       \/ /\ command.op = "run" /\ rolling' = command.on
          /\ UNCHANGED <<entries, position, span, end, sounded, garbage>>
    /\ UNCHANGED <<network, ends, clock, bounds>>

\* edge_due: a loop wins over the mark, and a rolling transport that stands on
\* its loop's end, or at or past its mark, has its edge due at once.
WrapDue == rolling /\ span # None /\ position = span.end

MarkDue == rolling /\ span = None /\ end # None /\ position >= end.at

EdgeDue == WrapDue \/ MarkDue

\* apply_due_lane: an entry waits for the position to reach it; one the
\* position has passed waits for the next pass.
DueNow == Passed(position) + 1 .. UpTo(position)

\* One sample of a playing transport: what is due on it, after its edges.
Sample ==
    /\ left > 0
    /\ rolling /\ ~EdgeDue
    /\ position < Horizon
    /\ LET due == SubSeq(entries, Passed(position) + 1, UpTo(position))
       IN /\ entries' = SubSeq(entries, 1, Passed(position))
                        \o SubSeq(entries, UpTo(position) + 1, Len(entries))
          /\ garbage' = garbage \o [i \in DOMAIN due |-> Tag(due[i])]
    /\ sounded' = sounded \cup {entries[i].event : i \in DueNow}
    /\ position' = position + 1
    /\ left' = left - 1
    /\ draining' = FALSE
    /\ UNCHANGED <<network, commands, ends, rolling, span, end, ended, published, bounds>>

\* Edge::Wrap: a jump to the loop's start.
Wrap ==
    /\ WrapDue
    /\ position' = span.start
    /\ sounded' = {}
    /\ draining' = FALSE
    /\ UNCHANGED <<network, fifos, entries, rolling, span, end, ended, left, published, bounds>>

\* Edge::End: the transport stops on its mark and goes to where the mark
\* returns, if it does, which is a jump.
EndPass ==
    /\ MarkDue
    /\ rolling' = FALSE
    /\ ended' = TRUE
    /\ IF end.back = None THEN UNCHANGED <<position, sounded>>
       ELSE position' = end.back /\ sounded' = {}
    /\ draining' = FALSE
    /\ UNCHANGED <<network, fifos, entries, span, end, left, published, bounds>>

\* The end of a block: publish_block, whose clock has moved if it played, and
\* then the word that the transport ended.
EndBlock ==
    /\ ~EdgeDue
    /\ \/ left = 0
       \/ ~rolling \/ position >= Horizon
    /\ published' = position
    /\ pending' = IF left < Block THEN None ELSE pending
    /\ left' = Block
    /\ draining' = TRUE
    /\ ends' = IF ended THEN Append(ends, Len(garbage)) ELSE ends
    /\ ended' = FALSE
    /\ UNCHANGED <<lane, looping, mark, commands, garbage, entries, position, rolling, span,
                   end, sounded, bounds>>

-----------------------------------------------------------------------------
Init ==
    /\ lane = None /\ looping = None /\ mark = None /\ pending = None
    /\ commands = <<>> /\ garbage = <<>> /\ ends = <<>>
    /\ entries = <<>> /\ position = 0 /\ rolling = FALSE /\ span = None
    /\ end = None /\ ended = FALSE /\ sounded = {}
    /\ left = Block /\ draining = TRUE /\ published = 0
    /\ remade = FALSE /\ amiss = 0 /\ edits = 0 /\ runs = 0

Receive ==
    \/ Make
    \/ \E score \in Scores : SetScore(score)
    \/ FreeLane
    \/ \E p \in Landings : Locate(p)
    \/ \E loop \in Spans \cup {None} : SetLoop(loop)
    \/ \E stop \in Marks \cup {None} : SetMark(stop)
    \/ \E on \in BOOLEAN : Play(on)

Render == Drain \/ Sample \/ Wrap \/ EndPass \/ EndBlock

Collect == CollectSpent \/ CollectEnded

Next == Receive \/ Feed \/ Collect \/ Render

\* The network loop collects and feeds on every turn, with a turn at least
\* every NOTIFY_INTERVAL (retune_timeout); the device asks for block after block.
\* CanFeed is when Feed can take a step.
Fairness ==
    /\ []<>~CanFeed \/ []<><<Feed>>_vars
    /\ WF_vars(Collect) /\ WF_vars(Render)

Spec == Init /\ [][Next]_vars /\ Fairness

-----------------------------------------------------------------------------
\* --- Properties -----------------------------------------------------------

Regular == ~remade /\ amiss = 0

\* The engine's lane queue never holds one event twice, whatever the lane's
\* data, the jumps and the entries that come back spent from before them
\* (lanes.rs:150-154, 1189-1199).  A lane freed or made again under its id
\* starts its generations over, a clear the FIFO refused leaves the old
\* entries there, and before a loop the window has all of, the feed takes the
\* loop's first events twice (lanes.rs:524-533, 752-769): none keeps this.
OnceOnTheQueue ==
    Regular => \A i, j \in DOMAIN entries :
                 entries[i].event = entries[j].event => i = j

\* No event sounds twice in one pass of the transport, though an entry spent
\* may be known, and its event fed again, before the position that passed it
\* is published (engine.rs:1796-1806, lanes.rs:742-790).
OncePerPass ==
    [][Regular /\ Sample => \A i \in DueNow : entries[i].event \notin sounded]_vars

\* An event marked as queued is on its way: sent, waiting on the engine or
\* coming back spent.  One that were not would stay silent for good, since
\* nothing else unmarks it.  It holds however the generations are reused.
MarkedIsOnItsWay ==
    lane # None => \A e \in lane.queued :
        LET tag == [generation |-> lane.generation, event |-> e] IN
        \/ \E i \in DOMAIN commands :
             commands[i].op = "entry" /\ Tag(commands[i]) = tag
        \/ \E i \in DOMAIN entries : Tag(entries[i]) = tag
        \/ \E i \in DOMAIN garbage : garbage[i] = tag

\* The positions of the window before which the transport stands, up to the
\* end of a loop it is in or else to its end mark.
NextUp(at) ==
    /\ position <= at /\ at < position + Window
    /\ IF span # None /\ position < span.end THEN at < span.end
       ELSE end # None => at < end.at

\* Once the transport stands still, the lane's events of the window it stands
\* before, short of its end mark, are on the engine's queue and stay there,
\* whatever the FIFO refused and wherever the locates, the returns to a mark's
\* place and the publications crossed.
FeedCatchesUp ==
    (<>[]~rolling) => <>[](Regular /\ lane # None =>
        \A e \in DOMAIN lane.score :
            NextUp(lane.score[e]) => \E i \in DOMAIN entries : entries[i].event = e)

=============================================================================
