# Clausters, verified in TLA+

Clausters is a sound-synthesis server: an audio thread that runs a tree of
synths block after block, a network thread that translates messages into
commands for it, worker threads, offline rendering, and the clients and
editors around them.  This directory holds TLA+ models of the parts of the
server where time, order and concurrency are hard to get right, TLC
configurations that check them on small instances, and TLAPS proofs of what
can be proved for every instance.  Paths below are relative to the repository.

Contents: [inventory](#inventory), [plan](#plan), [models](#models),
[runs](#runs), [proofs](#proofs), [findings](#findings),
[not modelled](#what-is-not-modelled-and-why).

## Inventory

| component | state it keeps | operations |
|---|---|---|
| clock axes, `src/server/clock_axis.rs` | none: device samples, transport samples (device minus frozen), position | conversions; `PositionAnchor::{located, at, reaching}` |
| engine block loop, `src/server/engine.rs` | `now`, device queue, 16 `TransportState`s (rolling, frozen total, frozen-since, anchor, loop, end mark, ramp, stopping phase, bundle queue, lane queue), garbage | `drain_commands`/`apply`, `next_due`, `process_slice`, `cross_edge`, `apply_due_bundle`, `apply_due_lane`, publishing |
| node tree, `src/node/` | slab of slots with an id index, order, pause flags, finished-node and reply queues | add, move, free, deep free, pause, done actions, process |
| parallel groups, `src/node/mod.rs` | masks of buses, folded into lanes | `process_parallel`, `subtree_usage` |
| worker pool, `src/server/workers.rs` | job, epoch, cursor, remaining, active, states, shutdown | `run_stage`, `worker_main`, `Drop` |
| network loop, `src/osc/server/` | mirror of transports and nodes, clients, pending replies | dispatch, `send_engine`, transport commands, `collect_garbage` |
| event-lane feed, `src/osc/server/lanes.rs` | lanes' data, generation, queued set, pending locate | set, feed, clear, spent, jumped |
| asynchronous jobs, `src/osc/server/async_pipes.rs`, `src/server/nrt.rs` | counters submitted and drained, barrier, buffer mirror | submit, drain, sync |
| translator and mirrors, `src/osc/translate/`, `graph.rs`, `graphdef.rs` | id registries, tree mirror, bus usage, sort order | one per message |
| offline rendering, `src/server/render.rs`, `nrtsession.rs` | score, engine | render, session |
| shared segment, `src/server/ipc.rs`, `device_epoch.rs`, `src/dsp/region.rs`, `crates/clausters-core/src/shm.rs` | claim, packet rings, directory of buffers, region files, taps, epoch | claim, release, push, pop, publish, retire, map, tap write and read, filter |
| disk streaming, `src/dsp/disk.rs`, `stream.rs`, `fed.rs`, `io_thread.rs`, `crates/clausters-app-engine/src/take.rs` | a ring and a request ring per reader, epochs, kept frames; the owner's list and where it renders next | refill, take, replace, cue, loop; serve, edit |
| UGens and definitions, `src/dsp/`, `src/synthdef/` | signal state | process |
| backend, meters, embedding | device, levels | callbacks |
| Faust, MIDI, plug-ins | compilers, ports, helper processes | compile, poll, call |
| network edge, `crates/clausters-net` | client slots, in-flight limits | accept, send, wake |
| documents and applications, `crates/clausters-{document,editing,apps}` | history, session, log | edit, undo, save |
| clients and tools | - | - |

**How they interact.**  The network thread owns the mirrors and sends the audio
thread `Cmd` values over a bounded single-producer FIFO; the audio thread sends
freed nodes, ended passes, spent lane entries and replies back over the garbage
and reply FIFOs, and publishes each transport's clock and position in atomics.
The audio thread never blocks: a full queue drops, rejects or holds.  Inside a
block it may hand a *stage* (children of a parallel group) to the worker pool
and spin until it returns.  Disk readers talk to the I/O thread or to the application's
reading thread over rings; the engine asks them, at a block's start and at a
loop's end, whether they hold what a new loop would play.  Offline rendering
drives the same engine from a score.  An editor and a session, or two, may share a
mapped segment: one of them at a time serves its packets and owns its buffers, the
others map them and read its taps.

**What is hard here.**

- Commands land at block starts, bundles and edges at samples inside a block,
  and each may stop, play, locate or re-loop a transport whose clock is an
  account of the time it did *not* spend stopped.
- A bundle is stamped on one axis, queued on another, and moved by every stop
  between.
- A ramped stop has a middle: it can be called off, overtaken by the loop's
  end or by the end mark, or asked for twice.
- A note started by a lane must end whatever happens to its lane, its
  transport, or the queue its release goes to.
- The pool synchronises by a sequence lock, two counters and a parked flag
  written with relaxed stores.
- Parallel stages are safe only if the masks tell apart every pair of children
  that share a bus.
- A done action is about neighbours in a tree that commands have changed since
  the synth ended, and several of one block are applied one after the other.
- The network thread's tree and transports are what it *sent*; the engine may
  refuse a command, end a node or stop a transport by itself, and tells of it
  in queues drained one after the other while it goes on.
- A lane's events are queued ahead of a transport that jumps, from a position
  that is already old, and come back spent after the lane was edited.
- A stream's ring holds what was rendered for a place, a loop and a list that may
  each have changed since; refills overtake each other, and what a reader says it
  holds decides when a loop change lands.
- Processes that share the segment are killed anywhere: between a packet's words and
  its length, a row's generation and its shape, a claim released and the next.
- Jobs answered out of order, by several threads, count towards one barrier; a
  write in place may land in a buffer about to be replaced.

**What makes each component correct.**  Clock axes: conversions are inverses
where they must be, and `reaching` is the first sample on the position.  Engine:
clocks and positions agree with what was played, bundles run on their stamps
and in order, loops and marks are not overrun, groups are frozen exactly while
their transport is stopped, notes end, blocks end.  Pool: each item once, by one
thread, inside the call; every call returns; drop joins.  Parallel groups: what
a sequential walk computes.  Node tree: ids, order and parents agree, nothing
freed is reached.  Network loop: the mirror converges to the engine whatever
the FIFOs refuse.  Lane feed: an entry is fired once, in the generation it was
fed for.  Asynchronous jobs: `/server_sync` answers after everything submitted
before it.  Disk streaming: a reader plays the frame its transport is at, or
silence, and one that said it was ready plays on without a gap.  Shared segment:
one server drains at a time, no packet is lost or handled twice, and what is mapped
or read is what its row or its cursor said.

The hazards these come from are listed, each at its line, under `hazards` in
`PROJECT.json`.

## Plan

The order is by how much of the system's behaviour depends on the part.

1. `ClockAxis`: the axes. *Done.*
2. `Engine`: the block loop with everything that happens in time. *Done; its
   safety is proved.*
3. `WorkerPool`, implementing the abstract `ForkJoin`. *Done, proved.*
4. `Stages`: `process_parallel` over a pool that is `ForkJoin`. *Done, proved.*
5. `IdIndex`, `Trees` and `NodeTree`: the index from ids to slots, the tree
   and its done actions.  *Done and proved.*
6. `TreeMirror` and `TransportMirror`: the network thread's tree, ids and
   transports against the engine's, over FIFOs.  *Done; `TransportMirror` is
   proved, and of `TreeMirror` all but `Converges`.*
7. `LaneFeed`: generations, queued set, jumps, composed with the engine's lane
   queue.  *Done; its safety is proved.*
8. `Jobs`: pipelines, the sync barrier, the buffer mirror.  *Done and proved.*
9. `Segment`: the claim, a ring, the buffer directory and a tap of the shared
   segment.  *Done and proved.*  `ClientSlots` and the
   device epoch's filter are still to come.
10. `FedStream`: the reader of a fed buffer, the thread that renders it, and
    their rings, under a transport.  *Done; `HeadIsRing` is proved.*
11. Document history and session.

Proofs still to come, in order: `Converges` of `TreeMirror`, and `ReadyIsHeard` of
`FedStream`.

## Models

### ClockAxis

Operators for the conversions of `clock_axis.rs`.  Device and transport samples
are naturals: the 64-bit width is not reached in a session.  `SatSub` is the
saturating subtraction.

### Engine

One behaviour is the audio thread alone; the nondeterminism is what the network
thread sends, and when.

| variables | code |
|---|---|
| `now`, `cursor` | `Engine::now`, the `cursor` local of `process_block` |
| `stage`, `batch` | where the thread is: draining commands, cutting the block, inside a bundle |
| `sched`, `tsched`, `lanes` | `Engine::sched`, `TransportState::sched`, `TransportState::lanes` |
| `rolling`, `frozenTotal`, `frozenFrom`, `anchor`, `looping`, `loopCue`, `endMark`, `fadeLen`, `stopping`, `ended`, `group` | the fields of `TransportState` |
| `paused` | pause flags of governed groups in the tree |
| `sounding` | lane notes the tree holds |
| `published` | the atomics a block ends by writing |
| `rolled`, `looped`, `fired` | history, read by properties and by no guard |

Actions: `Receive` applies one command of the FIFO (`Apply` has an alternative
for each command the model keeps); `BeginBlock` lands loop changes and starts
the cutting; `Slice` processes the tree up to the next thing due; `CrossEdge` is
`cross_edge`, one alternative for each edge; `TakeDevice`/`TakeTransport`,
`RunCommand` and `CloseBundle` are `apply_due_bundle`, one command a step;
`FireLane` is `apply_due_lane`; `EndBlock` advances `now`, credits and
publishes.  `Cuts` is the set of what `next_due` considers, and `Precedes` its
order, so `Due` is its answer.

Abstracted: the tree is the pause flag of each governed group and the notes
lanes have started; a ramp's level is left out, so a ramped stop called again
may last any length the level allows; a bundle's node commands are one command
that touches a group.  In the code a bundle belongs to the transport whose group
every node it touches sits under, and so it does here (`Governing`).

### WorkerPool and ForkJoin

Each atomic operation of `run_stage`, `worker_main` and `Drop` is a step of its
thread: `pc` is a function over the conductor and the workers, named for the
place in the code.  The parked flag is the only relaxed store that matters: a
worker's `states` entry is what it wrote, `stored` what others see, and `Lands`
is the store reaching memory, at any time until the next fence.  Spinning,
yielding and how long a worker waits before parking are left out: a worker may
go on polling or park at any time.  `unpark` leaves a token, as the standard
library documents.

`ForkJoin` is what a caller may rely on: a stage of n items is handed over, each
item is processed once, and the call returns when all are.  `Left` and `Phase`
map the pool onto it.

### Stages

`process_parallel`.  A child is the sequence of accesses its subtree makes to
buses; `Lanes` is its mask, `StageEnd` the greedy loop.  A stage of
two or more goes to the pool through `ForkJoin`'s actions, so the model rests on
what `WorkerPool` is shown to implement, and members interleave access by
access.  A bus holds the list of writes made to it, because a sum of floats
depends on its order.  A nested parallel group is walked in sequence, as a
worker walks it.

### IdIndex

`node/index.rs`: an open-addressed table from ids to slots, with linear probing
and the backward shift on removal.  `InsertKey` is one step; a removal is
`RemoveKey`, then one `Shift` for each turn of its loop, then `Close`, so that the invariant
is stated of the table as it is while the hole moves.  `home` is the hash, any
function from ids to cells, chosen at first.  `known` is history: the slot last
recorded for an id.  `Room` is the slab's capacity, which keeps a cell empty.

### Trees and NodeTree

`Trees` holds the operations of `node/mod.rs` as functions from a tree to a tree
and the deaths it reports, in order: insert, free, free all, deep free, move with
its cycle check, pause, and `Apply`, one clause for each done action.  A tree is
a record of parents, ordered children and paused nodes.  `ByStack` is the order
in which the explicit stack of `free_subtree` reports: `Turn` is one turn of its
loop, taken once for each node.  `FreeEach` is the loop of `free_all` and of each
group of `deep_free`, and `Placed` the end of `insert`, the node put in its row.

`NodeTree` is the audio thread: commands between blocks, `Slice`s of a block in
which some of the running synths finish, in the order of the walk or, below a
parallel group, in any order; the queue of done actions with its fixed places,
`Kept` (a full queue drops an entry, and a synth asked again by a later slice
queues once); `EndBlock`, and `Drain`, which applies them by id.  A node takes an id
that no node has, one still in the queue too, and the action is then applied to the
new node, as the engine's would be; the model gives every synth of an id the same
done action.  An action queued for an id that is gone does nothing.

### TreeMirror

The same `Trees`, twice: a message (`New`, `SendFree`, `SendFreeAll`, `SendDeepFree`,
`SendMove`) changes `mirror` and is sent (`Send`); the audio thread applies commands to
`engine` and ends synths by itself; deaths come back as garbage and as events, drained
in that order, one entry a step, with the audio thread running between.  `inUse` stands
for the registries of ids, the server's and its clients', which go by the same reports.
A message may ask for any id by number, one in use included, as `/synth_new` and
`/group_new` may; `reused` is the history of that, and `FreeIdsAreDead` is of the
others.  (Messages are about ids that were in use, which is a bound.) `strayed` is
history: set by what the code itself lets set the two trees apart (a message the full
FIFO refuses, a command the two sides judge differently, a group freed by a done action,
an id whose earlier synth has yet to die or to come back), and read by `Converges`
alone.

### TransportMirror

The network thread's `Transport`s and the engine's `TransportState`s.  A message
is the sequence of *halves* it sends (a play from a place is a locate and a run),
which the FIFO takes up to its room; the mirror is changed as the handler does
with that answer.  `ApplyHalf`, `LoopLands`, `EndMark`, `RampDone` and `DoneAction`
are the audio thread; what it frees and what it ended come back through the garbage
FIFO, in order, with the audio thread running between.  A settings half carries a
loop or none, an end mark with the place its pass goes back to or with none, or the
ramp.  A pass that ends on its mark goes back there (`Freeze`), unless a locate came
in its ramp; a loop may be cued and put in force later (`TakeLoop`, `LoopLands`):
whether the transport has disk readers is not modelled, so a rolling one with a group
does either.  Clients name groups by any id.  `apart` is history, by transport and
field, as `strayed` is; so is `returned`, a place the mirror was never told.  Time
within a pass is left out: a rolling transport may be on its mark in any block.

### LaneFeed

One lane: `lane` is the network thread's `EventLane` (score, queued set, generation),
`pending` and `published` what it goes by, `commands` and `garbage` the FIFOs, `entries`
the engine's lane queue.  Each handler of `lanes.rs` and the locate, loop, end mark,
play and stop of the transport that touch lanes are actions, with the report of an end
(`CollectEnded`), which comes in its place among the spent entries (`ends`); `Feed` is
the turn; `Drain`, `Sample`, `Wrap`, `EndPass` and `EndBlock` are the engine, with what
`Engine` has in more detail.  `Ahead` is cut at the end mark unless a loop is ahead, as
in the code.  Ramps and loop changes that wait for readers are left out here.  The spans
of `Ahead` are fed one after the other, each in the order of its events, so that an
event in both is sent twice, as in the code.  The engine's queue is cut where the code's
`partition_point` cuts it (`Passed`, `UpTo`). `sounded` is history: what fired in this
pass; so are `remade` and `amiss`, for what the properties except.

### Jobs

Pipelines, each a FIFO to a worker and one back, the counts submitted and
drained, and the barrier.  The buffer pipeline also has what its jobs do to one
buffer number: a buffer is a number into `cells`, whose entry is the set of jobs
whose samples it carries.  `chain` is the queue's own buffer (`NrtChain`),
`mirror` and `played` the translator's and the engine's, `Share` the copy into a
mapped region when a result is drained.  Any job may fail, any swap be refused by
the full FIFO, and a buffer may be installed from outside.

### FedStream

| variables | code |
|---|---|
| `transport` | position, loop, loop change and cue that wait, and how far the block and its slice are (`engine.rs`) |
| `rd` | the reader of `stream.rs` with its two rings; `refused` is history: a refill the request ring did not take |
| `owner`, `ack` | `Served` and the turn of `serve` (`take.rs`); what `fed.rs` has published |
| `generation` | the count of edits |
| `heard`, `owed` | history: the last sample, and how many the reader owes without a silence since it said it was ready |

A sample is the frame it was rendered from, so that what is heard is compared
with the place the transport plays.  `StartBlock` and `LandStanding` are
`land_loop_cues`, `CueBlock` is `cue_transports`, `Wrap` is `cross_edge`, `Slice`
is the reader as a slice begins and `Sample` its `take`; `Play`, `Stop`,
`Locate`, `Loop` and `Cue` are the transport's commands; `Latest`, `Render` and
`Publish` are a turn of `serve`, and `Edit` is `TakeFeed::set`.  `Take` and
`Change` are the reader's two long functions, cut where the code has its
helpers.  Left out: how two readings are mixed over a crossfade, what is counted
as starved, several channels and streams, an offset, a loop of the list's own,
the wait of offline rendering, and the blocks after the list's end, where the
model stops.

### Segment

| variables | code |
|---|---|
| `claim` | `Header::control_owner`, by segment |
| `here`, `at` | the segment the path is the name of, and the one each server has mapped |
| `pc`, `seen`, `job`, `file` | where each server is in `claim_control`, `try_pop`, `share_buffer` or `drop`, what it loaded, what it has in hand, `shared_buffers` |
| `sweep` | a server that makes a segment elsewhere in the directory, in `sweep_dead_segments` |
| `region` | the region files by generation: whether a file has the name, its shape, and (history) how often each segment's servers made it |
| `ringOf`, `ring`, `client` | the segment a client has, the packets' ring in it, and the process that writes it |
| `row`, `peer` | a row of the buffer directory, by segment, and a process in `map_buffer` with the segment it has |
| `tap`, `reader` | a tap, and a thread in `tap_read_latest` |
| `handled` | history: the packets handled |

Each store and load that another process may fall between is a step.  `Kill` may
come at any of them, and leaves the memory as it is, and `ClientDies` leaves a
packet's words without its length; a pid is not used again while somebody remembers
it, and the stores of a process are seen in their order, which the code asks of most
of them (see the findings).  A ring cell says which word of which packet it is, and
a tap's sample its place in the stream, so that a torn read shows.  The ring of
replies is the same code with the roles changed.

A segment is called by the server that made it.  `Open` is both arms of
`open_or_create`: it adopts the segment at the path or, where there is none, makes one,
whose generations start at 0 again.  The path comes to have none when a session closes
and removes what it made (`RemoveRegions`, `Remove`) or a sweep takes a dead holder's
segment away (`SweepFinds`, `SweepRemoves`); each takes away whatever has the name when
it comes to it, and who had the old segment goes on with it.  The sweep is of a server
that opens another path of the directory, which is why it may take this one.  Left out:
two servers that make the segment at once, both having found none, a segment of another
layout (refused, and never removed), the write frontier, control buses, transport rows
and levels, and waking a server over its socket.

## Runs

In the engine's runs a block is 4 samples, so a stop and a play fall inside one on
different samples and on its boundaries.  `Horizon` counts device samples played,
`MaxCommands` and the like commands sent in a behaviour; all are bounds of the
models, not of the code.

| run | checks | bounds |
|---|---|---|
| `edges` | InsideLoop, GovernedFrozen, CreditedClock, OnStamp, ArrivalOrder, BlocksEnd | 1 transport, loop 1-4, mark at 6, bundles on both axes, queues of 2, stamps 2 and 6, 4 commands, 2 blocks |
| `ramps` | LoopMovesNothing, NeverPastMark, TypeOK, NotesEnd | ramp of 3, two loops, readers that may be slow, mark at 6, bundles at 6 that stop, play or set a loop, 3 lane notes, release queue of 1, 4 commands, 2 blocks |
| `pool` | JobPinned, OneVisitor, ForkJoinSafety, ForkJoinLiveness, DropJoins | 2 workers, 2 stages of 2 items, fairness |
| `bus_stages` | BusesInOrder, SameAsSequential | every group of 3 children out of 9 |
| `index` | Finds | 4 ids, every hash into 4 cells, 3 in use at most |
| `tree` | Forest, ReportsDeaths, DoneActionAsDescribed, FinishedGo | 2 synths, 2 groups (1 parallel), 4 nodes, 2 children, 2 slices a block, 1 paused, fairness |
| `mirror` | FreeIdsAreDead, Converges | 2 synths, 1 group, added at a tail or over a node, 3 nodes, 1 child a group below the root, FIFO of 2, 4 messages |
| `transports` | Agree, OneTransport, NoneLeftFrozen | 2 transports, grids and ramps there before, 1 group bound to either or neither, 1 place, 1 loop, marks with and without a return, FIFO of 3; 4 messages with loops and marks, 3 of them and an unasked death, or 4 and a death without either |
| `jobs` | SyncIsBarrier, WritesLand, SyncsAnswered | 3 buffer jobs and 1 compilation, 1 barrier, failure, refusal and outside load, fairness |
| `feed` | OnceOnTheQueue, MarkedIsOnItsWay, OncePerPass, FeedCatchesUp | 2 events, loop 1-3, mark on the second with a return to 0, locates to 0 and 2, window of 4, block of 2, FIFO of 3, lane queue of 2, 4 edits, 2 plays or stops, fairness |
| `stream` | HeadIsRing, ReadyIsHeard, RefillsLand | list of 7 frames, loops 1-4 and 1-6, ring of 5, 3 frames kept, blocks of 2, request ring of 2, 2 commands or edits, fairness |
| `segment` | EachPacketOnce, MapsWhatItSays, WindowIsWhole | 3 servers and 3 packets, 2 and 3 installs or frees, or 2 and one of each; ring of 8 words, cursors of 16; 2 shapes; tap of 8, blocks of 2, windows of 1, 3 and 4, 7 blocks |

What the properties say:

- **CreditedClock**: device time = time credited as frozen + the part of this
  block spent stopped + samples rolled, at every step; so no number of stops
  and plays inside blocks makes a clock drift.
- **InsideLoop**: a transport that has stood inside its loop plays no sample past
  the loop's end, but in the ramp of a stop (see the findings).
- **NeverPastMark**: no sample past the end mark is played, nor past the mark a
  ramp was begun for.
- **GovernedFrozen**: a group is paused exactly while its transport is stopped.
- **OnStamp**, **ArrivalOrder**: a bundle runs on its sample of its own axis;
  equal stamps run in the order sent.
- **NotesEnd**: a lane note that sounds has its release queued.
- **LoopMovesNothing**: a loop change leaves the transport where it stands, or
  lands on the old loop's wrap and goes to its own start.  It is of changes that find
  no sample of the block the transport stood still for and that is not credited yet:
  of the others it is false (see the findings).
- **BlocksEnd**: the loop over what is due ends.
- **JobPinned**, **OneVisitor**: the sequence lock keeps the job from being
  rewritten under a reader; no item has two visitors.
- **BusesInOrder**, **SameAsSequential**: buses are used in child order, so that
  every read is what a sequential walk would have read.
- **Finds**: every id is found in the slot recorded for it after any insertions
  and removals.
- **Forest**: links agree both ways, no group is below itself, and neither the
  slab nor a list of children outgrows what was allocated for it.
- **ReportsDeaths**, **DoneActionAsDescribed**: in every tree reached, each free
  reports exactly the nodes that leave, once, groups first, with the parents
  they had; each done action frees and pauses what the enum's documentation says
  of it (`Doomed`, `StillPaused`), and the rest keeps its parents and its order.
- **FinishedGo**: no synth runs on for ever with its done action up.
- **FreeIdsAreDead**: an id the registry holds free names nothing in the engine's
  tree and nothing on its way there, unless a message asked for it by number while it
  was in use (see the findings).
- **Converges**: with all delivered the mirror is the engine's tree but for what
  `strayed` names.
- **Agree**: with all delivered the mirror says of a transport what the engine
  does, but for what `apart` names, and for the place until it is located anew after a
  pass went back by its mark (see the findings).
- **OneTransport**, **NoneLeftFrozen**: the engine too has one binding to a group,
  though only the mirror checks, and pauses none that no transport governs.
- **OnceOnTheQueue**, **OncePerPass**, **MarkedIsOnItsWay**: an event is on the
  engine's lane queue once, fires once a pass, and is marked as queued only while
  it is in fact sent, waiting or coming back.  The first two are not of a lane made
  again, nor after a clear refused or a loop ahead fed twice (see the findings).
- **FeedCatchesUp**: once the transport stands still, the events it stands just
  before, up to the end of a loop it is in or else short of its end mark, are queued
  and stay so; past the mark nothing is fed, and nothing is asked.
- **SyncIsBarrier**, **SyncsAnswered**: a barrier answers after every job received
  before it, in any pipeline, and does answer.
- **WritesLand**: a write answered `/done` is in the buffer that plays, if nothing
  was asked to replace the buffer after it.
- **HeadIsRing**: the ring's front is the frame the reader takes it for, however
  refills, edits, loop changes and locates cross what the owner pushes.
- **ReadyIsHeard**: a reader that said it holds what a cue or a loop change waits
  for plays on from there, without a silence and on the transport's place, but after
  a refill refused, on a loop's own end, and for what it counts twice (see the
  findings).
- **RefillsLand**: a refill asked for lands while the transport plays.
- **EachPacketOnce**: every packet pushed is handled whole, once and in order, or is
  in the ring, or was in the hands of a server killed with it.
- **MapsWhatItSays**: no segment uses a region's name twice, and a buffer mapped has
  the shape of its region, wherever the row's writer was killed, unless two segments
  of the path have used the name (see the findings).
- **WindowIsWhole**: a tap's window holds the samples it says, in order, but where
  the block being written then falls on its first.

**Why the bounds are enough.**  Two blocks let a thing begun in one block end in the
next, or on its boundary; loops, marks and notes are placed so that they fall
inside a block and on its end.  Capacities of one to three make queues full within
a behaviour.  A second stage is what a straggler of the first can meet; two
workers are the fewest that race each other and the conductor.  Three children
give a conflict with a member that is not the neighbour.  What one engine run
leaves out (a ramp in `edges`, say) is taken in another.  A table of four cells
under every hash has every overlap of two probe paths, and wraps.  Two synths in a
parallel group beside one outside it give done actions in both orders about a
neighbour that is gone.  Four messages are a play, a stop, another play and one
more, or a mark, a play to it, a loop and a locate; a FIFO of 3 takes a redefined
grid's halves whole or in part, and two of either refused.  An id's death, its reuse and
a late report need three.  Three buffer jobs
are a replacement, a write chained behind it, and one after its failure.  Two
events, one before a locate's landing and one on it, tell a jump's restart from a
lost entry; the window reaches from 0 past the loop's end, and wraps from inside it; a
FIFO of 3 takes a clear and both events, or refuses the locate that comes after.  The
mark is on the second event, so that the first is before it and the second never plays
without a loop.  Two loops with one start and different ends read alike and then part,
inside the kept frames and past them; a ring of 5 is shorter than the list, and two
commands are a change and one that overtakes it.  `HeadIsRing` and `ReadyIsHeard`
were also checked once on a list of 8 frames with 3 commands (19.7 million states)
and with 2 commands and an edit (12.6 million).  Three servers are one that was
killed and two that are after its claim at once; a ring of 8 words fills, and its
cursors wrap, with three packets; seven blocks overtake a window by a whole ring.

**Fairness.**  `Engine` assumes weak fairness of the audio thread's own steps and
nothing of the network thread: the device asks for block after block, and
`process_block` is sequential code without waiting.  `WorkerPool` assumes weak
fairness of each thread (the operating system schedules them; the conductor and
the workers spin or park but hold no locks) and of a store reaching memory.
Nothing is assumed of a client dropping the pool.  `NodeTree` assumes it of the
audio thread's slices, block ends and drains, for the same reason as `Engine`, and
nothing of commands or of synths finishing.  `Jobs`: each worker runs its queue, and
the network thread wakes at least every `GC_INTERVAL`, and whenever a worker wakes
it, to drain results; nothing is assumed of clients.  `LaneFeed`: the network
thread's turn comes at least every `NOTIFY_INTERVAL`, garbage is collected in it,
and the device asks for blocks; nothing is assumed of edits.  `CanFeed` is when the
turn has something to feed.  `FedStream`: the
audio thread runs its blocks and the owner's thread its turns (parked, it is woken
or its park times out); nothing is assumed of commands and edits.  It is weak
fairness written out, with `AudioCan` and `ServeCan` for when a step can be taken.

Deadlock is checked but where a model may truly stop: a dropped pool; `Jobs` and
`LaneFeed` once the inputs their bounds allow are used up; `FedStream` at the list's
end or on a stopped transport with no command left; `Segment` once its servers have
gone.  `Segment` states no fairness: nothing promises that a process runs on.  In `Engine`,
`Finished` is the model's stutter at its horizon.

## Proofs

All theorems hold for every value of the constants that satisfies the module's
named assumption (`EngineAssumption`, `PoolAssumption`, `StagesAssumption`,
`IndexAssumption`, `JobsAssumption`, `SegmentAssumption`,
`TransportMirrorAssumption`, `LaneFeedAssumption`, `StreamAssumption`,
`TreesAssumption`, `NodeTreeAssumption`, `TreeMirrorAssumption`): any number
of transports and lanes, any block, any commands, any number of workers, any sizes of
stages, any groups, any hash and size of table, any pipelines and number of jobs, any
servers, rings and windows, any places and room of a FIFO, any scores, landings and
window of a lane, any list, loops and chunks of a stream, any sets of ids, slab and
lists of children.  `StreamAssumption` asks for
more than twice as many epochs as the request ring has places (65536 and 8 in the
code).

- `ParallelProofs`, of `WorkerPool` and of `Stages`.  The pool's inductive invariant,
  `Invariant`, is the conjunction
  of `TypeOK`; `Epochs` (the epoch is odd exactly in the conductor's rewriting,
  and no worker has seen one from the future); `Inwards` (a validated worker
  excludes a rewrite); `Jobs` (what is published, and that a thread in the grab
  loop has the job in force); `Handed` (below the cursor an item is processed
  or in exactly one thread's hands, above it neither); and `Counted` (`remaining`
  and `active` are cardinalities of sets of items and of workers).  None of the
  checked properties is inductive without `Handed` and `Counted`: the return of
  `run_stage` is safe because the counters say what the sets are.  From it:
  `TypeCorrect`, `JobIsPinned`, `EachItemOneVisitor`, and `PoolForksAndJoins`,
  the refinement of `ForkJoin`'s safety part, step by step.

  A parallel group is proved on `ForkJoin` alone.  `InOrder`: `BusesInOrder` from an
  invariant that says the
  children before a stage are finished, those after have not begun, and no two
  members conflict.  That the greedy loop stops where it does uses the least
  element of a set of naturals.  `ParallelIsSequential` (`SameAsSequential`) adds to
  it, in `WalkInv`, what the buses hold: the writes made so far to a bus, each once, in
  the order of a sequential walk (`Summed`).  The step is `TouchSums`: the writes made
  to the bus a child is about to use are exactly those of a sequential walk up to
  there, none early because a later child would have broken the order
  (`MadeIsBefore`), none missing because an earlier child's is made (`BeforeIsMade`).
- `EngineProofs`.  All of the block loop's safety.  The invariants
  build on one another, and each action is shown once to keep each:
  - `ClockInv` gives `ClocksAreCredited` (`CreditedClock`): the types of the clocks
    and that a device sample due is never behind the cursor (`RunsBehind`), without
    which a slice could move the cursor back.
  - `SafelyTyped`, `ClockInv` with the other types, gives `TypesHold` (`TypeOK`).  An
    insert finds its place by the number of entries before it; that the code's
    filters of a queue keep what they should, in order, is `Counting`, shown by the
    least counterexample, since the filter is a recursive function on indices
    (`Retain`) and the prover has no rule of induction.
  - `GroupInv` gives `GroupsFreezeTogether` (`GovernedFrozen`), and needs that no two
    transports govern one group (`OneGovernor`).
  - `NotesInv` gives `EveryNoteEnds` (`NotesEnd`), and needs that a
    transport's lane queue holds entries of its own lanes alone (`LanesTheirOwn`).
  - `StampInv` gives `BundlesRunOnStamp` and `StampsKeepTheirOrder` (`OnStamp`,
    `ArrivalOrder`): every queue is sorted by stamp and then by arrival, and no
    bundle in it is behind the sample it is to run on, its stamp's unless it was late.
  - `LoopInv` gives `LoopsHold` (`InsideLoop`): a slice is cut no later than the wrap.
  - `MarkInv` gives `MarksHold` (`NeverPastMark`): a ramp that ends on a mark was begun
    with room for it; `mark` in the record of a stopping phase is history for this.
  - `LoopsLandInPlace` (`LoopMovesNothing`) is about one step at a time: `put_loop`
    anchors the position it reads, so it stays where it is if the clock it reads by is
    the transport's, which it is when no stopped sample of the block waits to be
    credited (`InFlight`).

  `ReachesExactly`: the sample `PositionAnchor::reaching` answers is one on which the
  position stands where it was asked.
- `SegmentProofs`.  `OneAtATime`: a server about to swap the claim has learnt that the
  one it saw is gone, and what is gone stays gone (`ClaimInv`), for each segment of
  the path.  `WhatIsMapped` (`MapsWhatItSays`) from `DirectoryInv`: every region was
  made once by each segment that made it, under a generation its row has had and, if
  by one alone, in the row's shape (`MadeBy`), a server between two of its stores has
  a generation past every one its segment made (`InHand`), and what a peer has read
  so far is of the row it will find, and of the region unless another segment has
  used its name (`Read`, `Shaped`).  `WindowsAreWhole` (`WindowIsWhole`) from `TapInv`:
  a cell is the last sample written to its place (`Fresh`), and what a reader has
  copied was there when its cursor passed (`Told`), by arithmetic modulo the ring.
  `NoPacketTwiceOrLost` (`EachPacketOnce`) from `RingInv`: the words that wait are
  those of whole packets with consecutive numbers (`Packed`, in `Queue`), so that what
  begins at the tail is a header and the ring is never thrown away (`RingPop`); whoever
  has popped holds what is still at the tail, and whoever handles a packet between what
  was handled and what waits (`Hands`), which the claim allows one server; and every
  number before the first that waits was handled or is in a hand, perhaps a dead one
  (`NoneLost`).  `PackedPush` and `PackedPop` are about the words alone, `Rings`, `Ends`
  and `Moved` about cursors that start again at a multiple of the ring.
- `TransportMirrorProofs`.  The two sides differ while anything is on its way, so
  `MirrorInv` compares the mirror with what the engine will have: `Held(cmds, v, k, f,
  n, g)` says that field `f` of transport `k`, now `v`, is `g` once the first `n` halves
  in the FIFO are applied, and `Final` that it is once they all are.  Its parts are
  `SettingsTold` (of a loop, what was asked for and not what is in force), `GroupsTold`
  (but for a group whose death is in the garbage), `PlacesTold` (the place a locate of a
  stopping phase is to go to counts, and what a mark's return did, or is about to do, is
  excepted), `RunsTold` (but for a transport ending by itself with no run on its way),
  `BoundOnce` (at every `n` no group has two bindings), `FrozenGoverned` and the types.
  A half that is applied changes none of what is final (`ApplyingTells`), a message
  changes it and the mirror alike (`SendingTells`), and a group's death is let go on
  both sides (`FreedKeeps`). With the FIFOs empty, ramps over and loops in force `Final`
  is what there is: `MirrorAgrees`, `EachGroupOneTransport`, `NoGroupLeftFrozen`
  (`Agree`, `OneTransport`, `NoneLeftFrozen`).
- `LaneFeedProofs`.  `LaneInvariant` follows an entry over the command FIFO, the
  engine's queue and the garbage FIFO.  `Marked` (what the lane holds to be queued is
  on one of the three) and the types hold always: `NoneIsLost` (`MarkedIsOnItsWay`).
  While nothing has gone amiss `FeedInv` does too.  Its parts: no two on their way are
  one event of one generation (`Distinct`); what is on its way is of the lane's
  generation and marked, or of an earlier one (`AllKnown`), so that what is not marked
  may be sent; a clear comes between two generations, so the engine's queue has one
  (`Cut`); what no clear waits behind is of the score as it is (`AllCurrent`); and
  what sounded in this pass the position has passed, in the score and in what waits
  (`AllPast`), so that an event fed again from an old position waits for the next
  pass.  `OnceQueued` (`OnceOnTheQueue`) follows from `Distinct` and `Cut`,
  `OnceSounded` (`OncePerPass`) from `AllPast` and the queue's being sorted
  (`Sorted`).  Neither is inductive: the queue alone does not say what comes back.
  The parts are stated of any lane and any commands, so that a handler is a chain of
  three lemmas: a command sent (`Appended`), a clear (`CutOff`), a feed (`FedKeeps`).
  That a feed sends nothing twice is `DueIs`: the spans do not overlap unless the
  position is before a loop the window goes past.  The end mark and the reports of
  ends only cut what is fed and restart it, which the same lemmas take.
- `NodesProofs`, of the tree, of its mirror and of the index.

  *The operations.*  `Grown` is what all of them keep: the record is of the live nodes,
  finitely many (`Shaped`); a group has once each the nodes whose parent it is
  (`Linked`); and every set of nodes without the root has one whose parent is outside
  it (`Rooted`).  The last says that parents lead to the root without counting steps:
  a set of nodes that would be cut off has a node at its top.  It is what makes the
  function `Above` exist (`AboveIs`), what a move must keep, since moving a group
  under itself makes just such a set, and the induction of everything about subtrees.
  The loops are functions of the number of turns taken, and the prover has no rule of
  induction: it is derived, for sets, from `<` being well founded on the naturals
  (`Induction`), and each loop has an invariant of its own.  The stack of
  `free_subtree` holds what is still to visit, each once, and all it visited is under
  its root (`Walked`), so that after a turn for each live node it is empty and what it
  visited is the subtree, groups first (`ByStackIs`).  `Came` follows a chain of
  frees: some nodes are kept with all above them, and the deaths so far are the nodes
  gone, with the parents they had at first.  `Made` is what an operation makes: who
  dies (`FreeMade`, `FreeAllMade`, `DeepFreeMade` and, one done action after the other,
  `ApplyMade`), who is paused, that rows are thinned and nothing else, and the report.
  `InsertGrows` and `MoveGrows` are about rows that get an entry.

  *The tree.*  `TreeInvariant` is `Grown` with ids of their own for synths and groups
  (`Named`), the capacities (`Sized`) and the types of the queue (`Queued`).  From it
  `StaysForest` (`Forest`), and, as both are about any operation on the tree there is,
  `DeathsAreReported` (`ReportsDeaths`) and `DoneActionsAsDescribed`
  (`DoneActionAsDescribed`).

  *The ids given out.*  `FreeIdsAreDead` is not inductive: a death told returns an id,
  and nothing in the property says that the id has not been given to another node by
  then.  `InOnePlace` does: an id not in `reused` is in the audio thread's tree, in one
  command on its way there, in the garbage as refused, or in the events as dead, in one
  of these and there once, and such an id is in use.  What was asked for by number
  while in use may be anywhere any number of times, and `Once` and `ApartBut` say the
  rest without it.  `AppliedMakes` and `ReportsKeep` carry it
  over a command, whose deaths are all told, by what is `Made`; `FreeIdsStayDead`
  follows.

  *The index.*  `IndexInvariant` and `AlwaysFinds` (`Finds`).  `Finds` is not
  inductive: a lookup crosses other ids' cells.  The invariant says that every id
  held has one entry, with its slot (`Recorded`); that every cell from an entry's
  home up to it is in use (`Reached`), the hole of a removal counting as used; that
  of the entries a removal has passed none has the hole on its path (`Passed`),
  which is what `Stays`, the code's test across the table's end, decides; and that
  a cell stays empty (`Roomy`), by counting.  That a lookup finds the nearest stop
  takes the least element of a set of distances.
- `JobsProofs`.  `SyncBarrier` (`SyncIsBarrier`) from an invariant that says the
  numbers of a pipeline's results and requests run on from its drained count to its
  submitted one (`Numbered`), and that an answered barrier's targets are at most
  the drained counts (`Barriers`).  The counts alone then tell, because a pipeline
  answers in the order of its submissions.  `BuffersAlwaysExist`: no job, result,
  mirror or chain names a buffer that was never made.
  `WritesStay` (`WritesLand`) needs to know where a write is at every step of its
  way (`WritesInvariant`).  `Counted`: `nrt_replacing` is the number of the
  replacements under way, and every result that moves the mirror is one of them,
  so with none owed none is on its way.  `Chained`: the queue's own buffer is what
  the last of those results installs.  `ToRun`: a write not run yet finds its
  snapshot to be the mirror's buffer, or replacements ahead of it.  `Landed`: of
  one that ran, the mirror carries it or waits for a result no later than it; while
  one is owed the queue's own buffer carries it; results after it install that
  buffer; and an install from before it is followed by another no later than it,
  so that no drain ends on samples without it.  The numbers of `Numbered` stand
  for the places in the queues: the steps are proved of the sets of requests and
  answers (`QueuedView`, `FinishedView`, `DrainedView`).

- `FedStreamProofs`.  `HeadIsRead` (`HeadIsRing`) from `StreamInv`.  The property is
  far from inductive: while a refill is waited for it says nothing, and it must hold
  as soon as the refill lands.  The epochs run on without a gap from the one
  published, over the one the owner took and has not told, to the last one asked for
  (`Counted`), and there are too few between for one to come round to another
  (`Apart`): a reader that finds its epoch published has nothing left in its request
  ring.  Until then the refill waited for is last in that ring (`Asking`), or the
  owner has it: what was pushed since the boundary is the reading asked for
  from its first frame on, and the owner is at its end (`Served`).  Landed, the ring
  reads on from the head in the loop the reader has, and the owner is where it ends
  (`Reading`).  The last three hold of a reader whose last refill was not refused;
  that frames advance in two parts as in one (`AdvanceSum`) carries them through a
  skip and a chunk.  Each of the reader's functions is shown to keep them, of any
  record.

Only model-checked: liveness (`BlocksEnd`, `ForkJoinLiveness`, `DropJoins`,
`FinishedGo`, `SyncsAnswered`, `FeedCatchesUp`, `RefillsLand`), which the prover
cannot treat; and so far `Converges`,
which needs that each operation of the tree commutes with the deaths not yet heard
of, and `ReadyIsHeard`.  Working out an invariant for the latter is what found the
last three disagreements under *Disk streaming*.

## Findings

These disagreements between the code and what it says of itself were met while
modelling.  None has a run of its own: where a property above has an exception, it
is one of these.

*Engine.*

- A timed locate of a stopped transport inside a block is anchored before the
  block's stopped samples are credited (`engine.rs` 2179): the position lags after
  a play.  `view_of` (1477-1490) has the other side of it: a slice that begins
  inside a block gives the readers of a stopped transport a position that moves.
- A loop a bundle puts in place on a transport that has stood still since an earlier
  sample of the block is anchored by a clock that those samples, not credited until
  the bundle is over or the block is (1857-1866, 1433-1437), have run on (`put_loop`,
  1469-1473): the position moves by as many, where the comment above it (1466-1468)
  says "turning a loop on does not move the transport", as `commands/transport.rs`
  355-356 and `docs/schemas.md` 455 do.  Any timed loop
  that falls inside a block of a stopped transport does it: without the exception for
  it TLC refutes `LoopMovesNothing` on the `ramps` run.
- A loop change that waits for its readers may land past its own end and never
  wraps (1505), where `docs/schemas.md` 455 says it "wraps when it first reaches
  the end" and engine.rs 500-501 that it "takes effect a pass later".
- A ramp rolls past the loop's end (658), and a play that calls it off leaves the
  transport outside its loop for good.
- A wrap releases lane notes (1734); `docs/schemas.md` 485 says it releases nothing.
- `ClearLane` (2356-2381) ends a lane's node notes whether or not `release` is set;
  its comment (285-287) says that without it they stay.
- With the release queue full and a start of several commands, the release runs as
  the first of them is applied (1827).

*Pool and stages.*

- A parked flag still in its store buffer is missed by the conductor
  (`workers.rs` 265): the worker sleeps through the stage, which is finished
  without it.  A late worker may validate and read a job after `run_stage` has
  returned (293); it takes no item.
- `StageMask` (`dsp/mod.rs` 569-590) holds buses and not buffers, so a child that
  writes a buffer and one that reads it share a stage; `docs/parallel.md` says
  parallel rendering is bit-identical.  `Stages` models buses alone.
- Done actions of a parallel group's members are queued in the order they ran, and
  two that are about each other leave a different tree in each order.

*Node ids.*

- A done action is queued by id and applied at the block's end to whichever node has
  the id then (`engine.rs` 1949-1963, `node/mod.rs` 1265).  A bundle inside the block
  may free the node and give its id to another, which is freed in its place; the
  comment (1952-1954) has only the id that is gone, "a harmless no-op".
- A message may ask for an id that is in use (`translate/typed.rs` 65-71, 113).  The
  engine refuses the node as a duplicate, and the refusal returns the id to its
  registry and tells every client that it is theirs again (`lifecycle.rs` 714-735),
  while the first node lives under it: the id may be given out once more, against
  "ids recycle as nodes die" (`translate/mod.rs` 1406-1409) and the comment at 715-721,
  which sees that the first node is alive and returns its id all the same.  So does the
  death of a group whose id was taken anew before it was told (742-747 look at synths
  alone).

*Mirrors.*

- A pass that ends on a mark with a return goes there (`engine.rs` 1779-1781), and
  `on_transport_ended` (`commands/transport.rs` 453-462) does not write it down: the
  beat in a `/transport_query.reply` is that of the last locate while its
  `positionSample` is the return's, until the next locate.  `docs/schemas.md` 453 says
  of the two that they are "kept in step, so the two fields never disagree".

- A play from a place is a locate and a run (`commands/transport.rs` 222-224).  While
  the transport ramps down from a stop, the engine keeps the locate for when the
  ramp ends, and the run calls the ramp off and the locate with it (`engine.rs`
  713): the transport plays on from where it was, and every client is told the
  place.
- A node moved next to one that has died is refused by the engine and moved in the
  mirror; an addition the engine rejects stays in the mirror, where
  `osc/graph.rs` 571-572 says a rejection rolls it back; a batch the full FIFO
  refuses (`osc/server/mod.rs` 610) has changed the mirror and taken its id; a
  group freed by a done action never leaves the mirror; and garbage of a node whose
  id names a new one by then removes the new one.
- A death whose event is drained while its garbage waits is dropped, since the
  mirror still has the id (`lifecycle.rs` 742): `/node_end` is never told and the
  id never returned, against `docs/architecture.md` 177.
- A play from a beat whose run the FIFO refuses leaves the locate done, and a
  `/transport_set` may be left half done, where `commands/transport.rs` 105-109
  says that a full FIFO leaves everything as it was.
- A play said before a group is bound is not sent when it is: the mirror says it
  plays, the engine has the group frozen (527-544).
- The report of an end on the mark, handled after a later play was sent, sets the
  mirror to stopped (453).
- The unbinding of a freed group is sent without looking whether it was taken
  (`lifecycle.rs` 676-695).
- A locate's pending mark is cleared when a block that was already under way is
  published (`lanes.rs` 1312-1318), before the locate has been applied.

*Lanes and jobs.*

- A lane made again under its id starts its generations at 0 (`lanes.rs` 646), so an
  entry of the one before unmarks an event of the new one, against 150-151; and a
  clear the FIFO refuses after the queued set was cleared (693-713) leaves the old
  entries beside the new.  Either way an event sounds twice.
- With a loop set and the position past the loop's end the engine goes by the loop
  alone (`edge_due`, `engine.rs` 662-673, returns before it looks at the mark) and
  rolls past its end mark, while `ahead` (`lanes.rs` 540-547) feeds nothing past it:
  what the transport plays there is silent.  `engine.rs` 652-653 says that "a transport
  never rolls past its mark", and 653-654 that the loop wins "since the position wraps
  before it could reach the mark", which is so only short of the loop's end.
- `ahead` (`lanes.rs` 524-533), asked from before a loop with a window that goes past
  its end, answers two spans that overlap: up to the loop's end, and again from its
  start.  `feed` (752-769) lists what is due in both before it marks any, so the events
  in the second are sent twice and fire together, where 515-520 says that an event is
  fed once per pass; the test of a loop shorter than the window ("one pass, never an
  event twice", 1390) asks from inside it.  Without the exception TLC refutes
  `OnceOnTheQueue` on the `feed` run.
- After a replacement that failed, a job chained behind it takes the chain's old
  buffer and installs it again (`nrt.rs` 316-346), undoing what was written since
  or a buffer installed from outside; reads and generators queued behind a
  replacement build on the buffer of when they were parsed (`async_pipes.rs`
  382-388); and a refused swap leaves the mirror moved (432).

*Disk streaming.*

- `keep_outgoing` (`stream.rs` 517-547) labels the frames it keeps with the frame the
  transport is at, also when the ring's head is elsewhere, and they are played under
  that label; its documentation (24-25) says a reader never plays what the ring held
  before.
- A change that is ready lands at the old loop's end and sends the position to the
  new loop's start, also when the new loop ends later and the reader reads on past
  the old end; `cross_edge` (`engine.rs` 1689-1694) says the position goes where the
  readers read.
- `serve` takes the list at the start of a turn and the request later in it
  (`take.rs` 733-745): an edit and its refill may fall between, and the refill is
  then rendered from the old list, against 26.
- A refill the full request ring refuses leaves the reader's loop and head unlike
  what the owner renders, until it is asked again.  One refused as the kept frames
  run out (`stream.rs` 456) does so in the middle of what is played: the reading
  of the other loop lands, the reader says it is ready on it, and the frames heard
  are not those of the transport's places.
- A loop put in place on its own end wraps at once (`engine.rs` 663-671), also under a
  transport that was cued there: the play goes to the loop's start, what the reader
  was cued with is not played, and it is silent until a refill lands.
- `looped` takes for ready the lead or "what is left of the list", so that a reader
  "is not starved once it goes on" (`stream.rs` 677-683), but measures what is left
  from the ring's head and adds the kept frames, which come before it: near the list's
  end a reader says it is ready with less than is left to play, and starves.
- A loop put in place on its own end, on the word of frames kept from the old one,
  wraps at once, and the reader is silent.
- A locate in the middle of a crossfade does not reset it; an edit first seen in the
  slice after a wrap is a silence and not a fade, since the position is not where
  the last slice said it would go on; and with an edit and a loop change at once
  `looped` counts a ring that is not at the transport's place.

*Shared segment.*

- `tap_read_latest` asks whether the cursor has gone a whole ring past the window's
  start (`shm.rs` 799).  The block the writer is copying is counted after it is
  copied, so a window whose first samples are under it passes, where 773-777 says
  that the check turns "impossible in practice" into checked.
- `publish_buffer` stores a row's shape with relaxed stores between two releases
  (823-842), and `buffer_info` loads it with relaxed loads (859-880).  On a machine
  that reorders them a shape may be seen before the even generation, or after the
  second load, where 857-858 says that a row caught mid-write is re-read.
- The sink a recorder writes its frontier to carries the buffer's number alone
  (`ipc.rs` 598), so one still filling a buffer that was replaced raises the frontier
  of the take that follows, which "starts unwritten" (`shm.rs` 838-839).
- A session that closes gives the claim back and then removes the segment
  (`nrtsession.rs` 346-358): a server that adopted it between the two serves a
  segment nobody else can open, and its regions lose their names with the rest.  A
  sweep that found the holder dead (`ipc.rs` 169-174) does the same to a server that
  adopts before it removes; and a removal takes the names of whatever segment has
  the path by then.
- A segment made where one was removed (`ipc.rs` 350-366) starts its generations at 0
  and makes the names of the old one's regions again, while the removal leaves the
  old one's rows as they were (`nrtsession.rs` 354-358, `ipc.rs` 102-118).  A peer
  that still has the old segment reads its row, finds a file of that name and maps
  it, if it is not too short (`region.rs` 72-83): the new segment's samples under the
  old one's shape.  `region.rs` 16-18 says of what is freed that "the next allocation
  takes a new generation and therefore a new name -- so a stale mapping can never be
  aliased onto new samples", and 46-47 that "a freed buffer's file and its
  replacement never share a name"; that is so of one segment (`MapsWhatItSays`), and
  TLC finds the peer if the exception for a name two segments have used is dropped.
  A server that goes on with a removed segment, and one with the new, truncate each
  other's regions (`Region::create`, 56-65).
- A server killed after it published a row and before it made the region leaves a
  live row whose file is missing until the next install, and the regions of a dead
  owner are not unlinked when its adopter replaces them.

## What is not modelled, and why

- Samples, levels and UGens: floating-point signal processing has no small
  instance.
- Within the modules: buses, buffers and control messages of nodes, and the sort
  of automatic groups (`Trees`); `/node_start`, graph voices and the capacity of
  the event FIFO (`TreeMirror`); what the tempo is, the pending locate and broadcasts
  (`TransportMirror`); how an event becomes commands, events that cannot be built,
  ramps and loop changes that wait, several lanes, and draining the FIFO in the middle
  of a handler (`LaneFeed`); several buffer numbers, the samples themselves, and the
  browser's inline and delegating runners (`Jobs`); what is listed under `FedStream`
  above, and with it `DiskIn`, the I/O thread and the page's reader.
- Decoding, dispatch, streams, profiles; graph definitions and bus usage.
- Network edge, documents: in the plan; the device epoch's filter and the rest of the
  shared segment (`Segment` above) too.
- Audio devices, MIDI ports, Faust's compiler, plug-in helpers, start-up: I/O
  and foreign code; the device's pace is a fairness assumption.
- Clients in Python and TypeScript, editors, scripts: not part of the server.
