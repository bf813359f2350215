------------------------------- MODULE Segment -------------------------------
(***************************************************************************)
(* The shared segment (src/crates/clausters-core/src/shm.rs and            *)
(* src/server/ipc.rs): the claim of the command plane, the ring a client's *)
(* packets come in by, one row of the buffer directory with the region     *)
(* files it names, and one audio tap.  Servers may be started, killed and  *)
(* closed at any moment, and adopt the segment at the path, or make one    *)
(* when the path has none; those that had the one before go on with it.  A *)
(* segment is called by the server that made it.                           *)
(*                                                                         *)
(* A pid is never used twice, and no two servers make a segment at once.   *)
(* A ring cell is four bytes, and says which word of which packet it is; a *)
(* tap's sample is its place in the stream.  The stores of one process are *)
(* seen in the order they are made.  The ring of replies is the same code  *)
(* with the roles changed.                                                 *)
(***************************************************************************)
EXTENDS Integers, Sequences, FiniteSets

CONSTANTS
    Servers,        \* processes that open the path, each once
    None,
    Cap,            \* RING_CAPACITY, in words
    Cursors,        \* what a ring cursor counts up to: 2^32 in the code
    PacketWords,    \* sizes of packets
    FrameCounts,    \* shapes of buffers
    TapFrames,      \* samples of a tap's ring
    TapBlock,       \* samples written a block
    Windows,        \* sizes of windows asked for
    Budgets         \* servers started, sweeps, packets, installs and frees, and blocks
                    \* of one behaviour

ASSUME SegmentAssumption ==
    /\ {Cap, Cursors, TapFrames, TapBlock} \subseteq Nat \ {0}
    /\ Cursors % Cap = 0 /\ Cursors > Cap /\ TapFrames % TapBlock = 0
    /\ PacketWords \subseteq Nat \ {0} /\ FrameCounts \subseteq Nat \ {0}
    /\ Windows \subseteq 1 .. TapFrames \div 2
    /\ Budgets \subseteq [servers: Nat, sweeps: Nat, packets: Nat, jobs: Nat, blocks: Nat]
    /\ None \notin Servers \cup Nat
    /\ None \notin [read : Seq([id : Nat, word : Nat, words : Nat]), tail : Nat]

VARIABLES
    claim,          \* control_owner, by segment
    here,           \* the segment the path is the name of
    at,             \* the segment each server has
    pc, seen,       \* where each server is, and the claim it loaded
    job,            \* the packet or the buffer a server has in hand
    file,           \* the region a server has the buffer in (shared_buffers)
    sweep,          \* a server that starts beside this path, and sweeps the directory
    ringOf,         \* the segment the client has, whose ring is modelled
    ring, client,   \* the packets' ring and who writes it
    handled,        \* packets handled, in order
    row, region,    \* the directory's row by segment, and the region files by generation
    peer,           \* a process that maps the buffer
    tap, reader,    \* the tap, and who reads it
    left

serving == <<claim, here, at, pc, seen, job, file, sweep>>
plane == <<ringOf, ring, client, handled>>
directory == <<row, region>>
tapping == <<tap, reader>>
vars == <<serving, plane, directory, peer, tapping, left>>

-----------------------------------------------------------------------------
(* The claim. *)

Alive(s) == pc[s] \notin {"new", "gone"}

Goto(s, label) == pc' = [pc EXCEPT ![s] = label]

\* A server opens the segment that is there, or makes one: nobody has its claim, and
\* its generations start at 0.  It wants the command plane.
Open(s) ==
    /\ pc[s] = "new" /\ left.servers > 0
    /\ left' = [left EXCEPT !.servers = @ - 1]
    /\ here' = IF here = None THEN s ELSE here
    /\ at' = [at EXCEPT ![s] = here']
    /\ Goto(s, "load")
    /\ UNCHANGED <<claim, seen, job, file, sweep, plane, directory, peer, tapping>>

Load(s) ==
    /\ pc[s] = "load"
    /\ seen' = [seen EXCEPT ![s] = claim[at[s]]]
    /\ Goto(s, "ask")
    /\ UNCHANGED <<claim, here, at, job, file, sweep, plane, directory, peer, tapping, left>>

\* The operating system is asked for the holder: a live one keeps the claim, and
\* this server serves its clients over sockets, or is a session and gives up.
Ask(s) ==
    /\ pc[s] = "ask"
    /\ Goto(s, IF seen[s] # None /\ Alive(seen[s]) THEN "attached" ELSE "swap")
    /\ UNCHANGED <<claim, here, at, seen, job, file, sweep, plane, directory, peer, tapping, left>>

\* A mistake: the claim is stored, whoever took it since.
WhoeverHolds(s) == TRUE
StillHeld(s) == claim[at[s]] = seen[s]

Swap(s) ==
    /\ pc[s] = "swap"
    /\ IF StillHeld(s)
       THEN claim' = [claim EXCEPT ![at[s]] = s] /\ Goto(s, "idle")
       ELSE Goto(s, "load") /\ UNCHANGED claim
    /\ UNCHANGED <<here, at, seen, job, file, sweep, plane, directory, peer, tapping, left>>

\* The one that serves closes, and gives the claim back.  (One that is attached has
\* nothing to give, and closes as it is killed.)
Release(s) ==
    /\ pc[s] = "idle"
    /\ claim' = [claim EXCEPT ![at[s]] = IF @ = s THEN None ELSE @]
    /\ Goto(s, "closing")
    /\ UNCHANGED <<here, at, seen, job, file, sweep, plane, directory, peer, tapping, left>>

\* remove_segment: the names of the regions beside the path, then its own, whatever
\* segment has it by then.
NoneLinked == [g \in DOMAIN region |-> [region[g] EXCEPT !.linked = FALSE]]

\* A session that made the segment it served removes it; a plain server leaves it.
RemoveRegions(s) ==
    /\ pc[s] = "closing" /\ at[s] = s
    /\ region' = NoneLinked
    /\ Goto(s, "removing")
    /\ UNCHANGED <<claim, here, at, seen, job, file, sweep, plane, row, peer, tapping, left>>

Remove(s) ==
    /\ pc[s] = "removing"
    /\ here' = None
    /\ Goto(s, "gone")
    /\ UNCHANGED <<claim, at, seen, job, file, sweep, plane, directory, peer, tapping, left>>

\* It is killed wherever it is, or has ended: what it shared stays as it left it.
Kill(s) ==
    /\ Alive(s)
    /\ Goto(s, "gone")
    /\ UNCHANGED <<claim, here, at, seen, job, file, sweep, plane, directory, peer, tapping, left>>

\* sweep_dead_segments, by a server that makes its segment elsewhere in the directory:
\* a segment whose holder is dead is found, and then removed.
SweepFinds ==
    /\ sweep = "idle" /\ left.sweeps > 0 /\ here # None
    /\ claim[here] # None /\ ~Alive(claim[here])
    /\ sweep' = "found"
    /\ left' = [left EXCEPT !.sweeps = @ - 1]
    /\ UNCHANGED <<claim, here, at, pc, seen, job, file, plane, directory, peer, tapping>>

SweepRemoves ==
    /\ sweep = "found"
    /\ sweep' = "idle" /\ here' = None /\ region' = NoneLinked
    /\ UNCHANGED <<claim, at, pc, seen, job, file, plane, row, peer, tapping, left>>

-----------------------------------------------------------------------------
(* The ring: FRAME_HEADER is two words, the length and the peer. *)

HeaderWords == 2

ClientOpens ==
    /\ ringOf = None /\ here # None /\ left.packets > 0
    /\ ringOf' = here
    /\ UNCHANGED <<serving, ring, client, handled, directory, peer, tapping, left>>

Used == (ring.head - ring.tail) % Cursors
Words(id, n) == [i \in 1 .. HeaderWords + n |-> [id |-> id, word |-> i, words |-> n]]

\* push: the words are written past the head, and then the head says so.
Push(n) ==
    /\ ringOf # None /\ client.pc = "idle" /\ left.packets > 0
    /\ Cap - Used >= HeaderWords + n
    /\ LET frame == Words(client.next, n)
       IN  ring' = [ring EXCEPT !.cells = [a \in 0 .. Cap - 1 |->
                        LET i == 1 + ((a - ring.head) % Cap)
                        IN  IF i \in DOMAIN frame THEN frame[i] ELSE ring.cells[a]]]
    /\ client' = [client EXCEPT !.pc = "written", !.words = n]
    /\ UNCHANGED <<serving, ringOf, handled, directory, peer, tapping, left>>

PushDone ==
    /\ client.pc = "written"
    /\ ring' = [ring EXCEPT !.head = (@ + HeaderWords + client.words) % Cursors]
    /\ client' = [pc |-> "idle", next |-> client.next + 1, words |-> 0]
    /\ left' = [left EXCEPT !.packets = @ - 1]
    /\ UNCHANGED <<serving, ringOf, handled, directory, peer, tapping>>

\* The client dies between, and another takes its place.
ClientDies ==
    /\ client.pc = "written"
    /\ client' = [client EXCEPT !.pc = "idle", !.words = 0]
    /\ UNCHANGED <<serving, ringOf, ring, handled, directory, peer, tapping, left>>

At(i) == ring.cells[(ring.tail + i - 1) % Cap]

\* try_pop: the packet at the tail is read.  What does not begin with a header is
\* no length to go by, and the ring is emptied.
Pop(s) ==
    /\ pc[s] = "idle" /\ at[s] = ringOf /\ Used > 0
    /\ LET total == HeaderWords + At(1).words
       IN  IF At(1).word # 1 \/ total > Used
           THEN ring' = [ring EXCEPT !.tail = ring.head] /\ UNCHANGED <<pc, job>>
           ELSE /\ job' = [job EXCEPT ![s] = [read |-> [i \in 1 .. total |-> At(i)], tail |-> ring.tail]]
                /\ Goto(s, "popped")
                /\ UNCHANGED ring
    /\ UNCHANGED <<claim, here, at, seen, file, sweep, ringOf, client, handled, directory, peer, tapping, left>>

PopDone(s) ==
    /\ pc[s] = "popped"
    /\ ring' = [ring EXCEPT !.tail = (job[s].tail + Len(job[s].read)) % Cursors]
    /\ Goto(s, "handling")
    /\ UNCHANGED <<claim, here, at, seen, job, file, sweep, ringOf, client, handled, directory, peer, tapping, left>>

Handle(s) ==
    /\ pc[s] = "handling"
    /\ handled' = Append(handled, job[s].read)
    /\ job' = [job EXCEPT ![s] = None]
    /\ Goto(s, "idle")
    /\ UNCHANGED <<claim, here, at, seen, file, sweep, ringOf, ring, client, directory, peer, tapping, left>>

-----------------------------------------------------------------------------
(* The directory: a buffer installed is published and then copied into its   *)
(* region (share_buffer), one cleared is retired.                            *)

Odd(g) == g % 2 = 1
NextOdd(g) == IF Odd(g) THEN g + 2 ELSE g + 1

\* A mistake: the row is not marked as being written.
LeftLit(g) == g
Darkened(g) == NextOdd(g) - 1

Install(s, n) ==
    /\ pc[s] = "idle" /\ left.jobs > 0
    /\ job' = [job EXCEPT ![s] = [generation |-> NextOdd(row[at[s]].generation), frames |-> n]]
    /\ row' = [row EXCEPT ![at[s]].generation = Darkened(@)]
    /\ left' = [left EXCEPT !.jobs = @ - 1]
    /\ Goto(s, "shape")
    /\ UNCHANGED <<claim, here, at, seen, file, sweep, plane, region, peer, tapping>>

Shape(s) ==
    /\ pc[s] = "shape"
    /\ row' = [row EXCEPT ![at[s]].frames = job[s].frames]
    /\ Goto(s, "publish")
    /\ UNCHANGED <<claim, here, at, seen, job, file, sweep, plane, region, peer, tapping, left>>

Publish(s) ==
    /\ pc[s] = "publish"
    /\ row' = [row EXCEPT ![at[s]].generation = job[s].generation]
    /\ Goto(s, "create")
    /\ UNCHANGED <<claim, here, at, seen, job, file, sweep, plane, region, peer, tapping, left>>

\* Region::create makes the file, or truncates the one that has the name.  The
\* history of a name is how often each segment's servers made it.
Create(s) ==
    /\ pc[s] = "create"
    /\ LET g == job[s].generation
           made == IF g \in DOMAIN region THEN region[g].made ELSE [t \in Servers |-> 0]
       IN  region' = [h \in DOMAIN region \cup {g} |->
                        IF h = g THEN [frames |-> job[s].frames, linked |-> TRUE,
                                       made |-> [made EXCEPT ![at[s]] = @ + 1]]
                        ELSE region[h]]
    /\ Goto(s, "replace")
    /\ UNCHANGED <<claim, here, at, seen, job, file, sweep, plane, row, peer, tapping, left>>

CannotCreate(s) ==
    /\ pc[s] = "create"
    /\ Goto(s, "retire")
    /\ UNCHANGED <<claim, here, at, seen, job, file, sweep, plane, directory, peer, tapping, left>>

Unlinked(g) == [h \in DOMAIN region |-> [region[h] EXCEPT !.linked = @ /\ h # g]]

\* The region it replaces goes by name.
Replace(s) ==
    /\ pc[s] = "replace"
    /\ region' = Unlinked(file[s])
    /\ file' = [file EXCEPT ![s] = job[s].generation]
    /\ job' = [job EXCEPT ![s] = None]
    /\ Goto(s, "idle")
    /\ UNCHANGED <<claim, here, at, seen, sweep, plane, row, peer, tapping, left>>

Retired(s) == [row EXCEPT ![at[s]].generation = IF Odd(@) THEN @ + 1 ELSE @]

RetireUncreated(s) ==
    /\ pc[s] = "retire"
    /\ row' = Retired(s)
    /\ job' = [job EXCEPT ![s] = None]
    /\ Goto(s, "idle")
    /\ UNCHANGED <<claim, here, at, seen, file, sweep, plane, region, peer, tapping, left>>

Clear(s) ==
    /\ pc[s] = "idle" /\ left.jobs > 0
    /\ row' = Retired(s)
    /\ left' = [left EXCEPT !.jobs = @ - 1]
    /\ Goto(s, "unlink")
    /\ UNCHANGED <<claim, here, at, seen, job, file, sweep, plane, region, peer, tapping>>

Unlink(s) ==
    /\ pc[s] = "unlink"
    /\ region' = Unlinked(file[s])
    /\ file' = [file EXCEPT ![s] = None]
    /\ Goto(s, "idle")
    /\ UNCHANGED <<claim, here, at, seen, job, sweep, plane, row, peer, tapping, left>>

-----------------------------------------------------------------------------
(* map_buffer: the row under its generation, the file, and the row again.    *)

PeerSteps == <<serving, plane, directory, tapping, left>>

\* The row of the segment the peer has.
Shown == row[peer.at]

\* It opens the segment at the path; what it had mapped it lets go.
PeerOpens ==
    /\ peer.pc = "idle" /\ here \notin {None, peer.at}
    /\ peer' = [peer EXCEPT !.at = here, !.mapped = None]
    /\ UNCHANGED PeerSteps

Look ==
    /\ peer.pc = "idle" /\ peer.at # None /\ Odd(Shown.generation)
    /\ peer' = [peer EXCEPT !.pc = "shape", !.generation = Shown.generation, !.frames = 0,
                            !.mapped = None]
    /\ UNCHANGED PeerSteps

LookShape ==
    /\ peer.pc = "shape"
    /\ peer' = [peer EXCEPT !.pc = "same", !.frames = Shown.frames]
    /\ UNCHANGED PeerSteps

\* A row that moved is read again, or, after eight times, given up.
LookSame ==
    /\ peer.pc = "same"
    /\ peer' = [peer EXCEPT !.pc = IF Shown.generation = peer.generation THEN "open" ELSE "idle"]
    /\ UNCHANGED PeerSteps

OpenRegion ==
    /\ peer.pc = "open"
    /\ LET g == peer.generation
           there == g \in DOMAIN region /\ region[g].linked /\ region[g].frames >= peer.frames
       IN  peer' = [peer EXCEPT !.pc = IF there THEN "again" ELSE "idle"]
    /\ UNCHANGED PeerSteps

\* The row is the one it was while the file was opened, at the second of the two
\* loads of its generation: what came before they have in common.
LookAgain ==
    /\ peer.pc = "again"
    /\ peer' = IF Shown.generation = peer.generation
               THEN [peer EXCEPT !.pc = "idle", !.mapped = [generation |-> peer.generation,
                                                            frames |-> peer.frames]]
               ELSE [peer EXCEPT !.pc = "idle"]
    /\ UNCHANGED PeerSteps

-----------------------------------------------------------------------------
(* The tap. *)

TapSteps == <<serving, plane, directory, peer>>

\* tap_write: a block is copied over the oldest samples, and then counted.
CopyIn ==
    /\ left.blocks > 0 /\ tap.copied < TapBlock
    /\ tap' = [tap EXCEPT !.cells[(tap.cursor + tap.copied) % TapFrames] = tap.cursor + tap.copied,
                          !.copied = @ + 1]
    /\ UNCHANGED <<TapSteps, reader, left>>

Count ==
    /\ tap.copied = TapBlock
    /\ tap' = [tap EXCEPT !.cursor = @ + TapBlock, !.copied = 0]
    /\ left' = [left EXCEPT !.blocks = @ - 1]
    /\ UNCHANGED <<TapSteps, reader>>

\* tap_read_latest: the newest samples are copied, and thrown away if the cursor
\* says they were overtaken.
Window(n) ==
    /\ reader.pc = "idle" /\ tap.cursor >= n
    /\ reader' = [pc |-> "copy", start |-> tap.cursor - n, size |-> n, got |-> <<>>, passed |-> 0]
    /\ UNCHANGED <<TapSteps, tap, left>>

CopyOut ==
    /\ reader.pc = "copy" /\ Len(reader.got) < reader.size
    /\ reader' = [reader EXCEPT
                    !.got = Append(@, tap.cells[(reader.start + Len(reader.got)) % TapFrames])]
    /\ UNCHANGED <<TapSteps, tap, left>>

\* A mistake: it is not asked whether the writer came round.
NotAsked(start) == FALSE
Overtaken(start) == tap.cursor - start > TapFrames

Recheck ==
    /\ reader.pc = "copy" /\ Len(reader.got) = reader.size
    /\ reader' = IF Overtaken(reader.start)
                 THEN [reader EXCEPT !.start = tap.cursor - reader.size, !.got = <<>>]
                 ELSE [reader EXCEPT !.pc = "told", !.passed = tap.cursor - reader.start]
    /\ UNCHANGED <<TapSteps, tap, left>>

Draw ==
    /\ reader.pc = "told"
    /\ reader' = [reader EXCEPT !.pc = "idle"]
    /\ UNCHANGED <<TapSteps, tap, left>>

-----------------------------------------------------------------------------

Init ==
    /\ claim = [t \in Servers |-> None]
    /\ here = None /\ sweep = "idle" /\ ringOf = None
    /\ at = [s \in Servers |-> None]
    /\ pc = [s \in Servers |-> "new"]
    /\ seen = [s \in Servers |-> None]
    /\ job = [s \in Servers |-> None]
    /\ file = [s \in Servers |-> None]
    /\ ring = [head |-> 0, tail |-> 0, cells |-> [a \in 0 .. Cap - 1 |-> None]]
    /\ client = [pc |-> "idle", next |-> 1, words |-> 0]
    /\ handled = <<>>
    /\ row = [t \in Servers |-> [generation |-> 0, frames |-> 0]]
    /\ region = <<>>
    /\ peer = [pc |-> "idle", at |-> None, generation |-> 0, frames |-> 0, mapped |-> None]
    /\ tap = [cursor |-> 0, copied |-> 0, cells |-> [a \in 0 .. TapFrames - 1 |-> None]]
    /\ reader = [pc |-> "idle", start |-> 0, size |-> 0, got |-> <<>>, passed |-> 0]
    /\ left \in Budgets

Claiming(s) ==
    \/ Open(s) \/ Load(s) \/ Ask(s) \/ Swap(s)
    \/ Release(s) \/ RemoveRegions(s) \/ Remove(s) \/ Kill(s)
Sweeping == SweepFinds \/ SweepRemoves
Draining(s) == Pop(s) \/ PopDone(s) \/ Handle(s)
Sharing(s) ==
    \/ \E n \in FrameCounts : Install(s, n)
    \/ Shape(s) \/ Publish(s) \/ Create(s) \/ CannotCreate(s) \/ Replace(s)
    \/ RetireUncreated(s) \/ Clear(s) \/ Unlink(s)
Pushing == ClientOpens \/ (\E n \in PacketWords : Push(n)) \/ PushDone \/ ClientDies
Mapping == PeerOpens \/ Look \/ LookShape \/ LookSame \/ OpenRegion \/ LookAgain
Tapping == CopyIn \/ Count \/ (\E n \in Windows : Window(n)) \/ CopyOut \/ Recheck \/ Draw

Next ==
    \/ \E s \in Servers : Claiming(s) \/ Draining(s) \/ Sharing(s)
    \/ Sweeping \/ Pushing \/ Mapping \/ Tapping

Spec == Init /\ [][Next]_vars

-----------------------------------------------------------------------------

Id(frame) == frame[1].id

\* However servers are killed, closed, started together and take the command
\* plane over, every packet pushed is handled whole, once and in order, or waits
\* in the ring, or was in the hands of a server that was killed with it: the two
\* ends of the ring have one process each (shm.rs:581-596, 901-953).
EachPacketOnce ==
    LET inHand == {Id(job[s].read) : s \in {t \in Servers : job[t] # None /\ "read" \in DOMAIN job[t]}}
        done == {Id(handled[i]) : i \in DOMAIN handled}
        waiting == {ring.cells[(ring.tail + i - 1) % Cap].id : i \in 1 .. Used}
    IN  /\ \A i \in DOMAIN handled : handled[i] = Words(Id(handled[i]), Len(handled[i]) - HeaderWords)
        /\ \A i, k \in DOMAIN handled : i < k => Id(handled[i]) < Id(handled[k])
        /\ 1 .. client.next - 1 \subseteq inHand \cup done \cup waiting

\* Region g is of segment t alone.
OnlyOf(g, t) == \A u \in Servers : region[g].made[u] > 0 => u = t

\* No segment uses a region's name twice, and a process that mapped the buffer has
\* the shape of the region it mapped, whatever was installed and cleared between its
\* loads and wherever the server that wrote the row was killed (shm.rs:823-880,
\* ipc.rs:549-578); but for a name that another segment of the same path has used
\* too, since each counts its generations from 0.
MapsWhatItSays ==
    /\ \A g \in DOMAIN region, t \in Servers : region[g].made[t] <= 1
    /\ peer.mapped # None /\ OnlyOf(peer.mapped.generation, peer.at)
         => peer.mapped.frames = region[peer.mapped.generation].frames

\* A window told holds the samples it says, in order, though its reader may be
\* overtaken at any sample; but for one whose first samples the writer, a ring
\* further, was copying its next block over (shm.rs:769-800).
WindowIsWhole ==
    reader.pc = "told" =>
        \/ \A i \in 1 .. reader.size : reader.got[i] = reader.start + i - 1
        \/ reader.passed \in TapFrames - TapBlock + 1 .. TapFrames
=============================================================================
