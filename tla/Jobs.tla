-------------------------------- MODULE Jobs --------------------------------
(***************************************************************************)
(* The work that does not finish inside one turn of the network loop       *)
(* (osc/server/async_pipes.rs, server/nrt.rs).  Every pipeline is a FIFO   *)
(* to one worker thread and a FIFO back; /server_sync compares the counts  *)
(* submitted and drained.  The buffer pipeline (Nrt) is modelled with what *)
(* its jobs do to ONE buffer number, the others as jobs that just finish.  *)
(*                                                                         *)
(* A buffer is a number into "cells", whose entry is the set of the jobs   *)
(* whose samples it carries: a write in place adds its own to the very     *)
(* cells others hold, a new buffer is a new entry.                         *)
(***************************************************************************)
EXTENDS Naturals, Sequences, FiniteSets

CONSTANTS Pipes,        \* the pipelines, Nrt among them
          Nrt,          \* the buffer pipeline
          Shared,       \* this server keeps its samples in mapped regions
          MaxJobs,      \* bound: jobs received by each pipeline
          MaxLoads,     \* bound: buffers installed from outside the queue
          MaxSyncs,     \* bound: barriers received
          MaxFailures,  \* bound: jobs that fail
          MaxRefusals   \* bound: swaps the command FIFO refuses

ASSUME JobsAssumption ==
    /\ Nrt \in Pipes
    /\ Shared \in BOOLEAN
    /\ MaxJobs \in [Pipes -> Nat]
    /\ {MaxLoads, MaxSyncs, MaxFailures, MaxRefusals} \subseteq Nat

VARIABLES submitted, drained,  \* OscServer::*_submitted, *_drained
          requests, results,   \* the channels to and from each worker
          syncs, replied,      \* OscServer::pending_syncs, and those answered
          net,                 \* the pipeline the network thread is draining
          cells,               \* every buffer made, by what it carries
          mirror, played,      \* the buffer of the translator, of the engine
          chain,               \* NrtChain's entry
          replacing,           \* OscServer::nrt_replacing
          done,                \* buffer jobs answered /done
          standing,            \* writes no replacement was asked for since
          loads, failures, refusals

queues == <<submitted, drained, requests, results>>
barrier == <<syncs, replied>>
pool == <<cells, mirror, played>>
counted == <<loads, failures, refusals>>
vars == <<queues, barrier, net, pool, chain, replacing, done, standing, counted>>

None == 0      \* no buffer
Idle == "idle" \* the network thread is handling messages, not results

Replacing == {"alloc", "gen", "free"}    \* allocRead and read are such too
InPlace == {"set"}                       \* and /buffer_fill
Kinds == Replacing \cup InPlace \cup {"store"}  \* store: /buffer_write

\* What has been received and not answered.
Outstanding ==
    UNION { {<<p, requests[p][i].no>> : i \in 1..Len(requests[p])}
            \cup {<<p, results[p][i].no>> : i \in 1..Len(results[p])}
            : p \in Pipes }

-----------------------------------------------------------------------------
\* --- Receiving ------------------------------------------------------------

OwesUnchained(kind, chained) == kind \in Replacing

Owes(kind, chained) == kind \in Replacing \/ (chained /\ kind \in InPlace)

Queue(p, kind, base, chained) ==
    /\ submitted[p] < MaxJobs[p]
    /\ submitted' = [submitted EXCEPT ![p] = @ + 1]
    /\ requests' = [requests EXCEPT ![p] = Append(@,
         [no |-> submitted[p] + 1, kind |-> kind, base |-> base, chained |-> chained])]
    /\ UNCHANGED <<drained, results>>

\* parse_buffer_msg takes its snapshot of the mirror, then submit_nrt.
Submit(kind) ==
    LET chained == replacing > 0 IN
    /\ net = Idle
    /\ kind \notin {"alloc", "free"} => mirror # None
    /\ Queue(Nrt, kind, mirror, chained)
    /\ replacing' = replacing + (IF Owes(kind, chained) THEN 1 ELSE 0)
    /\ standing' = IF kind \in Replacing THEN {}
                   ELSE IF kind \in InPlace THEN standing \cup {submitted[Nrt] + 1}
                   ELSE standing
    /\ UNCHANGED <<barrier, net, pool, chain, done, counted>>

\* A job of another pipeline: a Faust def to compile, a plug-in scan.
Compile(p) ==
    /\ net = Idle
    /\ p # Nrt
    /\ Queue(p, "compile", None, FALSE)
    /\ UNCHANGED <<barrier, net, pool, chain, replacing, done, standing, counted>>

TargetsNrt == [p \in Pipes |-> IF p = Nrt THEN submitted[p] ELSE 0]

Targets == submitted

\* awaits is what the barrier is over; the code keeps the counts alone.
Barrier == [id      |-> Cardinality(syncs) + Cardinality(replied) + 1,
            target  |-> Targets,
            awaits  |-> Outstanding]

ReachedExactly(sync) == \A p \in Pipes : drained[p] = sync.target[p]

Reached(sync) == \A p \in Pipes : drained[p] >= sync.target[p]

Resolve(pending) ==
    LET ready == {s \in pending : Reached(s)} IN
    /\ syncs' = pending \ ready
    /\ replied' = replied \cup ready

Sync ==
    /\ net = Idle
    /\ Barrier.id <= MaxSyncs
    /\ Resolve(syncs \cup {Barrier})
    /\ UNCHANGED <<queues, net, pool, chain, replacing, done, standing, counted>>

-----------------------------------------------------------------------------
\* --- The workers ----------------------------------------------------------

Finish(p, outcome, buffer, owed) ==
    /\ requests[p] # <<>>
    /\ requests' = [requests EXCEPT ![p] = Tail(@)]
    /\ results' = [results EXCEPT ![p] = Append(@,
         [no |-> Head(requests[p]).no, outcome |-> outcome,
          buffer |-> buffer, owed |-> owed])]
    /\ UNCHANGED <<submitted, drained>>

Work(p) ==
    /\ p # Nrt
    /\ Finish(p, "none", None, FALSE)
    /\ UNCHANGED <<barrier, net, pool, chain, replacing, done, standing, counted>>

Answer(job, outcome, buffer) ==
    Finish(Nrt, outcome, buffer, Owes(job.kind, job.chained))

\* A new buffer, made from nothing or from the snapshot's samples.
Build(job) ==
    LET new == Len(cells) + 1
        from == IF job.kind = "gen" THEN cells[job.base] ELSE {}
    IN /\ cells' = Append(cells, from \cup {job.no})
       /\ chain' = new
       /\ Answer(job, "install", new)

\* What a write in place builds on: the queue's own buffer while a replacement
\* is owed, else the snapshot.
Base(job) == IF job.chained /\ chain # None THEN chain ELSE job.base

\* Written into the queue's own buffer: installed again.
Write(job) ==
    LET into == Base(job)
        queued == job.chained /\ chain # None
    IN /\ cells' = [cells EXCEPT ![into] = @ \cup {job.no}]
       /\ Answer(job, IF queued THEN "install" ELSE "wrote", into)
       /\ chain' = chain

Fail(job) ==
    /\ job.kind \in {"alloc", "gen", "store"}
    /\ failures < MaxFailures
    /\ failures' = failures + 1
    /\ Answer(job, "error", None)
    /\ UNCHANGED <<cells, chain, loads, refusals>>

Succeed(job) ==
    /\ \/ job.kind \in {"alloc", "gen"} /\ Build(job)
       \/ job.kind \in InPlace /\ Write(job)
       \/ job.kind = "free" /\ Answer(job, "clear", None)
                            /\ chain' = None /\ cells' = cells
       \/ job.kind = "store" /\ Answer(job, "none", None) /\ UNCHANGED <<cells, chain>>
    /\ UNCHANGED counted

\* NrtThread's loop, one request: chain.run, then the result.
Run ==
    /\ requests[Nrt] # <<>>
    /\ LET job == Head(requests[Nrt]) IN Succeed(job) \/ Fail(job)
    /\ UNCHANGED <<barrier, net, mirror, played, replacing, done, standing>>

-----------------------------------------------------------------------------
\* --- Draining -------------------------------------------------------------

\* Send SetBuffer: taken, or refused by the full FIFO after the mirror moved.
Taken(buffer) == played' = buffer /\ refusals' = refusals

Refused ==
    /\ refusals < MaxRefusals
    /\ refusals' = refusals + 1
    /\ played' = played

\* install_buffer's share_buffer: the one copy, into the region it will live in.
Share(buffer) ==
    IF Shared THEN /\ cells' = Append(cells, cells[buffer])
                   /\ mirror' = Len(cells) + 1
              ELSE /\ cells' = cells
                   /\ mirror' = buffer

Say(no, taken) == done' = IF taken THEN done \cup {no} ELSE done

Apply(result) ==
    \/ /\ result.outcome = "install"
       /\ Share(result.buffer)
       /\ \/ Taken(mirror') /\ Say(result.no, TRUE)
          \/ Refused /\ Say(result.no, FALSE)
    \/ /\ result.outcome = "clear"
       /\ mirror' = None /\ cells' = cells
       /\ \/ Taken(None) /\ Say(result.no, TRUE)
          \/ Refused /\ Say(result.no, FALSE)
    \/ /\ result.outcome \in {"wrote", "none", "error"}
       /\ Say(result.no, result.outcome # "error")
       /\ UNCHANGED <<pool, refusals>>

Dequeue(p) ==
    /\ net \in {Idle, p}
    /\ net' = p
    /\ results[p] # <<>>
    /\ results' = [results EXCEPT ![p] = Tail(@)]
    /\ drained' = [drained EXCEPT ![p] = @ + 1]
    /\ UNCHANGED <<submitted, requests>>

\* One result of collect_faust_results, and one of collect_nrt_results.
Collect(p) ==
    /\ p # Nrt
    /\ Dequeue(p)
    /\ UNCHANGED <<barrier, pool, chain, replacing, done, standing, counted>>

CollectNrt ==
    /\ Dequeue(Nrt)
    /\ LET result == Head(results[Nrt]) IN
         /\ replacing' = replacing - (IF result.owed THEN 1 ELSE 0)
         /\ Apply(result)
    /\ UNCHANGED <<barrier, chain, standing, loads, failures>>

\* No result left: resolve_syncs, and back to the messages.
EndCollect ==
    /\ net # Idle
    /\ results[net] = <<>>
    /\ net' = Idle
    /\ Resolve(syncs)
    /\ UNCHANGED <<queues, pool, chain, replacing, done, standing, counted>>

\* A buffer installed outside the queue: the embed door, /buffer_attach.  It
\* carries no job.
Load ==
    /\ net = Idle
    /\ loads < MaxLoads
    /\ loads' = loads + 1
    /\ cells' = Append(cells, {})
    /\ mirror' = Len(cells) + 1
    /\ Taken(mirror') \/ Refused
    /\ standing' = {}
    /\ UNCHANGED <<queues, barrier, net, chain, replacing, done, failures>>

Init ==
    /\ submitted = [p \in Pipes |-> 0] /\ drained = submitted
    /\ requests = [p \in Pipes |-> <<>>] /\ results = requests
    /\ syncs = {} /\ replied = {} /\ net = Idle
    /\ cells = <<>> /\ mirror = None /\ played = None /\ chain = None
    /\ replacing = 0 /\ done = {} /\ standing = {}
    /\ loads = 0 /\ failures = 0 /\ refusals = 0

Receive ==
    \/ \E kind \in Kinds : Submit(kind)
    \/ \E p \in Pipes : Compile(p)
    \/ Sync
    \/ Load

Next ==
    \/ Receive
    \/ Run
    \/ \E p \in Pipes : Work(p)
    \/ CollectNrt
    \/ \E p \in Pipes : Collect(p)
    \/ EndCollect

\* Each worker takes what is sent to it, and the network loop collects results
\* after every packet and on its idle tick.
Fairness ==
    /\ WF_vars(Run)
    /\ \A p \in Pipes : WF_vars(Work(p))
    /\ WF_vars(CollectNrt \/ (\E p \in Pipes : Collect(p)) \/ EndCollect)

Spec == Init /\ [][Next]_vars /\ Fairness

-----------------------------------------------------------------------------
\* --- Properties -----------------------------------------------------------

\* A barrier answered means every asynchronous command received before it, in
\* any pipeline, has been answered (async_pipes.rs:139-144): one pipeline's
\* results never stand in for another's, and the drain of several results at
\* once never passes a job over.
SyncIsBarrier == \A s \in replied : s.awaits \cap Outstanding = {}

\* A write that has been answered /done is in the buffer the engine plays as
\* long as nothing was asked to replace that buffer after the write was: the
\* write may have been queued behind a replacement, run before or after the
\* copy into a shared region, or been followed by other writes (NrtChain).
\* With no buffer, or with the mirror's swap refused, there is nothing to say.
WritesLand ==
    (played = mirror /\ mirror # None) =>
        done \cap standing \subseteq cells[mirror]

\* Every barrier is answered: the counts catch up whatever order the pipelines
\* finish in, and a drain that jumps past a barrier's target still answers it.
SyncsAnswered == \A i \in 1..MaxSyncs :
    (\E s \in syncs : s.id = i) ~> (\E s \in replied : s.id = i)

=============================================================================
