----------------------------- MODULE JobsProofs ------------------------------
(***************************************************************************)
(* /server_sync is a barrier, for any pipelines and any number of jobs:    *)
(* the counts alone tell, because each pipeline answers in the order of    *)
(* its submissions.  On the way, every job finds the buffer it builds on.  *)
(* A write answered done is in the buffer that plays (WritesStay): the     *)
(* invariant follows it from the queue to the mirror.                      *)
(***************************************************************************)
EXTENDS Jobs, TLAPS, FiniteSetTheorems

Request == [no: Nat, kind: Kinds \cup {"compile"}, base: Nat, chained: BOOLEAN]

Result == [no: Nat, outcome: {"install", "clear", "wrote", "none", "error"},
           buffer: Nat, owed: BOOLEAN]

QueuesOK ==
    /\ submitted \in [Pipes -> Nat]
    /\ drained \in [Pipes -> Nat]
    /\ requests \in [Pipes -> Seq(Request)]
    /\ results \in [Pipes -> Seq(Result)]

\* The jobs of a pipeline are drained in the order of their numbers, none left
\* out: the results to drain next, then the requests to run next.
Numbered ==
    \A p \in Pipes :
        /\ \A i \in 1..Len(results[p]) : results[p][i].no = drained[p] + i
        /\ \A i \in 1..Len(requests[p]) :
              requests[p][i].no = drained[p] + Len(results[p]) + i
        /\ submitted[p] = drained[p] + Len(results[p]) + Len(requests[p])

\* A barrier awaits no job past its targets.
Measured(sync) ==
    /\ sync.target \in [Pipes -> Nat]
    /\ \A p \in Pipes, n \in Nat : <<p, n>> \in sync.awaits => n <= sync.target[p]

Barriers ==
    /\ \A s \in syncs : Measured(s)
    /\ \A s \in replied : Measured(s) /\ \A p \in Pipes : s.target[p] <= drained[p]

Barred == QueuesOK /\ Numbered /\ Barriers

\* A buffer a job builds on has been made, whatever was freed meanwhile, and
\* so has one a result installs.
BasesExist ==
    \A p \in Pipes : \A i \in 1..Len(requests[p]) :
       /\ requests[p][i].base <= Len(cells)
       /\ requests[p][i].kind \in {"gen", "set", "store"} => requests[p][i].base # None

InstallsExist ==
    \A p \in Pipes : \A i \in 1..Len(results[p]) :
       /\ results[p][i].buffer <= Len(cells)
       /\ results[p][i].outcome = "install" => results[p][i].buffer # None

PoolOK ==
    /\ cells \in Seq(SUBSET Nat)
    /\ mirror \in 0..Len(cells)
    /\ chain \in 0..Len(cells)

BuffersExist == PoolOK /\ BasesExist /\ InstallsExist

-----------------------------------------------------------------------------
\* Appending to a queue leaves what is in it and adds one at the end.
LEMMA Appended ==
    ASSUME NEW S, NEW s \in Seq(S), NEW e \in S
    PROVE  /\ Append(s, e) \in Seq(S)
           /\ Len(Append(s, e)) = Len(s) + 1
           /\ \A i \in 1..Len(s) : Append(s, e)[i] = s[i]
           /\ Append(s, e)[Len(s) + 1] = e
    OBVIOUS

\* Taking the head of a queue moves the others one place forward.
LEMMA HeadTaken ==
    ASSUME NEW S, NEW s \in Seq(S), s # <<>>
    PROVE  /\ Tail(s) \in Seq(S)
           /\ Len(s) \in Nat /\ Len(s) > 0
           /\ Len(Tail(s)) = Len(s) - 1
           /\ \A i \in 1..Len(Tail(s)) : Tail(s)[i] = s[i + 1]
           /\ Head(s) = s[1] /\ Head(s) \in S
    OBVIOUS

\* One more at the end of a sum.
LEMMA OneMore ==
    ASSUME NEW a \in Nat, NEW b \in Nat, NEW c \in Nat
    PROVE  (a + b + c) + 1 = a + b + (c + 1)
    OBVIOUS

\* Every element of a queue is a request, or a result.
LEMMA QueueElements ==
    ASSUME QueuesOK, NEW p \in Pipes
    PROVE  /\ \A i \in 1..Len(requests[p]) : requests[p][i] \in Request
           /\ \A i \in 1..Len(results[p]) : results[p][i] \in Result
<1>1. requests[p] \in Seq(Request) /\ results[p] \in Seq(Result)
  BY DEF QueuesOK
<1> QED
  BY <1>1

-----------------------------------------------------------------------------
\* Submitting a job keeps the numbering (submit_nrt, handle_def_send_faust).
LEMMA QueueKeeps ==
    ASSUME QueuesOK, Numbered,
           NEW p \in Pipes, NEW kind \in Kinds \cup {"compile"}, NEW base \in Nat,
           NEW chained \in BOOLEAN, Queue(p, kind, base, chained)
    PROVE  QueuesOK' /\ Numbered' /\ drained' = drained
<1> DEFINE job == [no |-> submitted[p] + 1, kind |-> kind, base |-> base,
                   chained |-> chained]
<1>1. job \in Request
  BY DEF QueuesOK, Request
<1>2. /\ submitted' = [submitted EXCEPT ![p] = @ + 1]
      /\ requests' = [requests EXCEPT ![p] = Append(@, job)]
      /\ drained' = drained /\ results' = results
  BY DEF Queue
<1>3. /\ requests[p] \in Seq(Request)
      /\ Len(requests[p]) \in Nat /\ Len(results[p]) \in Nat
  BY DEF QueuesOK
<1> HIDE DEF job
<1>4. /\ Append(requests[p], job) \in Seq(Request)
      /\ Len(Append(requests[p], job)) = Len(requests[p]) + 1
      /\ \A i \in 1..Len(requests[p]) :
            Append(requests[p], job)[i] = requests[p][i]
      /\ Append(requests[p], job)[Len(requests[p]) + 1] = job
  BY <1>1, <1>3, Appended
<1>5. QueuesOK'
  BY <1>2, <1>4 DEF QueuesOK
<1>6. job.no = submitted[p] + 1
  BY DEF job
<1>7. Numbered'
  <2> SUFFICES ASSUME NEW q \in Pipes
               PROVE  /\ \A i \in 1..Len(results'[q]) :
                            results'[q][i].no = drained'[q] + i
                      /\ \A i \in 1..Len(requests'[q]) :
                            requests'[q][i].no = drained'[q] + Len(results'[q]) + i
                      /\ submitted'[q] = drained'[q] + Len(results'[q])
                                           + Len(requests'[q])
    BY DEF Numbered
  <2>1. CASE q # p
    <3>1. requests'[q] = requests[q] /\ submitted'[q] = submitted[q]
      BY <1>2, <2>1 DEF QueuesOK
    <3> QED
      BY <1>2, <3>1, ZenonT(30) DEF Numbered
  <2>2. CASE q = p
    <3>1. /\ requests'[p] = Append(requests[p], job)
          /\ submitted'[p] = submitted[p] + 1
      BY <1>2 DEF QueuesOK
    <3>2. /\ submitted[p] = drained[p] + Len(results[p]) + Len(requests[p])
          /\ \A i \in 1..Len(requests[p]) :
                requests[p][i].no = drained[p] + Len(results[p]) + i
          /\ \A i \in 1..Len(results[p]) : results[p][i].no = drained[p] + i
      BY DEF Numbered
    <3>3. drained[p] \in Nat /\ submitted[p] \in Nat
      BY DEF QueuesOK
    <3>4. ASSUME NEW i \in 1..(Len(requests[p]) + 1)
          PROVE  requests'[p][i].no = drained[p] + Len(results[p]) + i
      <4>1. CASE i = Len(requests[p]) + 1
        <5>1. requests'[p][i] = job
          BY <1>4, <3>1, <4>1
        <5> QED
          BY <1>3, <1>6, <3>2, <3>3, <4>1, <5>1, SMTT(30)
      <4>2. CASE i # Len(requests[p]) + 1
        <5>1. i \in 1..Len(requests[p])
          BY <1>3, <4>2
        <5> QED
          BY <1>4, <3>1, <3>2, <5>1
      <4> QED
        BY <4>1, <4>2
    <3>5. Len(requests'[p]) = Len(requests[p]) + 1
      BY <1>4, <3>1
    <3>6. \A i \in 1..Len(requests'[p]) :
             requests'[p][i].no = drained'[p] + Len(results'[p]) + i
      BY <1>2, <3>4, <3>5
    <3>7. submitted'[p] = drained'[p] + Len(results'[p]) + Len(requests'[p])
      <4>1. drained'[p] = drained[p] /\ Len(results'[p]) = Len(results[p])
        BY <1>2, Zenon
      <4>2. submitted'[p] = submitted[p] + 1
        BY <3>1, Zenon
      <4>3. submitted[p] + 1 = drained[p] + Len(results[p]) + (Len(requests[p]) + 1)
        <5>1. submitted[p] = drained[p] + Len(results[p]) + Len(requests[p])
          BY <3>2, Zenon
        <5>2. (drained[p] + Len(results[p]) + Len(requests[p])) + 1
                = drained[p] + Len(results[p]) + (Len(requests[p]) + 1)
          BY <1>3, <3>3, OneMore
        <5> QED
          BY <5>1, <5>2, Zenon
      <4> QED
        BY <3>5, <4>1, <4>2, <4>3, Zenon
    <3> QED
      BY <1>2, <2>2, <3>2, <3>6, <3>7
  <2> QED
    BY <2>1, <2>2
<1> QED
  BY <1>2, <1>5, <1>7

\* A worker finishing the request at the head keeps it (NrtThread::spawn).
LEMMA FinishKeeps ==
    ASSUME QueuesOK, Numbered,
           NEW p \in Pipes, NEW outcome \in {"install", "clear", "wrote", "none", "error"},
           NEW buffer \in Nat, NEW owed \in BOOLEAN, Finish(p, outcome, buffer, owed)
    PROVE  QueuesOK' /\ Numbered' /\ drained' = drained
<1> DEFINE answer == [no |-> Head(requests[p]).no, outcome |-> outcome,
                      buffer |-> buffer, owed |-> owed]
<1>1. /\ requests' = [requests EXCEPT ![p] = Tail(@)]
      /\ results' = [results EXCEPT ![p] = Append(@, answer)]
      /\ drained' = drained /\ submitted' = submitted
      /\ requests[p] # <<>>
  BY DEF Finish
<1>2. /\ requests[p] \in Seq(Request) /\ results[p] \in Seq(Result)
      /\ Len(results[p]) \in Nat /\ drained[p] \in Nat /\ submitted[p] \in Nat
  BY DEF QueuesOK
<1>3. /\ Tail(requests[p]) \in Seq(Request)
      /\ Len(requests[p]) \in Nat /\ Len(requests[p]) > 0
      /\ Len(Tail(requests[p])) = Len(requests[p]) - 1
      /\ \A i \in 1..Len(Tail(requests[p])) : Tail(requests[p])[i] = requests[p][i + 1]
      /\ Head(requests[p]) = requests[p][1] /\ Head(requests[p]) \in Request
  BY <1>1, <1>2, HeadTaken
<1>9. /\ Len(results[p]) \in Nat /\ drained[p] \in Nat /\ submitted[p] \in Nat
      /\ Len(requests[p]) \in Nat /\ Len(requests[p]) > 0
  BY <1>2, <1>3
<1>4. answer \in Result
  BY <1>3 DEF Request, Result
<1>5. answer.no = requests[p][1].no
  BY <1>3
<1> HIDE DEF answer
<1>6. /\ Append(results[p], answer) \in Seq(Result)
      /\ Len(Append(results[p], answer)) = Len(results[p]) + 1
      /\ \A i \in 1..Len(results[p]) : Append(results[p], answer)[i] = results[p][i]
      /\ Append(results[p], answer)[Len(results[p]) + 1] = answer
  BY <1>2, <1>4, Appended
<1>7. QueuesOK'
  BY <1>1, <1>3, <1>6 DEF QueuesOK
<1>8. Numbered'
  <2> SUFFICES ASSUME NEW q \in Pipes
               PROVE  /\ \A i \in 1..Len(results'[q]) :
                            results'[q][i].no = drained'[q] + i
                      /\ \A i \in 1..Len(requests'[q]) :
                            requests'[q][i].no = drained'[q] + Len(results'[q]) + i
                      /\ submitted'[q] = drained'[q] + Len(results'[q])
                                           + Len(requests'[q])
    BY DEF Numbered
  <2>1. CASE q # p
    <3>1. requests'[q] = requests[q] /\ results'[q] = results[q]
      BY <1>1, <2>1 DEF QueuesOK
    <3> QED
      BY <1>1, <3>1, ZenonT(30) DEF Numbered
  <2>2. CASE q = p
    <3>1. /\ requests'[p] = Tail(requests[p])
          /\ results'[p] = Append(results[p], answer)
      BY <1>1 DEF QueuesOK
    <3>2. /\ submitted[p] = drained[p] + Len(results[p]) + Len(requests[p])
          /\ \A i \in 1..Len(requests[p]) :
                requests[p][i].no = drained[p] + Len(results[p]) + i
          /\ \A i \in 1..Len(results[p]) : results[p][i].no = drained[p] + i
      BY DEF Numbered
    <3>3. ASSUME NEW i \in 1..(Len(results[p]) + 1)
          PROVE  results'[p][i].no = drained[p] + i
      <4>1. CASE i = Len(results[p]) + 1
        BY <1>2, <1>3, <1>5, <1>6, <3>1, <3>2, <4>1
      <4>2. CASE i # Len(results[p]) + 1
        <5>1. i \in 1..Len(results[p])
          BY <1>2, <4>2
        <5> QED
          BY <1>6, <3>1, <3>2, <5>1
      <4> QED
        BY <4>1, <4>2
    <3>4. ASSUME NEW i \in 1..(Len(requests[p]) - 1)
          PROVE  requests'[p][i].no = drained[p] + (Len(results[p]) + 1) + i
      <4>1. i + 1 \in 1..Len(requests[p]) /\ i \in 1..Len(Tail(requests[p]))
        BY <1>3
      <4>2. requests'[p][i] = requests[p][i + 1]
        BY <1>3, <3>1, <4>1
      <4>3. requests[p][i + 1].no = drained[p] + Len(results[p]) + (i + 1)
        BY <3>2, <4>1
      <4>4. drained[p] + Len(results[p]) + (i + 1) = drained[p] + (Len(results[p]) + 1) + i
        BY <1>9, SMTT(30)
      <4> QED
        BY <4>2, <4>3, <4>4
    <3>5. /\ Len(requests'[p]) = Len(requests[p]) - 1
          /\ Len(results'[p]) = Len(results[p]) + 1
      BY <1>3, <1>6, <3>1
    <3>6. \A i \in 1..Len(results'[p]) : results'[p][i].no = drained'[p] + i
      BY <1>1, <3>3, <3>5
    <3>7. \A i \in 1..Len(requests'[p]) :
             requests'[p][i].no = drained'[p] + Len(results'[p]) + i
      BY <1>1, <3>4, <3>5
    <3>8. submitted'[p] = drained'[p] + Len(results'[p]) + Len(requests'[p])
      BY <1>1, <1>9, <3>2, <3>5, SMTT(30)
    <3> QED
      BY <2>2, <3>6, <3>7, <3>8
  <2> QED
    BY <2>1, <2>2
<1> QED
  BY <1>1, <1>7, <1>8

\* Draining one result keeps it, and the count of that pipeline goes up by one.
LEMMA DequeueKeeps ==
    ASSUME QueuesOK, Numbered, NEW p \in Pipes, Dequeue(p)
    PROVE  QueuesOK' /\ Numbered' /\ \A q \in Pipes : drained'[q] >= drained[q]
<1>1. /\ results' = [results EXCEPT ![p] = Tail(@)]
      /\ drained' = [drained EXCEPT ![p] = @ + 1]
      /\ requests' = requests /\ submitted' = submitted
      /\ results[p] # <<>>
  BY DEF Dequeue
<1>2. /\ results[p] \in Seq(Result) /\ drained[p] \in Nat
      /\ Len(requests[p]) \in Nat /\ submitted[p] \in Nat
  BY DEF QueuesOK
<1>3. /\ Tail(results[p]) \in Seq(Result)
      /\ Len(results[p]) \in Nat /\ Len(results[p]) > 0
      /\ Len(Tail(results[p])) = Len(results[p]) - 1
      /\ \A i \in 1..Len(Tail(results[p])) : Tail(results[p])[i] = results[p][i + 1]
  BY <1>1, <1>2, HeadTaken
<1>8. /\ Len(results[p]) \in Nat /\ Len(results[p]) > 0
      /\ drained[p] \in Nat /\ submitted[p] \in Nat
  BY <1>2, <1>3
<1>4. QueuesOK'
  BY <1>1, <1>2, <1>3 DEF QueuesOK
<1>5. /\ results'[p] = Tail(results[p])
      /\ drained'[p] = drained[p] + 1
      /\ \A q \in Pipes \ {p} : results'[q] = results[q] /\ drained'[q] = drained[q]
  BY <1>1 DEF QueuesOK
<1>6. Numbered'
  <2> SUFFICES ASSUME NEW q \in Pipes
               PROVE  /\ \A i \in 1..Len(results'[q]) :
                            results'[q][i].no = drained'[q] + i
                      /\ \A i \in 1..Len(requests'[q]) :
                            requests'[q][i].no = drained'[q] + Len(results'[q]) + i
                      /\ submitted'[q] = drained'[q] + Len(results'[q])
                                           + Len(requests'[q])
    BY DEF Numbered
  <2>1. CASE q # p
    BY <1>1, <1>5, <2>1 DEF Numbered
  <2>2. CASE q = p
    <3>2. /\ submitted[p] = drained[p] + Len(results[p]) + Len(requests[p])
          /\ \A i \in 1..Len(requests[p]) :
                requests[p][i].no = drained[p] + Len(results[p]) + i
          /\ \A i \in 1..Len(results[p]) : results[p][i].no = drained[p] + i
      BY DEF Numbered
    <3>3. ASSUME NEW i \in 1..(Len(results[p]) - 1)
          PROVE  results'[p][i].no = (drained[p] + 1) + i
      <4>1. i + 1 \in 1..Len(results[p]) /\ i \in 1..Len(Tail(results[p]))
        BY <1>3
      <4>2. results'[p][i] = results[p][i + 1]
        BY <1>3, <1>5, <4>1
      <4>3. results[p][i + 1].no = drained[p] + (i + 1)
        BY <3>2, <4>1
      <4> QED
        BY <1>2, <4>2, <4>3
    <3>4. Len(results'[p]) = Len(results[p]) - 1
      BY <1>3, <1>5
    <3>5. \A i \in 1..Len(results'[p]) : results'[p][i].no = drained'[p] + i
      BY <1>5, <3>3, <3>4
    <3>6. drained'[p] + Len(results'[p]) = drained[p] + Len(results[p])
      BY <1>5, <1>8, <3>4
    <3> QED
      BY <1>1, <2>2, <3>2, <3>5, <3>6
  <2> QED
    BY <2>1, <2>2
<1>7. \A q \in Pipes : drained'[q] >= drained[q]
  <2> SUFFICES ASSUME NEW q \in Pipes PROVE drained'[q] >= drained[q]
    OBVIOUS
  <2>1. drained[q] \in Nat
    BY DEF QueuesOK
  <2> QED
    BY <1>5, <2>1
<1> QED
  BY <1>4, <1>6, <1>7

-----------------------------------------------------------------------------
\* What is outstanding in a pipeline is numbered past what it has drained, up to
\* what it has been sent.
LEMMA OutstandingNumbers ==
    ASSUME QueuesOK, Numbered, NEW p \in Pipes, NEW n, <<p, n>> \in Outstanding
    PROVE  drained[p] < n /\ n <= submitted[p]
<1>1. \/ \E i \in 1..Len(requests[p]) : n = requests[p][i].no
      \/ \E i \in 1..Len(results[p]) : n = results[p][i].no
  BY DEF Outstanding
<1>2. /\ drained[p] \in Nat /\ submitted[p] \in Nat
      /\ Len(requests[p]) \in Nat /\ Len(results[p]) \in Nat
  BY DEF QueuesOK
<1>3. /\ submitted[p] = drained[p] + Len(results[p]) + Len(requests[p])
      /\ \A i \in 1..Len(requests[p]) :
            requests[p][i].no = drained[p] + Len(results[p]) + i
      /\ \A i \in 1..Len(results[p]) : results[p][i].no = drained[p] + i
  BY DEF Numbered
<1>4. CASE \E i \in 1..Len(requests[p]) : n = requests[p][i].no
  <2>1. PICK i \in 1..Len(requests[p]) : n = drained[p] + Len(results[p]) + i
    BY <1>3, <1>4
  <2>2. i \in Nat /\ 0 < i /\ i <= Len(requests[p])
    BY <1>2
  <2>3. submitted[p] = drained[p] + Len(results[p]) + Len(requests[p])
    BY <1>3
  <2> QED
    BY <1>2, <2>1, <2>2, <2>3, SMTT(30)
<1>5. CASE \E i \in 1..Len(results[p]) : n = results[p][i].no
  <2>1. PICK i \in 1..Len(results[p]) : n = drained[p] + i
    BY <1>3, <1>5
  <2> QED
    BY <1>2, <1>3, <2>1, SMTT(30)
<1> QED
  BY <1>1, <1>4, <1>5

\* A barrier's targets cover what it awaits (handle_server_sync).
LEMMA BarrierMeasured ==
    ASSUME QueuesOK, Numbered
    PROVE  Measured(Barrier)
<1>1. Barrier.target = submitted /\ Barrier.awaits = Outstanding
  BY DEF Barrier, Targets
<1>2. \A p \in Pipes, n \in Nat : <<p, n>> \in Outstanding => n <= submitted[p]
  BY OutstandingNumbers
<1> QED
  BY <1>1, <1>2 DEF Measured, QueuesOK

\* resolve_syncs answers those whose targets are reached.
LEMMA ResolveKeeps ==
    ASSUME QueuesOK, Barriers, drained' = drained,
           NEW pending, \A s \in pending : Measured(s), Resolve(pending)
    PROVE  Barriers'
<1>1. /\ \A s \in syncs' : s \in pending
      /\ \A s \in replied' : s \in replied \/ (s \in pending /\ Reached(s))
  BY DEF Resolve
<1>2. ASSUME NEW s \in pending, Reached(s), NEW p \in Pipes
      PROVE  s.target[p] <= drained[p]
  <2>1. s.target[p] \in Nat /\ drained[p] \in Nat
    BY DEF Measured, QueuesOK
  <2> QED
    BY <1>2, <2>1 DEF Reached
<1> QED
  BY <1>1, <1>2 DEF Barriers

\* Draining answers no barrier, and reaches no less of their targets.
LEMMA BarriersStay ==
    ASSUME QueuesOK, QueuesOK', Barriers, UNCHANGED barrier,
           \A p \in Pipes : drained'[p] >= drained[p]
    PROVE  Barriers'
<1>1. syncs' = syncs /\ replied' = replied
  BY DEF barrier
<1>2. ASSUME NEW s \in replied, NEW p \in Pipes
      PROVE  s.target[p] <= drained'[p]
  <2>1. /\ s.target[p] \in Nat /\ drained[p] \in Nat /\ drained'[p] \in Nat
        /\ s.target[p] <= drained[p]
    BY DEF Barriers, Measured, QueuesOK
  <2> QED
    BY <2>1
<1> QED
  BY <1>1, <1>2 DEF Barriers

\* Barriers that are answered await nothing outstanding.
LEMMA BarredIsBarrier ==
    ASSUME Barred
    PROVE  SyncIsBarrier
<1> USE DEF Barred
<1> SUFFICES ASSUME NEW s \in replied, NEW x \in s.awaits, x \in Outstanding
             PROVE  FALSE
  BY DEF SyncIsBarrier
<1>1. PICK p \in Pipes, n \in Nat : x = <<p, n>>
  <2>1. PICK p \in Pipes :
          \/ \E i \in 1..Len(requests[p]) : x = <<p, requests[p][i].no>>
          \/ \E i \in 1..Len(results[p]) : x = <<p, results[p][i].no>>
    BY DEF Outstanding
  <2>2. /\ \A i \in 1..Len(requests[p]) : requests[p][i].no \in Nat
        /\ \A i \in 1..Len(results[p]) : results[p][i].no \in Nat
    BY QueueElements DEF Request, Result
  <2> QED
    BY <2>1, <2>2
<1>2. drained[p] < n
  BY <1>1, OutstandingNumbers
<1>3. n <= s.target[p] /\ s.target[p] <= drained[p]
  BY <1>1 DEF Barriers, Measured
<1>4. drained[p] \in Nat /\ s.target[p] \in Nat
  BY DEF QueuesOK, Barriers, Measured
<1> QED
  BY <1>2, <1>3, <1>4

-----------------------------------------------------------------------------
\* A job queued names a buffer that exists.
LEMMA QueueBuffers ==
    ASSUME QueuesOK, BasesExist, InstallsExist, PoolOK,
           NEW p \in Pipes, NEW kind \in Kinds \cup {"compile"}, NEW base \in Nat,
           NEW chained \in BOOLEAN, Queue(p, kind, base, chained), UNCHANGED cells,
           base <= Len(cells), kind \in {"gen", "set", "store"} => base # None
    PROVE  BasesExist' /\ InstallsExist'
<1> DEFINE job == [no |-> submitted[p] + 1, kind |-> kind, base |-> base,
                   chained |-> chained]
<1>1. /\ job \in Request /\ job.base <= Len(cells)
      /\ job.kind \in {"gen", "set", "store"} => job.base # None
  BY DEF QueuesOK, Request
<1>2. /\ requests' = [requests EXCEPT ![p] = Append(@, job)]
      /\ results' = results
  BY DEF Queue
<1> HIDE DEF job
<1>3. requests[p] \in Seq(Request) /\ Len(requests[p]) \in Nat
  BY DEF QueuesOK
<1>4. /\ Len(Append(requests[p], job)) = Len(requests[p]) + 1
      /\ \A i \in 1..Len(requests[p]) :
            Append(requests[p], job)[i] = requests[p][i]
      /\ Append(requests[p], job)[Len(requests[p]) + 1] = job
  BY <1>1, <1>3, Appended
<1>5. \A q \in Pipes : \A i \in 1..Len(requests'[q]) :
         requests'[q][i] = job \/ (i \in 1..Len(requests[q])
                                   /\ requests'[q][i] = requests[q][i])
  <2> SUFFICES ASSUME NEW q \in Pipes, NEW i \in 1..Len(requests'[q])
               PROVE  requests'[q][i] = job \/ (i \in 1..Len(requests[q])
                                   /\ requests'[q][i] = requests[q][i])
    OBVIOUS
  <2>1. CASE q # p
    BY <1>2, <2>1 DEF QueuesOK
  <2>2. CASE q = p
    <3>1. requests'[p] = Append(requests[p], job)
      BY <1>2 DEF QueuesOK
    <3>2. i \in 1..Len(requests[p]) \/ i = Len(requests[p]) + 1
      BY <1>3, <1>4, <2>2, <3>1
    <3> QED
      BY <1>4, <2>2, <3>1, <3>2
  <2> QED
    BY <2>1, <2>2
<1>6. BasesExist'
  BY <1>1, <1>5 DEF BasesExist
<1> QED
  BY <1>2, <1>6 DEF InstallsExist

\* A job finished, whether or not it made a buffer, leaves every queued job
\* with its base.
LEMMA FinishBuffers ==
    ASSUME QueuesOK, BasesExist, InstallsExist,
           NEW p \in Pipes, NEW outcome \in {"install", "clear", "wrote", "none", "error"},
           NEW buffer \in Nat, NEW owed \in BOOLEAN, Finish(p, outcome, buffer, owed),
           Len(cells) \in Nat, Len(cells') \in Nat, Len(cells) <= Len(cells'),
           buffer <= Len(cells'), outcome = "install" => buffer # None
    PROVE  BasesExist' /\ InstallsExist'
<1> DEFINE answer == [no |-> Head(requests[p]).no, outcome |-> outcome,
                      buffer |-> buffer, owed |-> owed]
<1>1. /\ requests' = [requests EXCEPT ![p] = Tail(@)]
      /\ results' = [results EXCEPT ![p] = Append(@, answer)]
      /\ requests[p] # <<>>
  BY DEF Finish
<1>2. /\ requests[p] \in Seq(Request) /\ results[p] \in Seq(Result)
      /\ Len(results[p]) \in Nat
  BY DEF QueuesOK
<1>3. /\ Len(requests[p]) \in Nat
      /\ Len(Tail(requests[p])) = Len(requests[p]) - 1
      /\ \A i \in 1..Len(Tail(requests[p])) : Tail(requests[p])[i] = requests[p][i + 1]
      /\ Head(requests[p]) \in Request
  BY <1>1, <1>2, HeadTaken
<1>4. /\ answer \in Result /\ answer.buffer <= Len(cells')
      /\ answer.outcome = "install" => answer.buffer # None
  BY <1>3 DEF Request, Result
<1> HIDE DEF answer
<1>5. /\ Len(Append(results[p], answer)) = Len(results[p]) + 1
      /\ \A i \in 1..Len(results[p]) : Append(results[p], answer)[i] = results[p][i]
      /\ Append(results[p], answer)[Len(results[p]) + 1] = answer
  BY <1>2, <1>4, Appended
<1>6. \A q \in Pipes : \A i \in 1..Len(requests'[q]) :
         \E j \in 1..Len(requests[q]) : requests'[q][i] = requests[q][j]
  <2> SUFFICES ASSUME NEW q \in Pipes, NEW i \in 1..Len(requests'[q])
               PROVE  \E j \in 1..Len(requests[q]) : requests'[q][i] = requests[q][j]
    OBVIOUS
  <2>1. CASE q # p
    BY <1>1, <2>1 DEF QueuesOK
  <2>2. CASE q = p
    <3>1. requests'[p] = Tail(requests[p])
      BY <1>1 DEF QueuesOK
    <3>2. i \in 1..Len(Tail(requests[p])) /\ i + 1 \in 1..Len(requests[p])
      BY <1>3, <2>2, <3>1
    <3>3. requests'[p][i] = requests[p][i + 1]
      BY <1>3, <3>1, <3>2
    <3> QED
      BY <2>2, <3>2, <3>3
  <2> QED
    BY <2>1, <2>2
<1>7. \A q \in Pipes : \A i \in 1..Len(results'[q]) :
         results'[q][i] = answer \/ (i \in 1..Len(results[q])
                                     /\ results'[q][i] = results[q][i])
  <2> SUFFICES ASSUME NEW q \in Pipes, NEW i \in 1..Len(results'[q])
               PROVE  results'[q][i] = answer \/ (i \in 1..Len(results[q])
                                     /\ results'[q][i] = results[q][i])
    OBVIOUS
  <2>1. CASE q # p
    BY <1>1, <2>1 DEF QueuesOK
  <2>2. CASE q = p
    <3>1. results'[p] = Append(results[p], answer)
      BY <1>1 DEF QueuesOK
    <3>2. i \in 1..Len(results[p]) \/ i = Len(results[p]) + 1
      BY <1>2, <1>5, <2>2, <3>1
    <3> QED
      BY <1>5, <2>2, <3>1, <3>2
  <2> QED
    BY <2>1, <2>2
<1>8. BasesExist'
  <2> SUFFICES ASSUME NEW q \in Pipes, NEW i \in 1..Len(requests'[q])
               PROVE  /\ requests'[q][i].base <= Len(cells')
                      /\ requests'[q][i].kind \in {"gen", "set", "store"} =>
                            requests'[q][i].base # None
    BY DEF BasesExist
  <2>1. PICK j \in 1..Len(requests[q]) : requests'[q][i] = requests[q][j]
    BY <1>6
  <2>2. /\ requests[q][j].base \in Nat /\ requests[q][j].base <= Len(cells)
        /\ requests[q][j].kind \in {"gen", "set", "store"} => requests[q][j].base # None
    BY QueueElements DEF Request, BasesExist
  <2> QED
    BY <2>1, <2>2
<1>9. InstallsExist'
  <2> SUFFICES ASSUME NEW q \in Pipes, NEW i \in 1..Len(results'[q])
               PROVE  /\ results'[q][i].buffer <= Len(cells')
                      /\ results'[q][i].outcome = "install" =>
                            results'[q][i].buffer # None
    BY DEF InstallsExist
  <2>1. CASE results'[q][i] = answer
    BY <1>4, <2>1
  <2>2. CASE i \in 1..Len(results[q]) /\ results'[q][i] = results[q][i]
    <3>1. /\ results[q][i].buffer \in Nat /\ results[q][i].buffer <= Len(cells)
          /\ results[q][i].outcome = "install" => results[q][i].buffer # None
      BY <2>2, QueueElements DEF Result, InstallsExist
    <3> QED
      BY <2>2, <3>1
  <2> QED
    BY <1>7, <2>1, <2>2
<1> QED
  BY <1>8, <1>9

\* A result drained leaves the others with what they install.
LEMMA DequeueBuffers ==
    ASSUME QueuesOK, BasesExist, InstallsExist, NEW p \in Pipes, Dequeue(p),
           Len(cells) \in Nat, Len(cells') \in Nat, Len(cells) <= Len(cells')
    PROVE  BasesExist' /\ InstallsExist'
<1>1. /\ results' = [results EXCEPT ![p] = Tail(@)]
      /\ requests' = requests
      /\ results[p] # <<>>
  BY DEF Dequeue
<1>2. results[p] \in Seq(Result)
  BY DEF QueuesOK
<1>3. /\ Len(results[p]) \in Nat
      /\ Len(Tail(results[p])) = Len(results[p]) - 1
      /\ \A i \in 1..Len(Tail(results[p])) : Tail(results[p])[i] = results[p][i + 1]
  BY <1>1, <1>2, HeadTaken
<1>4. BasesExist'
  <2> SUFFICES ASSUME NEW q \in Pipes, NEW i \in 1..Len(requests[q])
               PROVE  /\ requests[q][i].base <= Len(cells')
                      /\ requests[q][i].kind \in {"gen", "set", "store"} =>
                            requests[q][i].base # None
    BY <1>1 DEF BasesExist
  <2>1. /\ requests[q][i].base \in Nat /\ requests[q][i].base <= Len(cells)
        /\ requests[q][i].kind \in {"gen", "set", "store"} => requests[q][i].base # None
    BY QueueElements DEF Request, BasesExist
  <2> QED
    BY <2>1
<1>5. InstallsExist'
  <2> SUFFICES ASSUME NEW q \in Pipes, NEW i \in 1..Len(results'[q])
               PROVE  /\ results'[q][i].buffer <= Len(cells')
                      /\ results'[q][i].outcome = "install" =>
                            results'[q][i].buffer # None
    BY DEF InstallsExist
  <2>1. PICK j \in 1..Len(results[q]) : results'[q][i] = results[q][j]
    <3>1. CASE q # p
      BY <1>1, <3>1 DEF QueuesOK
    <3>2. CASE q = p
      <4>1. results'[p] = Tail(results[p])
        BY <1>1 DEF QueuesOK
      <4>2. i \in 1..Len(Tail(results[p])) /\ i + 1 \in 1..Len(results[p])
        BY <1>3, <3>2, <4>1
      <4> QED
        BY <1>3, <3>2, <4>1, <4>2
    <3> QED
      BY <3>1, <3>2
  <2>2. /\ results[q][j].buffer \in Nat /\ results[q][j].buffer <= Len(cells)
        /\ results[q][j].outcome = "install" => results[q][j].buffer # None
    BY QueueElements DEF Result, InstallsExist
  <2> QED
    BY <2>1, <2>2
<1> QED
  BY <1>4, <1>5

-----------------------------------------------------------------------------
JobsInvariant == Barred /\ BuffersExist

\* Nothing has been received.
LEMMA JobsInit ==
    ASSUME Init
    PROVE  JobsInvariant
<1>1. /\ \A p \in Pipes : submitted[p] = 0 /\ drained[p] = 0
      /\ \A p \in Pipes : requests[p] = <<>> /\ results[p] = <<>>
  BY DEF Init
<1>2. QueuesOK
  <2>1. <<>> \in Seq(Request) /\ <<>> \in Seq(Result)
    OBVIOUS
  <2> QED
    BY <2>1 DEF Init, QueuesOK
<1>3. Numbered
  BY <1>1 DEF Numbered
<1>4. Barriers
  BY DEF Init, Barriers
<1>5. PoolOK
  BY DEF Init, PoolOK, None
<1>6. BasesExist /\ InstallsExist
  BY <1>1 DEF BasesExist, InstallsExist
<1> QED
  BY <1>2, <1>3, <1>4, <1>5, <1>6 DEF JobsInvariant, Barred, BuffersExist

\* The message handlers: a job queued, a barrier, a buffer installed from outside.
LEMMA ReceiveKeeps ==
    ASSUME JobsInvariant, JobsAssumption, Receive
    PROVE  JobsInvariant'
<1> USE DEF JobsInvariant, Barred, BuffersExist
<1>1. ASSUME NEW kind \in Kinds, Submit(kind)
      PROVE  JobsInvariant'
  <2> DEFINE chained == replacing > 0
  <2>1. /\ Queue(Nrt, kind, mirror, chained) /\ UNCHANGED <<barrier, cells, mirror, chain>>
        /\ kind \notin {"alloc", "free"} => mirror # None
    BY <1>1 DEF Submit, pool
  <2>2. /\ mirror \in Nat /\ mirror <= Len(cells) /\ chained \in BOOLEAN
        /\ Nrt \in Pipes /\ kind \in Kinds \cup {"compile"}
    BY DEF PoolOK, JobsAssumption
  <2> HIDE DEF chained
  <2>3. QueuesOK' /\ Numbered' /\ drained' = drained
    BY <2>1, <2>2, QueueKeeps
  <2>4. BasesExist' /\ InstallsExist'
    BY <2>1, <2>2, QueueBuffers
  <2>5. Barriers' /\ PoolOK'
    BY <2>1, <2>3 DEF Barriers, barrier, PoolOK
  <2> QED
    BY <2>3, <2>4, <2>5
<1>2. ASSUME NEW p \in Pipes, Compile(p)
      PROVE  JobsInvariant'
  <2>1. /\ Queue(p, "compile", None, FALSE)
        /\ UNCHANGED <<barrier, cells, mirror, chain>>
    BY <1>2 DEF Compile, pool
  <2>2. None \in Nat /\ None <= Len(cells) /\ FALSE \in BOOLEAN
        /\ "compile" \in Kinds \cup {"compile"}
        /\ "compile" \notin {"gen", "set", "store"}
    BY DEF None, PoolOK
  <2>3. QueuesOK' /\ Numbered' /\ drained' = drained
    BY <2>1, <2>2, QueueKeeps
  <2>4. BasesExist' /\ InstallsExist'
    BY <2>1, <2>2, QueueBuffers
  <2>5. Barriers' /\ PoolOK'
    BY <2>1, <2>3 DEF Barriers, barrier, PoolOK
  <2> QED
    BY <2>3, <2>4, <2>5
<1>3. CASE Sync
  <2>1. /\ Resolve(syncs \cup {Barrier})
        /\ UNCHANGED <<submitted, drained, requests, results, cells, mirror, chain>>
    BY <1>3 DEF Sync, queues, pool
  <2>2. \A s \in syncs \cup {Barrier} : Measured(s)
    BY BarrierMeasured DEF Barriers
  <2>3. Barriers'
    BY <2>1, <2>2, ResolveKeeps
  <2> QED
    BY <2>1, <2>3 DEF QueuesOK, Numbered, PoolOK, BasesExist, InstallsExist
<1>4. CASE Load
  <2>1. /\ cells' = Append(cells, {}) /\ mirror' = Len(cells) + 1 /\ chain' = chain
        /\ UNCHANGED <<submitted, drained, requests, results, syncs, replied>>
    BY <1>4 DEF Load, queues, barrier
  <2>2. /\ cells' \in Seq(SUBSET Nat) /\ Len(cells') = Len(cells) + 1
        /\ Len(cells) \in Nat
    BY <2>1, Appended DEF PoolOK
  <2>3. PoolOK'
    BY <2>1, <2>2 DEF PoolOK
  <2>4. BasesExist'
    <3> SUFFICES ASSUME NEW p \in Pipes, NEW i \in 1..Len(requests[p])
                 PROVE  /\ requests[p][i].base <= Len(cells')
                        /\ requests[p][i].kind \in {"gen", "set", "store"} =>
                              requests[p][i].base # None
      BY <2>1 DEF BasesExist
    <3>1. /\ requests[p][i].base \in Nat /\ requests[p][i].base <= Len(cells)
          /\ requests[p][i].kind \in {"gen", "set", "store"} => requests[p][i].base # None
      BY QueueElements DEF Request, BasesExist
    <3> QED
      BY <2>2, <3>1
  <2>5. InstallsExist'
    <3> SUFFICES ASSUME NEW p \in Pipes, NEW i \in 1..Len(results[p])
                 PROVE  /\ results[p][i].buffer <= Len(cells')
                        /\ results[p][i].outcome = "install" => results[p][i].buffer # None
      BY <2>1 DEF InstallsExist
    <3>1. /\ results[p][i].buffer \in Nat /\ results[p][i].buffer <= Len(cells)
          /\ results[p][i].outcome = "install" => results[p][i].buffer # None
      BY QueueElements DEF Result, InstallsExist
    <3> QED
      BY <2>2, <3>1
  <2> QED
    BY <2>1, <2>3, <2>4, <2>5 DEF QueuesOK, Numbered, Barriers
<1> QED
  BY <1>1, <1>2, <1>3, <1>4 DEF Receive

\* A worker's step.
LEMMA WorkKeeps ==
    ASSUME JobsInvariant, JobsAssumption, Run \/ \E p \in Pipes : Work(p)
    PROVE  JobsInvariant'
<1> USE DEF JobsInvariant, Barred, BuffersExist
<1> DEFINE Outcomes == {"install", "clear", "wrote", "none", "error"}
<1>0. Len(cells) \in Nat /\ Nrt \in Pipes
  BY DEF PoolOK, JobsAssumption
<1>1. ASSUME NEW p \in Pipes, NEW outcome \in Outcomes, NEW buffer \in Nat,
             NEW owed \in BOOLEAN, Finish(p, outcome, buffer, owed),
             UNCHANGED <<barrier, mirror>>, cells' \in Seq(SUBSET Nat),
             Len(cells) <= Len(cells'), buffer <= Len(cells'),
             outcome = "install" => buffer # None, chain' \in 0..Len(cells')
      PROVE  JobsInvariant'
  <2>1. QueuesOK' /\ Numbered' /\ drained' = drained
    BY <1>1, FinishKeeps
  <2>2. Len(cells') \in Nat
    BY <1>1
  <2>3. BasesExist' /\ InstallsExist'
    BY <1>0, <1>1, <2>2, FinishBuffers
  <2>4. Barriers'
    BY <1>1, <2>1 DEF Barriers, barrier
  <2>5. PoolOK'
    BY <1>0, <1>1, <2>2 DEF PoolOK
  <2> QED
    BY <2>1, <2>3, <2>4, <2>5
<1>2. ASSUME NEW p \in Pipes, Work(p)
      PROVE  JobsInvariant'
  <2>1. /\ Finish(p, "none", None, FALSE)
        /\ UNCHANGED <<barrier, mirror, cells, chain>>
    BY <1>2 DEF Work, pool
  <2>2. /\ None \in Nat /\ None <= Len(cells')
        /\ cells' \in Seq(SUBSET Nat) /\ Len(cells) <= Len(cells')
        /\ chain' \in 0..Len(cells')
    BY <1>0, <2>1 DEF PoolOK, None
  <2>3. UNCHANGED <<barrier, mirror>>
    BY <2>1
  <2> QED
    BY <1>1, <1>2, <2>1, <2>2, <2>3
<1>3. CASE Run
  <2> DEFINE job == Head(requests[Nrt])
  <2>1. /\ Succeed(job) \/ Fail(job)
        /\ UNCHANGED <<barrier, mirror>>
        /\ requests[Nrt] # <<>>
    BY <1>3 DEF Run
  <2>2. /\ job = requests[Nrt][1] /\ Len(requests[Nrt]) \in Nat
        /\ Len(requests[Nrt]) > 0
    <3>1. requests[Nrt] \in Seq(Request)
      BY <1>0 DEF QueuesOK
    <3> QED
      BY <2>1, <3>1, HeadTaken
  <2>3. 1 \in 1..Len(requests[Nrt])
    BY <2>2
  <2>4. /\ job \in Request
        /\ job.base <= Len(cells)
        /\ job.kind \in {"gen", "set", "store"} => job.base # None
    BY <1>0, <2>2, <2>3, QueueElements DEF BasesExist
  <2>5. job.no \in Nat /\ job.base \in Nat /\ job.chained \in BOOLEAN
    BY <2>4 DEF Request
  <2> DEFINE owed == Owes(job.kind, job.chained)
  <2>6. owed \in BOOLEAN
    BY DEF Owes
  <2> HIDE DEF job, owed
  <2>7. CASE Fail(job)
    <3>1. Finish(Nrt, "error", None, owed) /\ UNCHANGED <<cells, chain>>
      BY <2>7 DEF Fail, Answer, owed
    <3> QED
      BY <1>0, <1>1, <2>1, <2>6, <3>1 DEF PoolOK, None
  <2>8. CASE job.kind \in {"alloc", "gen"} /\ Build(job)
    <3> DEFINE from == IF job.kind = "gen" THEN cells[job.base] ELSE {}
               new == Len(cells) + 1
    <3>1. /\ cells' = Append(cells, from \cup {job.no}) /\ chain' = new
          /\ Finish(Nrt, "install", new, owed)
      BY <2>8 DEF Build, Answer, owed
    <3>2. from \cup {job.no} \in SUBSET Nat
      <4>1. CASE job.kind = "gen"
        <5>1. job.base \in 1..Len(cells)
          BY <1>0, <2>4, <2>5, <4>1 DEF None
        <5>2. cells[job.base] \in SUBSET Nat
          BY <5>1 DEF PoolOK
        <5> QED
          BY <2>5, <4>1, <5>2
      <4>2. CASE job.kind # "gen"
        BY <2>5, <4>2
      <4> QED
        BY <4>1, <4>2
    <3> HIDE DEF from
    <3>3. cells' \in Seq(SUBSET Nat) /\ Len(cells') = Len(cells) + 1
      BY <3>1, <3>2, Appended DEF PoolOK
    <3>4. new \in Nat /\ new <= Len(cells') /\ new # None /\ Len(cells) <= Len(cells')
          /\ chain' \in 0..Len(cells')
      BY <1>0, <3>1, <3>3 DEF None
    <3> QED
      BY <1>0, <1>1, <2>1, <2>6, <3>1, <3>3, <3>4
  <2>9. CASE job.kind \in InPlace /\ Write(job)
    <3> DEFINE into == Base(job)
               outcome == IF job.chained /\ chain # None THEN "install" ELSE "wrote"
    <3>1. /\ cells' = [cells EXCEPT ![into] = @ \cup {job.no}] /\ chain' = chain
          /\ Finish(Nrt, outcome, into, owed)
      BY <2>9 DEF Write, Answer, owed
    <3>2. /\ into \in Nat /\ into <= Len(cells) /\ into # None
          /\ outcome \in Outcomes
      BY <1>0, <2>4, <2>5, <2>9 DEF Base, PoolOK, InPlace, None
    <3>3. cells' \in Seq(SUBSET Nat) /\ Len(cells') = Len(cells)
      <4>1. into \in 1..Len(cells) /\ cells \in Seq(SUBSET Nat)
        BY <1>0, <3>2 DEF None, PoolOK
      <4>2. cells[into] \cup {job.no} \in SUBSET Nat
        BY <2>5, <4>1
      <4> HIDE DEF into
      <4> QED
        BY <3>1, <4>1, <4>2
    <3> HIDE DEF into, outcome
    <3> QED
      BY <1>0, <1>1, <2>1, <2>6, <3>1, <3>2, <3>3, SMTT(30) DEF PoolOK
  <2>10. CASE job.kind = "free" /\ Answer(job, "clear", None)
              /\ chain' = None /\ cells' = cells
    <3>1. Finish(Nrt, "clear", None, owed)
      BY <2>10 DEF Answer, owed
    <3> QED
      BY <1>0, <1>1, <2>1, <2>6, <2>10, <3>1 DEF PoolOK, None
  <2>11. CASE job.kind = "store" /\ Answer(job, "none", None) /\ UNCHANGED <<cells, chain>>
    <3>1. Finish(Nrt, "none", None, owed)
      BY <2>11 DEF Answer, owed
    <3> QED
      BY <1>0, <1>1, <2>1, <2>6, <2>11, <3>1 DEF PoolOK, None
  <2> QED
    BY <2>1, <2>7, <2>8, <2>9, <2>10, <2>11 DEF Succeed
<1> QED
  BY <1>2, <1>3

\* A result drained, and the end of a drain.
LEMMA CollectKeeps ==
    ASSUME JobsInvariant, JobsAssumption,
           CollectNrt \/ (\E p \in Pipes : Collect(p)) \/ EndCollect
    PROVE  JobsInvariant'
<1> USE DEF JobsInvariant, Barred, BuffersExist
<1>0. Len(cells) \in Nat /\ Nrt \in Pipes
  BY DEF PoolOK, JobsAssumption
<1>1. ASSUME NEW p \in Pipes, Dequeue(p), UNCHANGED <<barrier, chain>>,
             cells' \in Seq(SUBSET Nat), Len(cells) <= Len(cells'),
             mirror' \in 0..Len(cells')
      PROVE  JobsInvariant'
  <2>1. QueuesOK' /\ Numbered' /\ \A q \in Pipes : drained'[q] >= drained[q]
    BY <1>1, DequeueKeeps
  <2>2. Len(cells') \in Nat
    BY <1>1
  <2>3. BasesExist' /\ InstallsExist'
    BY <1>0, <1>1, <2>2, DequeueBuffers
  <2>4. Barriers'
    BY <1>1, <2>1, BarriersStay
  <2>5. PoolOK'
    BY <1>0, <1>1, <2>2 DEF PoolOK
  <2> QED
    BY <2>1, <2>3, <2>4, <2>5
<1>2. ASSUME NEW p \in Pipes, Collect(p)
      PROVE  JobsInvariant'
  <2>1. Dequeue(p) /\ UNCHANGED <<barrier, cells, mirror, chain>>
    BY <1>2 DEF Collect, pool
  <2> QED
    BY <1>0, <1>1, <2>1 DEF PoolOK
<1>3. CASE CollectNrt
  <2> DEFINE result == Head(results[Nrt])
  <2>1. Dequeue(Nrt) /\ Apply(result) /\ UNCHANGED <<barrier, chain>>
    BY <1>3 DEF CollectNrt
  <2>2. /\ result = results[Nrt][1] /\ 1 \in 1..Len(results[Nrt])
    <3>1. results[Nrt] \in Seq(Result) /\ results[Nrt] # <<>>
      BY <1>0, <2>1 DEF QueuesOK, Dequeue
    <3>2. /\ result = results[Nrt][1]
          /\ Len(results[Nrt]) \in Nat /\ Len(results[Nrt]) > 0
      BY <3>1, HeadTaken
    <3> QED
      BY <3>2
  <2>3. /\ result \in Result
        /\ result.buffer <= Len(cells)
        /\ result.outcome = "install" => result.buffer # None
    BY <1>0, <2>2, QueueElements DEF InstallsExist
  <2>4. result.buffer \in Nat
    BY <2>3 DEF Result
  <2> HIDE DEF result
  <2>5. CASE result.outcome = "install" /\ Share(result.buffer)
    <3>1. result.buffer \in 1..Len(cells)
      BY <1>0, <2>3, <2>4, <2>5 DEF None
    <3>2. cells[result.buffer] \in SUBSET Nat
      BY <3>1 DEF PoolOK
    <3>3. CASE Shared
      <4>1. cells' = Append(cells, cells[result.buffer]) /\ mirror' = Len(cells) + 1
        BY <2>5, <3>3 DEF Share
      <4>2. cells' \in Seq(SUBSET Nat) /\ Len(cells') = Len(cells) + 1
        BY <3>2, <4>1, Appended DEF PoolOK
      <4>3. Len(cells) <= Len(cells') /\ mirror' \in 0..Len(cells')
        BY <1>0, <4>1, <4>2
      <4> QED
        BY <1>0, <1>1, <2>1, <4>2, <4>3
    <3>4. CASE ~Shared
      <4>1. cells' = cells /\ mirror' = result.buffer
        BY <2>5, <3>4 DEF Share
      <4> QED
        BY <1>0, <1>1, <2>1, <3>1, <4>1 DEF PoolOK
    <3> QED
      BY <3>3, <3>4
  <2>6. CASE mirror' = None /\ cells' = cells
    BY <1>0, <1>1, <2>1, <2>6 DEF PoolOK, None
  <2>7. CASE UNCHANGED pool
    <3>1. cells' = cells /\ mirror' = mirror
      BY <2>7 DEF pool
    <3> QED
      BY <1>0, <1>1, <2>1, <3>1 DEF PoolOK
  <2> QED
    BY <2>1, <2>5, <2>6, <2>7 DEF Apply
<1>4. CASE EndCollect
  <2>1. /\ Resolve(syncs)
        /\ UNCHANGED <<submitted, drained, requests, results, cells, mirror, chain>>
    BY <1>4 DEF EndCollect, queues, pool
  <2>2. \A s \in syncs : Measured(s)
    BY DEF Barriers
  <2>3. Barriers'
    BY <2>1, <2>2, ResolveKeeps
  <2> QED
    BY <2>1, <2>3 DEF QueuesOK, Numbered, PoolOK, BasesExist, InstallsExist
<1> QED
  BY <1>2, <1>3, <1>4

-----------------------------------------------------------------------------
\* The queues stay numbered, the barriers measured and every job's buffer made,
\* through every interleaving of the workers and the network thread.
THEOREM JobsInvariantHolds == Spec => []JobsInvariant
<1>1. Init => JobsInvariant
  BY JobsInit
<1>2. JobsInvariant /\ [Next]_vars => JobsInvariant'
  <2> SUFFICES ASSUME JobsInvariant, [Next]_vars
               PROVE  JobsInvariant'
    OBVIOUS
  <2>1. CASE Receive
    BY <2>1, ReceiveKeeps, JobsAssumption
  <2>2. CASE Run \/ \E p \in Pipes : Work(p)
    BY <2>2, WorkKeeps, JobsAssumption
  <2>3. CASE CollectNrt \/ (\E p \in Pipes : Collect(p)) \/ EndCollect
    BY <2>3, CollectKeeps, JobsAssumption
  <2>4. CASE UNCHANGED vars
    BY <2>4 DEF vars, queues, barrier, pool, JobsInvariant, Barred, BuffersExist,
       QueuesOK, Numbered, Barriers, PoolOK, BasesExist, InstallsExist
  <2> QED
    BY <2>1, <2>2, <2>3, <2>4 DEF Next
<1> QED
  BY <1>1, <1>2, PTL DEF Spec

\* Whatever the pipelines, a barrier answered has nothing received before it
\* still under way.
THEOREM SyncBarrier == Spec => []SyncIsBarrier
<1>1. JobsInvariant => SyncIsBarrier
  BY BarredIsBarrier DEF JobsInvariant
<1> QED
  BY <1>1, JobsInvariantHolds, PTL

\* Whatever is freed, replaced or refused meanwhile, a job finds the buffer it
\* builds on, and a result the buffer it installs.
THEOREM BuffersAlwaysExist == Spec => []BuffersExist
<1>1. JobsInvariant => BuffersExist
  BY DEF JobsInvariant
<1> QED
  BY <1>1, JobsInvariantHolds, PTL

-----------------------------------------------------------------------------
\* What the buffer pipeline has to run, and what it has answered and the network
\* thread has not drained.  The numbers order both.
Waiting == {requests[Nrt][i] : i \in 1..Len(requests[Nrt])}

Answers == {results[Nrt][i] : i \in 1..Len(results[Nrt])}

Moves(result) == result.outcome \in {"install", "clear"}

Owed == {r.no : r \in {q \in Waiting : Owes(q.kind, q.chained)}}
        \cup {r.no : r \in {q \in Answers : q.owed}}

\* nrt_replacing counts the replacements under way, and a result that moves the
\* mirror is one of them.
Counted ==
    /\ IsFiniteSet(Owed)
    /\ replacing = Cardinality(Owed)
    /\ \A r \in Answers : Moves(r) => r.owed

\* The queue's own buffer is the one the last answer under way installs.
Chained ==
    \A r \in Answers :
        Moves(r) /\ (\A q \in Answers : Moves(q) => q.no <= r.no) =>
            chain = IF r.outcome = "install" THEN r.buffer ELSE None

Still == \A r \in Answers : ~Moves(r)

Carries(buffer, w) == buffer = None \/ w \in cells[buffer]

Waits(w) == \E r \in Waiting : r.no = w

Ran(w) == \A r \in Waiting : r.no > w

\* A standing write still to run finds the buffer it is to write into.
ToRun(w) ==
    \A r \in Waiting : r.no = w =>
        /\ r.kind \in InPlace
        /\ ~r.chained => replacing = 0 /\ mirror = r.base
        /\ mirror = r.base \/ (Still /\ chain = None => mirror = None)

\* A standing write that ran: the mirror carries it or waits for an answer no
\* later than the write's; the queue's own buffer carries it while one is owed;
\* the answers after it install that buffer; an install before it is superseded.
Superseded(r, w) == \E q \in Answers : r.no < q.no /\ Moves(q) /\ q.no <= w

OnItsWay(w) == \E r \in Answers : Moves(r) /\ r.no <= w

Landed(w) ==
    /\ Carries(mirror, w) \/ OnItsWay(w)
    /\ replacing = 0 \/ Carries(chain, w)
    /\ \A r \in Answers : Moves(r) /\ r.no >= w =>
          r.outcome = "install" /\ r.buffer = chain
    /\ \A r \in Answers : r.outcome = "install" /\ r.no < w => Superseded(r, w)

Stands(w) ==
    /\ \A r \in Waiting : r.kind \in Replacing => r.no < w
    /\ Waits(w) \/ Ran(w)
    /\ ToRun(w)
    /\ Ran(w) => Landed(w)

Standing ==
    /\ standing \subseteq 1..submitted[Nrt]
    /\ done \subseteq 1..drained[Nrt]
    /\ \A w \in standing : Stands(w)

WritesInvariant == Counted /\ Chained /\ Standing

-----------------------------------------------------------------------------
\* The elements of a queue after an append, and after its head is taken.
LEMMA ElementsAppended ==
    ASSUME NEW S, NEW s \in Seq(S), NEW e \in S
    PROVE  {Append(s, e)[i] : i \in 1..Len(Append(s, e))} =
           {s[i] : i \in 1..Len(s)} \cup {e}
<1> DEFINE t == Append(s, e)
<1>1. /\ Len(t) = Len(s) + 1 /\ t[Len(s) + 1] = e
      /\ \A i \in 1..Len(s) : t[i] = s[i]
  BY Appended
<1>2. Len(s) \in Nat
  OBVIOUS
<1> HIDE DEF t
<1>3. 1..Len(t) = (1..Len(s)) \cup {Len(s) + 1}
  BY <1>1, <1>2
<1>4. {t[i] : i \in 1..Len(t)} = {t[i] : i \in 1..Len(s)} \cup {e}
  BY <1>1, <1>3
<1>5. {t[i] : i \in 1..Len(s)} = {s[i] : i \in 1..Len(s)}
  BY <1>1
<1> QED
  BY <1>4, <1>5 DEF t

\* Taking the head leaves the others, when it differs from them.
LEMMA ElementsTaken ==
    ASSUME NEW S, NEW s \in Seq(S), s # <<>>,
           \A i \in 1..Len(s) : i > 1 => s[i] # s[1]
    PROVE  {Tail(s)[i] : i \in 1..Len(Tail(s))} =
           {s[i] : i \in 1..Len(s)} \ {Head(s)}
<1> DEFINE t == Tail(s)
           T == {t[i] : i \in 1..Len(t)}
           U == {s[i] : i \in 1..Len(s)} \ {Head(s)}
<1>1. /\ Len(s) \in Nat /\ Len(s) > 0 /\ Len(t) = Len(s) - 1
      /\ \A i \in 1..Len(t) : t[i] = s[i + 1]
      /\ Head(s) = s[1]
  BY HeadTaken
<1> HIDE DEF t
<1>2. ASSUME NEW x \in T PROVE x \in U
  <2>1. PICK i \in 1..Len(t) : x = t[i]
    OBVIOUS
  <2>2. i + 1 \in 1..Len(s) /\ i + 1 > 1 /\ x = s[i + 1]
    BY <1>1, <2>1
  <2> QED
    BY <1>1, <2>2
<1>3. ASSUME NEW x \in U PROVE x \in T
  <2>1. PICK i \in 1..Len(s) : x = s[i] /\ i # 1
    BY <1>1
  <2>2. i - 1 \in 1..Len(t) /\ (i - 1) + 1 = i
    BY <1>1, <2>1
  <2>3. t[i - 1] = x
    BY <1>1, <2>1, <2>2
  <2> QED
    BY <2>2, <2>3
<1> QED
  BY <1>2, <1>3 DEF t

\* The numbers tell the requests and the answers apart and order them: drained,
\* then the answers, then the requests.
Ordered ==
    /\ \A r \in Waiting : r \in Request /\ r.no \in Nat
                          /\ drained[Nrt] < r.no /\ r.no <= submitted[Nrt]
    /\ \A r \in Answers : r \in Result /\ r.no \in Nat
                          /\ drained[Nrt] < r.no /\ r.no <= submitted[Nrt]
    /\ \A r \in Answers, q \in Waiting : r.no < q.no
    /\ \A r, q \in Waiting : r.no = q.no => r = q
    /\ \A r, q \in Answers : r.no = q.no => r = q

\* The numbering makes it so.
LEMMA NumbersOrder ==
    ASSUME QueuesOK, Numbered, Nrt \in Pipes
    PROVE  Ordered
<1> DEFINE d == drained[Nrt]
           m == Len(results[Nrt])
           n == Len(requests[Nrt])
<1>1. /\ d \in Nat /\ m \in Nat /\ n \in Nat /\ submitted[Nrt] = d + m + n
      /\ \A i \in 1..m : results[Nrt][i].no = d + i
      /\ \A i \in 1..n : requests[Nrt][i].no = d + m + i
  BY DEF QueuesOK, Numbered
<1>2. /\ \A i \in 1..n : requests[Nrt][i] \in Request
      /\ \A i \in 1..m : results[Nrt][i] \in Result
  BY QueueElements
<1> HIDE DEF d, m, n
<1>3. ASSUME NEW r \in Waiting
      PROVE  \E i \in 1..n : r = requests[Nrt][i] /\ r.no = d + m + i /\ r \in Request
  BY <1>1, <1>2 DEF Waiting, n
<1>4. ASSUME NEW r \in Answers
      PROVE  \E i \in 1..m : r = results[Nrt][i] /\ r.no = d + i /\ r \in Result
  BY <1>1, <1>2 DEF Answers, m
<1>5. ASSUME NEW r \in Waiting
      PROVE  r \in Request /\ r.no \in Nat /\ d < r.no /\ r.no <= submitted[Nrt]
  BY <1>1, <1>3
<1>6. ASSUME NEW r \in Answers
      PROVE  r \in Result /\ r.no \in Nat /\ d < r.no /\ r.no <= submitted[Nrt]
  BY <1>1, <1>4
<1>7. ASSUME NEW r \in Answers, NEW q \in Waiting PROVE r.no < q.no
  <2>1. PICK i \in 1..m : r.no = d + i
    BY <1>4
  <2>2. PICK j \in 1..n : q.no = d + m + j
    BY <1>3
  <2> QED
    BY <1>1, <2>1, <2>2
<1>8. ASSUME NEW r \in Waiting, NEW q \in Waiting, r.no = q.no PROVE r = q
  <2>1. PICK i \in 1..n : r = requests[Nrt][i] /\ r.no = d + m + i
    BY <1>3
  <2>2. PICK j \in 1..n : q = requests[Nrt][j] /\ q.no = d + m + j
    BY <1>3
  <2>3. i = j
    BY <1>1, <1>8, <2>1, <2>2
  <2> QED
    BY <2>1, <2>2, <2>3
<1>9. ASSUME NEW r \in Answers, NEW q \in Answers, r.no = q.no PROVE r = q
  <2>1. PICK i \in 1..m : r = results[Nrt][i] /\ r.no = d + i
    BY <1>4
  <2>2. PICK j \in 1..m : q = results[Nrt][j] /\ q.no = d + j
    BY <1>4
  <2>3. i = j
    BY <1>1, <1>9, <2>1, <2>2
  <2> QED
    BY <2>1, <2>2, <2>3
<1> QED
  BY <1>5, <1>6, <1>7, <1>8, <1>9 DEF Ordered, d

\* A request queued comes after everything.
LEMMA QueuedView ==
    ASSUME QueuesOK, Numbered, Nrt \in Pipes,
           NEW kind \in Kinds, NEW base \in Nat,
           NEW chained \in BOOLEAN, Queue(Nrt, kind, base, chained)
    PROVE  /\ Waiting' = Waiting \cup {[no |-> submitted[Nrt] + 1, kind |-> kind,
                                        base |-> base, chained |-> chained]}
           /\ Answers' = Answers
           /\ submitted'[Nrt] = submitted[Nrt] + 1
           /\ drained' = drained
           /\ submitted[Nrt] \in Nat
<1> DEFINE job == [no |-> submitted[Nrt] + 1, kind |-> kind, base |-> base,
                   chained |-> chained]
<1>0. kind \in Kinds \cup {"compile"}
  OBVIOUS
<1>9. requests[Nrt] \in Seq(Request) /\ submitted[Nrt] \in Nat
  BY DEF QueuesOK
<1>1. requests[Nrt] \in Seq(Request) /\ submitted[Nrt] \in Nat /\ job \in Request
  BY <1>0, <1>9 DEF Request
<1>2. /\ submitted'[Nrt] = submitted[Nrt] + 1
      /\ requests'[Nrt] = Append(requests[Nrt], job)
      /\ drained' = drained /\ results' = results
  BY DEF Queue, QueuesOK
<1> HIDE DEF job
<1>3. Waiting' = Waiting \cup {job}
  BY <1>1, <1>2, ElementsAppended DEF Waiting
<1> QED
  BY <1>1, <1>2, <1>3 DEF Answers, job

\* The request run is the first, and its answer the last.
LEMMA FinishedView ==
    ASSUME QueuesOK, Numbered, Nrt \in Pipes,
           NEW outcome \in {"install", "clear", "wrote", "none", "error"},
           NEW buffer \in Nat, NEW owed \in BOOLEAN, Finish(Nrt, outcome, buffer, owed)
    PROVE  LET job == Head(requests[Nrt]) IN
           /\ job \in Waiting
           /\ \A r \in Waiting : r = job \/ job.no < r.no
           /\ Waiting' = Waiting \ {job}
           /\ Answers' = Answers \cup {[no |-> job.no, outcome |-> outcome,
                                        buffer |-> buffer, owed |-> owed]}
           /\ submitted' = submitted /\ drained' = drained
<1> DEFINE job == Head(requests[Nrt])
           answer == [no |-> job.no, outcome |-> outcome,
                      buffer |-> buffer, owed |-> owed]
<1>1. /\ requests[Nrt] \in Seq(Request) /\ results[Nrt] \in Seq(Result)
      /\ requests[Nrt] # <<>>
  BY DEF QueuesOK, Finish
<1>2. /\ requests'[Nrt] = Tail(requests[Nrt])
      /\ results'[Nrt] = Append(results[Nrt], answer)
      /\ drained' = drained /\ submitted' = submitted
  BY DEF Finish, QueuesOK
<1>3. /\ job = requests[Nrt][1] /\ job \in Request
      /\ Len(requests[Nrt]) \in Nat /\ Len(requests[Nrt]) > 0
  BY <1>1, HeadTaken
<1>4. /\ \A i \in 1..Len(requests[Nrt]) :
            requests[Nrt][i].no = drained[Nrt] + Len(results[Nrt]) + i
      /\ drained[Nrt] \in Nat /\ Len(results[Nrt]) \in Nat
  BY DEF Numbered, QueuesOK
<1>5. answer \in Result
  BY <1>3 DEF Request, Result
<1> HIDE DEF job, answer
<1>6. 1 \in 1..Len(requests[Nrt]) /\ job.no = drained[Nrt] + Len(results[Nrt]) + 1
  BY <1>3, <1>4
<1>7. ASSUME NEW i \in 1..Len(requests[Nrt]), i > 1
      PROVE  job.no < requests[Nrt][i].no
  BY <1>3, <1>4, <1>6, <1>7
<1>8. job.no \in Nat
  BY <1>3 DEF Request
<1>9. \A i \in 1..Len(requests[Nrt]) : i > 1 => requests[Nrt][i] # requests[Nrt][1]
  BY <1>3, <1>7, <1>8
<1>10. Waiting' = Waiting \ {job}
  BY <1>1, <1>2, <1>9, ElementsTaken, SMTT(30) DEF Waiting, job
<1>11. Answers' = Answers \cup {answer}
  BY <1>1, <1>2, <1>5, ElementsAppended DEF Answers
<1>12. \A r \in Waiting : r = job \/ job.no < r.no
  BY <1>3, <1>7 DEF Waiting
<1>13. job \in Waiting
  BY <1>3, <1>6 DEF Waiting
<1> QED
  BY <1>2, <1>10, <1>11, <1>12, <1>13 DEF job, answer

\* The answer drained is the first.
LEMMA DrainedView ==
    ASSUME QueuesOK, Numbered, Nrt \in Pipes, Dequeue(Nrt)
    PROVE  LET result == Head(results[Nrt]) IN
           /\ result \in Answers
           /\ \A r \in Answers : r = result \/ result.no < r.no
           /\ Answers' = Answers \ {result}
           /\ Waiting' = Waiting
           /\ submitted' = submitted
           /\ drained'[Nrt] = drained[Nrt] + 1 /\ result.no = drained[Nrt] + 1
           /\ drained[Nrt] \in Nat
<1> DEFINE result == Head(results[Nrt])
<1>1. results[Nrt] \in Seq(Result) /\ results[Nrt] # <<>> /\ drained[Nrt] \in Nat
  BY DEF QueuesOK, Dequeue
<1>2. /\ results'[Nrt] = Tail(results[Nrt])
      /\ requests' = requests /\ submitted' = submitted
      /\ drained'[Nrt] = drained[Nrt] + 1
  BY DEF Dequeue, QueuesOK
<1>3. /\ result = results[Nrt][1] /\ result \in Result
      /\ Len(results[Nrt]) \in Nat /\ Len(results[Nrt]) > 0
  BY <1>1, HeadTaken
<1>4. \A i \in 1..Len(results[Nrt]) : results[Nrt][i].no = drained[Nrt] + i
  BY DEF Numbered
<1> HIDE DEF result
<1>5. 1 \in 1..Len(results[Nrt]) /\ result.no = drained[Nrt] + 1
  BY <1>3, <1>4
<1>6. ASSUME NEW i \in 1..Len(results[Nrt]), i > 1
      PROVE  result.no < results[Nrt][i].no
  BY <1>1, <1>3, <1>4, <1>5, <1>6
<1>7. \A i \in 1..Len(results[Nrt]) : i > 1 => results[Nrt][i] # results[Nrt][1]
  BY <1>1, <1>3, <1>5, <1>6
<1>8. Answers' = Answers \ {result}
  BY <1>1, <1>2, <1>7, ElementsTaken DEF Answers, result
<1>9. \A r \in Answers : r = result \/ result.no < r.no
  BY <1>3, <1>6 DEF Answers
<1>10. result \in Answers
  BY <1>3, <1>5 DEF Answers
<1> QED
  BY <1>1, <1>2, <1>5, <1>8, <1>9, <1>10 DEF Waiting, result

-----------------------------------------------------------------------------
\* What is owed is a request, or an answer.
LEMMA OwedNumbers ==
    ASSUME NEW n
    PROVE  n \in Owed <=>
              \/ \E r \in Waiting : Owes(r.kind, r.chained) /\ r.no = n
              \/ \E r \in Answers : r.owed /\ r.no = n
    BY DEF Owed

\* With no replacement owed nothing under way moves the mirror.
LEMMA NothingOwed ==
    ASSUME Counted, replacing = 0
    PROVE  Still /\ Owed = {}
<1>1. Owed = {}
  BY FS_EmptySet DEF Counted
<1>2. ASSUME NEW r \in Answers, Moves(r) PROVE FALSE
  BY <1>1, <1>2, OwedNumbers DEF Counted
<1> QED
  BY <1>1, <1>2 DEF Still

\* The count of replacements owed never goes below zero.
LEMMA ReplacingCounts ==
    ASSUME Counted
    PROVE  replacing \in Nat
    BY FS_CardinalityType DEF Counted

\* Buffers are only added to, and new ones made.
Grown ==
    /\ Len(cells) <= Len(cells')
    /\ \A b \in 1..Len(cells) : cells[b] \subseteq cells'[b]

\* What a buffer carries it goes on carrying.
LEMMA StillCarries ==
    ASSUME PoolOK, Grown, NEW w, NEW b \in 0..Len(cells), Carries(b, w)
    PROVE  b = None \/ w \in cells'[b]
<1>1. CASE b = None
  BY <1>1
<1>2. CASE b # None
  <2>1. b \in 1..Len(cells)
    BY <1>2 DEF None, PoolOK
  <2> QED
    BY <1>2, <2>1 DEF Carries, Grown
<1> QED
  BY <1>1, <1>2

\* Nothing of what the invariant speaks of changes.
LEMMA WritesUnchanged ==
    ASSUME WritesInvariant,
           UNCHANGED <<requests, results, submitted, drained, cells, mirror, chain,
                       replacing, done, standing>>
    PROVE  WritesInvariant'
<1>1. Waiting' = Waiting /\ Answers' = Answers
  BY DEF Waiting, Answers
<1>2. Owed' = Owed
  BY <1>1 DEF Owed
<1>3. Counted' /\ Chained'
  BY <1>1, <1>2 DEF WritesInvariant, Counted, Chained
<1>4. ASSUME NEW w \in standing PROVE Stands(w)'
  <2>1. Stands(w)
    BY DEF WritesInvariant, Standing
  <2> QED
    BY <1>1, <2>1 DEF Stands, Waits, Ran, ToRun, Still, Landed, Carries, OnItsWay, Superseded
<1> QED
  BY <1>3, <1>4 DEF WritesInvariant, Standing

\* The queue and what it did to its buffer change in no step of another pipeline.
LEMMA OtherPipelines ==
    ASSUME WritesInvariant,
           requests'[Nrt] = requests[Nrt], results'[Nrt] = results[Nrt],
           submitted'[Nrt] = submitted[Nrt], drained'[Nrt] = drained[Nrt],
           UNCHANGED <<cells, mirror, chain, replacing, done, standing>>
    PROVE  WritesInvariant'
<1>1. Waiting' = Waiting /\ Answers' = Answers
  BY DEF Waiting, Answers
<1>2. Owed' = Owed
  BY <1>1 DEF Owed
<1>3. Counted' /\ Chained'
  BY <1>1, <1>2 DEF WritesInvariant, Counted, Chained
<1>4. ASSUME NEW w \in standing PROVE Stands(w)'
  <2>1. Stands(w)
    BY DEF WritesInvariant, Standing
  <2> QED
    BY <1>1, <2>1 DEF Stands, Waits, Ran, ToRun, Still, Landed, Carries, OnItsWay, Superseded
<1> QED
  BY <1>3, <1>4 DEF WritesInvariant, Standing

-----------------------------------------------------------------------------
\* A job received: a replacement ends what the writes before it promised, and a
\* write stands for itself.
LEMMA SubmitStands ==
    ASSUME JobsInvariant, Nrt \in Pipes, WritesInvariant,
           NEW kind \in Kinds, Submit(kind)
    PROVE  WritesInvariant'
<1> USE DEF JobsInvariant, Barred, BuffersExist, WritesInvariant
<1> DEFINE chained == replacing > 0
           n == submitted[Nrt] + 1
           job == [no |-> n, kind |-> kind, base |-> mirror, chained |-> chained]
<1>0. chained \in BOOLEAN /\ mirror \in Nat
  BY DEF PoolOK
<1>1. /\ Queue(Nrt, kind, mirror, chained)
      /\ replacing' = replacing + (IF Owes(kind, chained) THEN 1 ELSE 0)
      /\ standing' = IF kind \in Replacing THEN {}
                     ELSE IF kind \in InPlace THEN standing \cup {n}
                     ELSE standing
      /\ cells' = cells /\ mirror' = mirror /\ chain' = chain /\ done' = done
  BY DEF Submit, pool
<1>2. replacing \in Nat /\ (~chained => replacing = 0) /\ (replacing = 0 => ~chained)
  BY ReplacingCounts
<1> HIDE DEF chained
<1>3. /\ Waiting' = Waiting \cup {job} /\ Answers' = Answers
      /\ submitted'[Nrt] = submitted[Nrt] + 1 /\ drained' = drained
      /\ submitted[Nrt] \in Nat
  BY <1>0, <1>1, QueuedView
<1>4. /\ job.no = n /\ job.kind = kind /\ job.base = mirror /\ job.chained = chained
  OBVIOUS
<1>5. Ordered
  BY NumbersOrder
<1> HIDE DEF job
<1>6. n \notin Owed
  <2>1. /\ \A r \in Waiting : r.no # n
        /\ \A r \in Answers : r.no # n
    BY <1>3, <1>5 DEF Ordered
  <2> QED
    BY <2>1, OwedNumbers
<1>7. Owed' = IF Owes(kind, chained) THEN Owed \cup {n} ELSE Owed
  BY <1>3, <1>4 DEF Owed
<1>8. Counted'
  <2>1. CASE Owes(kind, chained)
    <3>1. /\ IsFiniteSet(Owed \cup {n})
          /\ Cardinality(Owed \cup {n}) = Cardinality(Owed) + 1
      BY <1>6, FS_AddElement DEF Counted
    <3> QED
      BY <1>1, <1>3, <1>7, <2>1, <3>1 DEF Counted
  <2>2. CASE ~Owes(kind, chained)
    <3>1. replacing' = replacing /\ Owed' = Owed
      BY <1>1, <1>2, <1>7, <2>2
    <3> QED
      BY <1>3, <3>1 DEF Counted
  <2> QED
    BY <2>1, <2>2
<1>9. Chained'
  BY <1>1, <1>3 DEF Chained
<1>10. /\ standing' \subseteq 1..submitted'[Nrt]
       /\ done' \subseteq 1..drained'[Nrt]
  <2>1. standing' \subseteq standing \cup {n}
    BY <1>1
  <2>2. standing \subseteq 1..submitted[Nrt] /\ done \subseteq 1..drained[Nrt]
    BY DEF Standing
  <2>3. \A w \in standing \cup {n} : w \in 1..n
    BY <1>3, <2>2
  <2> QED
    BY <1>1, <1>3, <2>1, <2>2, <2>3
<1>11. ASSUME NEW w \in standing' PROVE Stands(w)'
  <2>1. kind \notin Replacing /\ (w \in standing \/ (w = n /\ kind \in InPlace))
    BY <1>1
  <2>2. CASE w \in standing
    <3>1. Stands(w) /\ w < n /\ w \in Nat
      BY <1>3, <2>2 DEF Standing
    <3>2. (\A r \in Waiting : r.kind \in Replacing => r.no < w)'
      BY <1>3, <1>4, <2>1, <3>1 DEF Stands
    <3>3. (Waits(w) \/ Ran(w))' /\ (Ran(w)' => Ran(w))
      BY <1>3, <1>4, <3>1 DEF Stands, Waits, Ran
    <3>4. replacing = 0 => replacing' = 0
      BY <1>1, <1>2, <2>1 DEF Owes
    <3>5. ToRun(w)'
      <4> SUFFICES ASSUME NEW r \in Waiting, r.no = w
                   PROVE  /\ r.kind \in InPlace
                          /\ ~r.chained => replacing' = 0 /\ mirror' = r.base
                          /\ mirror' = r.base \/ (Still' /\ chain' = None => mirror' = None)
        BY <1>3, <1>4, <3>1 DEF ToRun
      <4> QED
        BY <1>1, <1>3, <3>1, <3>4 DEF Stands, ToRun, Still
    <3>6. Ran(w)' => Landed(w)'
      BY <1>1, <1>3, <3>1, <3>3, <3>4 DEF Stands, Landed, Carries, OnItsWay, Superseded
    <3> QED
      BY <3>2, <3>3, <3>5, <3>6 DEF Stands
  <2>3. CASE w = n /\ kind \in InPlace
    <3>1. \A r \in Waiting : r.no < n
      BY <1>3, <1>5 DEF Ordered
    <3>2. (\A r \in Waiting : r.kind \in Replacing => r.no < w)'
      BY <1>3, <1>4, <2>1, <2>3, <3>1
    <3>3. Waits(w)' /\ ~Ran(w)'
      BY <1>3, <1>4, <2>3 DEF Waits, Ran
    <3>4. ToRun(w)'
      <4>1. \A r \in Waiting' : r.no = w => r = job
        BY <1>3, <2>3, <3>1, <1>5 DEF Ordered
      <4>2. ~chained => replacing' = 0
        BY <1>1, <1>2, <2>1 DEF Owes
      <4> QED
        BY <1>1, <1>4, <2>3, <4>1, <4>2 DEF ToRun
    <3> QED
      BY <3>2, <3>3, <3>4 DEF Stands
  <2> QED
    BY <2>1, <2>2, <2>3
<1> QED
  BY <1>8, <1>9, <1>10, <1>11 DEF Standing

\* A buffer from outside the queue ends what every write promised.
LEMMA LoadStands ==
    ASSUME WritesInvariant, Load
    PROVE  WritesInvariant'
<1>1. UNCHANGED <<submitted, drained, requests, results, chain, replacing, done>>
      /\ standing' = {}
  BY DEF Load, queues
<1>2. Waiting' = Waiting /\ Answers' = Answers
  BY <1>1 DEF Waiting, Answers
<1>3. Owed' = Owed
  BY <1>2 DEF Owed
<1> QED
  BY <1>1, <1>2, <1>3 DEF WritesInvariant, Counted, Chained, Standing

-----------------------------------------------------------------------------
\* What a worker's step does to the queue's state, whatever the job: the job's
\* answer takes its place, and what was owed is owed.
RanJob(job, answer) ==
    /\ job \in Waiting
    /\ \A r \in Waiting : r = job \/ job.no < r.no
    /\ Waiting' = Waiting \ {job}
    /\ Answers' = Answers \cup {answer}
    /\ answer.no = job.no
    /\ answer.owed = Owes(job.kind, job.chained)
    /\ UNCHANGED <<submitted, drained, mirror, replacing, done, standing>>

\* A replacement stays owed when its request becomes an answer.
LEMMA RanJobCounted ==
    ASSUME Ordered, Counted, NEW job, NEW answer, RanJob(job, answer),
           Moves(answer) => answer.owed
    PROVE  Counted'
<1>1. Owed' = Owed
  <2>1. ASSUME NEW x, x \in Owed PROVE x \in Owed'
    <3>1. CASE \E r \in Waiting : Owes(r.kind, r.chained) /\ r.no = x
      BY <3>1 DEF RanJob, Owed
    <3>2. CASE \E r \in Answers : r.owed /\ r.no = x
      BY <3>2 DEF RanJob, Owed
    <3> QED
      BY <2>1, <3>1, <3>2, OwedNumbers
  <2>2. ASSUME NEW x, x \in Owed' PROVE x \in Owed
    <3>1. CASE \E r \in Waiting' : Owes(r.kind, r.chained) /\ r.no = x
      BY <3>1 DEF RanJob, Owed
    <3>2. CASE \E r \in Answers' : r.owed /\ r.no = x
      BY <3>2 DEF RanJob, Owed
    <3> QED
      BY <2>2, <3>1, <3>2 DEF Owed
  <2> QED
    BY <2>1, <2>2
<1> QED
  BY <1>1 DEF Counted, RanJob

\* The parts that only turn on the order of the jobs.
LEMMA RanJobOrder ==
    ASSUME Ordered, Standing, NEW job, NEW answer, RanJob(job, answer),
           NEW w \in standing
    PROVE  /\ (\A r \in Waiting : r.kind \in Replacing => r.no < w)'
           /\ (Waits(w) \/ Ran(w))'
           /\ Ran(w)' => \/ Ran(w) /\ job.no > w
                         \/ job.no = w /\ job.kind \in InPlace
           /\ \A r \in Answers : r.no < job.no
           /\ w \in Nat /\ job.no \in Nat
<1>1. Stands(w) /\ w \in 1..submitted[Nrt]
  BY DEF Standing
<1>2. /\ \A r \in Waiting : r.no \in Nat
      /\ \A r \in Answers : r.no < job.no
      /\ job \in Waiting /\ job.no \in Nat
      /\ \A r \in Waiting : r.no = job.no => r = job
  BY DEF Ordered, RanJob
<1>3. w \in Nat
  BY <1>1
<1>4. (\A r \in Waiting : r.kind \in Replacing => r.no < w)'
  BY <1>1 DEF Stands, RanJob
<1>5. CASE Ran(w)
  <2>1. job.no > w /\ Ran(w)'
    BY <1>2, <1>5 DEF Ran, RanJob
  <2> QED
    BY <1>2, <1>3, <1>4, <1>5, <2>1
<1>6. CASE Waits(w) /\ job.no = w
  <2>1. Ran(w)'
    BY <1>2, <1>6 DEF Ran, RanJob
  <2>2. job.kind \in InPlace
    BY <1>1, <1>2, <1>6 DEF Stands, ToRun
  <2> QED
    BY <1>2, <1>3, <1>4, <1>6, <2>1, <2>2
<1>7. CASE Waits(w) /\ job.no # w
  <2>1. PICK r \in Waiting : r.no = w
    BY <1>7 DEF Waits
  <2>2. r \in Waiting'
    BY <1>7, <2>1 DEF RanJob
  <2>3. Waits(w)' /\ ~Ran(w)'
    BY <1>3, <2>1, <2>2 DEF Waits, Ran
  <2> QED
    BY <1>2, <1>3, <1>4, <2>3
<1> QED
  BY <1>1, <1>5, <1>6, <1>7 DEF Stands

\* A job that leaves the mirror and the queue's own buffer alone: one that fails,
\* one that only reads, one that writes the snapshot's samples.
LEMMA QuietJob ==
    ASSUME Ordered, PoolOK, Grown, WritesInvariant, NEW job, NEW answer,
           RanJob(job, answer), ~Moves(answer), chain' = chain,
           job.no \in standing => Landed(job.no)'
    PROVE  WritesInvariant'
<1> USE DEF WritesInvariant
<1>1. Counted'
  BY RanJobCounted
<1>2. \A r : r \in Answers' /\ Moves(r) <=> r \in Answers /\ Moves(r)
  BY DEF RanJob
<1>3. Chained'
  BY <1>2 DEF Chained
<1>4. ASSUME NEW w \in standing PROVE Stands(w)'
  <2>1. Stands(w)
    BY DEF Standing
  <2>2. ToRun(w)'
    <3>1. Still' => Still
      BY <1>2 DEF Still
    <3> SUFFICES ASSUME NEW r \in Waiting, r.no = w
                 PROVE  /\ r.kind \in InPlace
                        /\ ~r.chained => replacing = 0 /\ mirror = r.base
                        /\ mirror = r.base \/ (Still' /\ chain = None => mirror = None)
      BY DEF ToRun, RanJob
    <3> QED
      BY <2>1, <3>1 DEF Stands, ToRun
  <2>3. ASSUME Ran(w), job.no > w PROVE Landed(w)'
    <3>1. Landed(w)
      BY <2>1, <2>3 DEF Stands
    <3>2. mirror \in 0..Len(cells) /\ chain \in 0..Len(cells)
      BY DEF PoolOK
    <3>3. (Carries(mirror, w) \/ OnItsWay(w))'
      <4>1. CASE Carries(mirror, w)
        <5>1. mirror = None \/ w \in cells'[mirror]
          BY <3>2, <4>1, StillCarries
        <5> QED
          BY <5>1 DEF Carries, RanJob
      <4>2. CASE OnItsWay(w)
        BY <1>2, <4>2 DEF OnItsWay
      <4> QED
        BY <3>1, <4>1, <4>2 DEF Landed
    <3>4. (replacing = 0 \/ Carries(chain, w))'
      <4>1. CASE Carries(chain, w)
        <5>1. chain = None \/ w \in cells'[chain]
          BY <3>2, <4>1, StillCarries
        <5> QED
          BY <5>1 DEF Carries
      <4> QED
        BY <3>1, <4>1 DEF Landed, RanJob
    <3>5. (\A r \in Answers : Moves(r) /\ r.no >= w =>
              r.outcome = "install" /\ r.buffer = chain)'
      BY <1>2, <3>1 DEF Landed
    <3>6. (\A r \in Answers : r.outcome = "install" /\ r.no < w => Superseded(r, w))'
      <4> SUFFICES ASSUME NEW r \in Answers', r.outcome = "install", r.no < w
                   PROVE  Superseded(r, w)'
        OBVIOUS
      <4>1. r \in Answers
        BY <1>2 DEF Moves
      <4>2. Superseded(r, w)
        BY <3>1, <4>1 DEF Landed
      <4> QED
        BY <1>2, <4>2 DEF Superseded
    <3> QED
      BY <3>3, <3>4, <3>5, <3>6 DEF Landed
  <2>4. Ran(w)' => Landed(w)'
    BY <2>3, RanJobOrder
  <2> QED
    BY <2>2, <2>4, RanJobOrder DEF Stands
<1>5. Standing'
  BY <1>4 DEF Standing, RanJob
<1> QED
  BY <1>1, <1>3, <1>5

\* A job that moves the mirror, run: its buffer, or none, is the queue's own.
LEMMA MovingJob ==
    ASSUME Ordered, PoolOK, Grown, WritesInvariant, NEW job, NEW answer,
           RanJob(job, answer), Moves(answer), answer.owed,
           chain' = IF answer.outcome = "install" THEN answer.buffer ELSE None,
           job.kind \in Replacing \/ (chain' = chain /\ answer.outcome = "install"),
           job.no \in standing => Landed(job.no)'
    PROVE  WritesInvariant'
<1> USE DEF WritesInvariant
<1>1. Counted'
  BY RanJobCounted
<1>2. /\ Answers' = Answers \cup {answer} /\ answer.no = job.no
      /\ \A r \in Answers : r.no < job.no /\ r.no \in Nat
      /\ job.no \in Nat
  BY DEF RanJob, Ordered
<1>3. Chained'
  <2> SUFFICES ASSUME NEW r \in Answers', Moves(r),
                      \A q \in Answers' : Moves(q) => q.no <= r.no
               PROVE  chain' = IF r.outcome = "install" THEN r.buffer ELSE None
    BY DEF Chained
  <2>1. r = answer
    BY <1>2
  <2> QED
    BY <2>1
<1>4. ASSUME NEW w \in standing PROVE Stands(w)'
  <2>1. Stands(w)
    BY DEF Standing
  <2>2. ToRun(w)'
    <3>1. ~Still'
      BY <1>2 DEF Still
    <3> SUFFICES ASSUME NEW r \in Waiting, r.no = w
                 PROVE  /\ r.kind \in InPlace
                        /\ ~r.chained => replacing = 0 /\ mirror = r.base
                        /\ mirror = r.base \/ (Still' /\ chain' = None => mirror = None)
      BY DEF ToRun, RanJob
    <3> QED
      BY <2>1, <3>1 DEF Stands, ToRun
  <2>3. ASSUME Ran(w), job.no > w PROVE Landed(w)'
    <3>1. Landed(w) /\ w \in Nat
      BY <2>1, <2>3, RanJobOrder DEF Stands
    <3>2. /\ mirror \in 0..Len(cells) /\ chain \in 0..Len(cells)
          /\ mirror' = mirror /\ replacing' = replacing
      BY DEF PoolOK, RanJob
    <3>3. chain' = chain /\ answer.outcome = "install" /\ answer.buffer = chain
      <4>1. job.kind \notin Replacing
        BY <2>1, <2>3, <3>1, <1>2 DEF Stands, RanJob
      <4> QED
        BY <4>1
    <3>4. (Carries(mirror, w) \/ OnItsWay(w))'
      <4>1. CASE Carries(mirror, w)
        <5>1. mirror = None \/ w \in cells'[mirror]
          BY <3>2, <4>1, StillCarries
        <5> QED
          BY <3>2, <5>1 DEF Carries
      <4>2. CASE OnItsWay(w)
        BY <1>2, <4>2 DEF OnItsWay
      <4> QED
        BY <3>1, <4>1, <4>2 DEF Landed
    <3>5. (replacing = 0 \/ Carries(chain, w))'
      <4>1. CASE Carries(chain, w)
        <5>1. chain = None \/ w \in cells'[chain]
          BY <3>2, <4>1, StillCarries
        <5> QED
          BY <3>3, <5>1 DEF Carries
      <4> QED
        BY <3>1, <3>2, <4>1 DEF Landed
    <3>6. (\A r \in Answers : Moves(r) /\ r.no >= w =>
              r.outcome = "install" /\ r.buffer = chain)'
      BY <1>2, <3>1, <3>3 DEF Landed
    <3>7. (\A r \in Answers : r.outcome = "install" /\ r.no < w => Superseded(r, w))'
      <4> SUFFICES ASSUME NEW r \in Answers', r.outcome = "install", r.no < w
                   PROVE  Superseded(r, w)'
        OBVIOUS
      <4>1. r \in Answers
        BY <1>2, <2>3, <3>1
      <4>2. Superseded(r, w)
        BY <3>1, <4>1 DEF Landed
      <4> QED
        BY <1>2, <4>2 DEF Superseded
    <3> QED
      BY <3>4, <3>5, <3>6, <3>7 DEF Landed
  <2>4. Ran(w)' => Landed(w)'
    BY <2>3, RanJobOrder
  <2> QED
    BY <2>2, <2>4, RanJobOrder DEF Stands
<1>5. Standing'
  BY <1>4 DEF Standing, RanJob
<1> QED
  BY <1>1, <1>3, <1>5

\* A buffer to install is one that was made.
Installable == \A r \in Answers : r.outcome = "install" => r.buffer \in 1..Len(cells)

\* Nothing installs a buffer that is not there.
LEMMA AnswersInstallable ==
    ASSUME QueuesOK, InstallsExist, PoolOK, Nrt \in Pipes
    PROVE  Installable
<1> SUFFICES ASSUME NEW i \in 1..Len(results[Nrt]), results[Nrt][i].outcome = "install"
             PROVE  results[Nrt][i].buffer \in 1..Len(cells)
  BY DEF Installable, Answers
<1>1. /\ results[Nrt][i].buffer \in Nat /\ results[Nrt][i].buffer <= Len(cells)
      /\ results[Nrt][i].buffer # None
  BY QueueElements DEF Result, InstallsExist
<1> QED
  BY <1>1 DEF None, PoolOK

\* A write that runs in place is where it has to be: in the mirror's buffer, or in
\* the queue's own with the mirror's still to come.
LEMMA WriteLands ==
    ASSUME Ordered, PoolOK, Installable, Counted, Chained, Standing,
           NEW job, NEW answer, RanJob(job, answer), chain' = chain,
           job.no \in standing,
           NEW into \in 1..Len(cells), into = Base(job), job.no \in cells'[into],
           answer.buffer = into,
           answer.outcome = IF job.chained /\ chain # None THEN "install" ELSE "wrote"
    PROVE  Landed(job.no)'
<1> DEFINE w == job.no
           queued == job.chained /\ chain # None
<1>1. /\ Answers' = Answers \cup {answer} /\ answer.no = w
      /\ mirror' = mirror /\ replacing' = replacing
      /\ job \in Waiting
  BY DEF RanJob
<1>2. /\ \A r \in Answers : r.no < w /\ r.no \in Nat
      /\ w \in Nat
  BY <1>1 DEF Ordered
<1>3. /\ ~job.chained => replacing = 0 /\ mirror = job.base
      /\ mirror = job.base \/ (Still /\ chain = None => mirror = None)
  BY <1>1 DEF Standing, Stands, ToRun
<1>4. CASE queued
  <2>1. into = chain /\ answer.outcome = "install" /\ Moves(answer)
    BY <1>4 DEF Base, Moves
  <2>2. OnItsWay(w)'
    BY <1>1, <1>2, <2>1 DEF OnItsWay
  <2>3. Carries(chain, w)'
    BY <2>1 DEF Carries
  <2>4. (\A r \in Answers : Moves(r) /\ r.no >= w =>
            r.outcome = "install" /\ r.buffer = chain)'
    BY <1>1, <1>2, <2>1
  <2>5. (\A r \in Answers : r.outcome = "install" /\ r.no < w => Superseded(r, w))'
    BY <1>1, <1>2, <2>1 DEF Superseded
  <2> QED
    BY <2>2, <2>3, <2>4, <2>5 DEF Landed
<1>5. CASE ~queued
  <2>1. into = job.base /\ answer.outcome = "wrote" /\ ~Moves(answer)
    BY <1>5 DEF Base, Moves
  <2>2. replacing = 0 \/ chain = None
    BY <1>3, <1>5
  <2>3. (Carries(mirror, w) \/ OnItsWay(w))'
    <3>1. CASE mirror = job.base
      BY <1>1, <2>1, <3>1 DEF Carries
    <3>2. CASE ~Still
      BY <1>1, <1>2, <3>2 DEF Still, OnItsWay
    <3>3. CASE Still /\ mirror # job.base
      <4>1. mirror = None
        BY <1>3, <1>5, <3>3
      <4> QED
        BY <1>1, <4>1 DEF Carries
    <3> QED
      BY <3>1, <3>2, <3>3
  <2>4. (replacing = 0 \/ Carries(chain, w))'
    BY <1>1, <2>2 DEF Carries
  <2>5. (\A r \in Answers : Moves(r) /\ r.no >= w =>
            r.outcome = "install" /\ r.buffer = chain)'
    BY <1>1, <1>2, <2>1
  <2>6. (\A r \in Answers : r.outcome = "install" /\ r.no < w => Superseded(r, w))'
    <3> SUFFICES ASSUME NEW r \in Answers, r.outcome = "install"
                 PROVE  Superseded(r, w)'
      BY <1>1, <2>1
    <3>1. ~Still /\ chain = None
      BY <2>2, NothingOwed DEF Still, Moves
    <3>2. Moves(r)
      BY DEF Moves
    <3>3. r.buffer # None
      BY DEF Installable, None
    <3>4. PICK q \in Answers : Moves(q) /\ ~(q.no <= r.no)
      BY <3>1, <3>2, <3>3 DEF Chained
    <3>5. r.no < q.no /\ q.no <= w
      BY <1>2, <3>4
    <3> QED
      BY <1>1, <3>4, <3>5 DEF Superseded
  <2> QED
    BY <2>3, <2>4, <2>5, <2>6 DEF Landed
<1> QED
  BY <1>4, <1>5

\* Writing one entry leaves the others.
LEMMA ElementsReplaced ==
    ASSUME NEW S, NEW s \in Seq(S), NEW i \in 1..Len(s), NEW e \in S
    PROVE  LET t == [s EXCEPT ![i] = e] IN
           /\ Len(t) = Len(s)
           /\ t[i] = e
           /\ \A j \in 1..Len(s) : j # i => t[j] = s[j]
    OBVIOUS

\* A worker's step on the buffer's queue.
LEMMA RunStands ==
    ASSUME JobsInvariant, Nrt \in Pipes, WritesInvariant, Run
    PROVE  WritesInvariant'
<1> USE DEF JobsInvariant, Barred, BuffersExist
<1>0. PICK job : job = Head(requests[Nrt])
  OBVIOUS
<1> DEFINE Outcomes == {"install", "clear", "wrote", "none", "error"}
           owed == Owes(job.kind, job.chained)
           answer(outcome, buffer) == [no |-> job.no, outcome |-> outcome,
                                       buffer |-> buffer, owed |-> owed]
<1>1. /\ Succeed(job) \/ Fail(job)
      /\ UNCHANGED <<mirror, replacing, done, standing>>
      /\ requests[Nrt] # <<>>
  BY <1>0 DEF Run
<1>2. /\ job \in Request
      /\ job.base <= Len(cells)
      /\ job.kind \in {"gen", "set", "store"} => job.base # None
  <2>1. requests[Nrt] \in Seq(Request)
    BY DEF QueuesOK
  <2>2. job = requests[Nrt][1] /\ 1 \in 1..Len(requests[Nrt])
    BY <1>0, <1>1, <2>1, HeadTaken
  <2> QED
    BY <2>2, QueueElements DEF BasesExist
<1>3. /\ job.no \in Nat /\ job.base \in Nat /\ job.chained \in BOOLEAN
      /\ owed \in BOOLEAN /\ Len(cells) \in Nat
  BY <1>2 DEF Request, Owes, PoolOK
<1>4. Ordered /\ Installable
  BY NumbersOrder, AnswersInstallable
<1>5. ASSUME NEW outcome \in Outcomes, NEW buffer \in Nat,
             Finish(Nrt, outcome, buffer, owed)
      PROVE  RanJob(job, answer(outcome, buffer))
  <2>1. /\ job \in Waiting
        /\ \A r \in Waiting : r = job \/ job.no < r.no
        /\ Waiting' = Waiting \ {job}
        /\ Answers' = Answers \cup {answer(outcome, buffer)}
        /\ submitted' = submitted /\ drained' = drained
    BY <1>0, <1>3, <1>5, FinishedView
  <2> QED
    BY <1>1, <2>1 DEF RanJob
<1>6. job \in Waiting
  BY <1>0, <1>1, <1>2, HeadTaken DEF Waiting, QueuesOK
<1> HIDE DEF owed
<1>7. job.no \in standing => job.kind \in InPlace
  BY <1>6 DEF WritesInvariant, Standing, Stands, ToRun
<1>8. CASE Fail(job)
  <2>1. /\ job.kind \in {"alloc", "gen", "store"}
        /\ Finish(Nrt, "error", None, owed) /\ cells' = cells /\ chain' = chain
    BY <1>8 DEF Fail, Answer, owed
  <2>2. RanJob(job, answer("error", None)) /\ ~Moves(answer("error", None))
    BY <1>5, <2>1 DEF None, Moves
  <2>3. Grown /\ job.no \notin standing
    BY <1>3, <1>7, <2>1 DEF Grown, InPlace
  <2> QED
    BY <1>4, <2>1, <2>2, <2>3, QuietJob
<1>9. CASE job.kind = "store" /\ Answer(job, "none", None) /\ UNCHANGED <<cells, chain>>
  <2>1. Finish(Nrt, "none", None, owed) /\ cells' = cells /\ chain' = chain
    BY <1>9 DEF Answer, owed
  <2>2. RanJob(job, answer("none", None)) /\ ~Moves(answer("none", None))
    BY <1>5, <2>1 DEF None, Moves
  <2>3. Grown /\ job.no \notin standing
    BY <1>3, <1>7, <1>9, <2>1 DEF Grown, InPlace
  <2> QED
    BY <1>4, <2>1, <2>2, <2>3, QuietJob
<1>10. CASE job.kind = "free" /\ Answer(job, "clear", None)
            /\ chain' = None /\ cells' = cells
  <2> DEFINE cleared == answer("clear", None)
  <2>1. Finish(Nrt, "clear", None, owed) /\ cells' = cells /\ chain' = None
    BY <1>10 DEF Answer, owed
  <2>2. RanJob(job, cleared) /\ Moves(cleared) /\ cleared.outcome = "clear"
    BY <1>5, <2>1 DEF None, Moves
  <2>3. /\ Grown /\ job.no \notin standing /\ job.kind \in Replacing
        /\ owed
    BY <1>3, <1>7, <1>10, <2>1 DEF Grown, InPlace, Replacing, Owes, owed
  <2>4. cleared.owed
    BY <2>3
  <2> HIDE DEF cleared
  <2> QED
    BY <1>4, <2>1, <2>2, <2>3, <2>4, MovingJob
<1>11. CASE job.kind \in {"alloc", "gen"} /\ Build(job)
  <2> DEFINE from == IF job.kind = "gen" THEN cells[job.base] ELSE {}
             new == Len(cells) + 1
             built == answer("install", new)
  <2>1. /\ cells' = Append(cells, from \cup {job.no}) /\ chain' = new
        /\ Finish(Nrt, "install", new, owed)
    BY <1>11 DEF Build, Answer, owed
  <2>2. new \in Nat
    BY <1>3
  <2>3. /\ RanJob(job, built) /\ Moves(built) /\ built.outcome = "install"
        /\ built.buffer = new /\ built.owed = owed
    BY <1>5, <2>1, <2>2 DEF Moves
  <2>4. Grown
    <3>1. from \cup {job.no} \in SUBSET Nat
      <4>1. CASE job.kind = "gen"
        <5>1. job.base \in 1..Len(cells)
          BY <1>2, <1>3, <4>1 DEF None
        <5>2. cells[job.base] \in SUBSET Nat
          BY <5>1 DEF PoolOK
        <5> QED
          BY <1>3, <4>1, <5>2
      <4>2. CASE job.kind # "gen"
        BY <1>3, <4>2
      <4> QED
        BY <4>1, <4>2
    <3> HIDE DEF from
    <3>2. cells \in Seq(SUBSET Nat)
      BY DEF PoolOK
    <3>3. Len(cells') = Len(cells) + 1 /\ \A b \in 1..Len(cells) : cells'[b] = cells[b]
      BY <2>1, <3>1, <3>2, Appended
    <3> QED
      BY <1>3, <3>3 DEF Grown
  <2>5. job.no \notin standing /\ job.kind \in Replacing /\ owed
    BY <1>7, <1>11 DEF InPlace, Replacing, Owes, owed
  <2>6. built.owed
    BY <2>3, <2>5
  <2>7. chain' = IF built.outcome = "install" THEN built.buffer ELSE None
    BY <2>1, <2>3
  <2> HIDE DEF built
  <2> QED
    BY <1>4, <2>3, <2>4, <2>5, <2>6, <2>7, MovingJob
<1>12. CASE job.kind \in InPlace /\ Write(job)
  <2> DEFINE into == Base(job)
             outcome == IF job.chained /\ chain # None THEN "install" ELSE "wrote"
             wrote == answer(outcome, into)
  <2>1. /\ cells' = [cells EXCEPT ![into] = @ \cup {job.no}] /\ chain' = chain
        /\ Finish(Nrt, outcome, into, owed)
    BY <1>12 DEF Write, Answer, owed
  <2>2. into \in 1..Len(cells)
    BY <1>2, <1>3, <1>12 DEF Base, PoolOK, InPlace, None
  <2>3. outcome \in Outcomes /\ into \in Nat
    BY <2>2
  <2>5. /\ RanJob(job, wrote) /\ wrote.outcome = outcome /\ wrote.buffer = into
        /\ wrote.owed = owed
    BY <1>5, <2>1, <2>3
  <2>7. /\ into = Base(job)
        /\ wrote.outcome = IF job.chained /\ chain # None THEN "install" ELSE "wrote"
        /\ chain' = chain
    BY <2>1, <2>5
  <2> HIDE DEF wrote, into, outcome
  <2>4. Grown /\ job.no \in cells'[into]
    <3>1. cells \in Seq(SUBSET Nat) /\ cells[into] \cup {job.no} \in SUBSET Nat
      BY <1>3, <2>2 DEF PoolOK
    <3>2. /\ Len(cells') = Len(cells)
          /\ cells'[into] = cells[into] \cup {job.no}
          /\ \A b \in 1..Len(cells) : b # into => cells'[b] = cells[b]
      BY <2>1, <2>2, <3>1, ElementsReplaced
    <3>3. Len(cells) <= Len(cells')
      BY <1>3, <3>2
    <3>4. \A b \in 1..Len(cells) : cells[b] \subseteq cells'[b]
      BY <3>2
    <3>5. job.no \in cells'[into]
      BY <3>2
    <3> QED
      BY <3>3, <3>4, <3>5 DEF Grown
  <2>6. job.no \in standing => Landed(job.no)'
    <3>1. SUFFICES ASSUME job.no \in standing PROVE Landed(job.no)'
      OBVIOUS
    <3>2. Counted /\ Chained /\ Standing
      BY DEF WritesInvariant
    <3> QED
      BY <1>4, <2>2, <2>4, <2>5, <2>7, <3>1, <3>2, WriteLands
  <2>8. CASE job.chained /\ chain # None
    <3>1. /\ wrote.outcome = "install" /\ Moves(wrote) /\ wrote.buffer = chain
      BY <2>5, <2>7, <2>8 DEF Base, Moves
    <3>2. owed
      BY <1>12, <2>8 DEF Owes, owed
    <3>3. wrote.owed
      BY <2>5, <3>2
    <3>4. chain' = IF wrote.outcome = "install" THEN wrote.buffer ELSE None
      BY <2>7, <3>1
    <3> QED
      BY <1>4, <2>4, <2>5, <2>6, <2>7, <3>1, <3>3, <3>4, MovingJob
  <2>9. CASE ~(job.chained /\ chain # None)
    <3>1. ~Moves(wrote)
      BY <2>7, <2>9 DEF Moves
    <3> QED
      BY <1>4, <2>4, <2>5, <2>6, <2>7, <3>1, QuietJob
  <2> QED
    BY <2>8, <2>9
<1> QED
  BY <1>1, <1>8, <1>9, <1>10, <1>11, <1>12 DEF Succeed

-----------------------------------------------------------------------------
\* A result drained.  One that moves the mirror was owed, so the queue's own
\* buffer carries every standing write that ran before it.
DrainedResult(result) ==
    /\ result \in Answers
    /\ \A r \in Answers : r = result \/ result.no < r.no
    /\ Answers' = Answers \ {result}
    /\ Waiting' = Waiting
    /\ replacing' = replacing - (IF result.owed THEN 1 ELSE 0)
    /\ UNCHANGED <<chain, standing>>

\* A drained replacement is owed no more, and with none owed none is drained.
LEMMA DrainedCounted ==
    ASSUME Ordered, Counted, NEW result, DrainedResult(result)
    PROVE  /\ Counted'
           /\ replacing = 0 => ~Moves(result) /\ replacing' = 0
<1>1. Owed' = IF result.owed THEN Owed \ {result.no} ELSE Owed
  <2>1. ASSUME NEW x, x \in Owed' PROVE x \in Owed /\ (result.owed => x # result.no)
    <3>1. CASE \E r \in Waiting' : Owes(r.kind, r.chained) /\ r.no = x
      <4>1. PICK r \in Waiting : Owes(r.kind, r.chained) /\ r.no = x
        BY <3>1 DEF DrainedResult
      <4> QED
        BY <4>1, OwedNumbers DEF DrainedResult, Ordered
    <3>2. CASE \E r \in Answers' : r.owed /\ r.no = x
      <4>1. PICK r \in Answers : r.owed /\ r.no = x /\ r # result
        BY <3>2 DEF DrainedResult
      <4> QED
        BY <4>1, OwedNumbers DEF DrainedResult, Ordered
    <3> QED
      BY <2>1, <3>1, <3>2 DEF Owed
  <2>2. ASSUME NEW x, x \in Owed, result.owed => x # result.no PROVE x \in Owed'
    <3>1. CASE \E r \in Waiting : Owes(r.kind, r.chained) /\ r.no = x
      BY <3>1 DEF DrainedResult, Owed
    <3>2. CASE \E r \in Answers : r.owed /\ r.no = x
      <4>1. PICK r \in Answers : r.owed /\ r.no = x
        BY <3>2
      <4>2. r \in Answers'
        BY <2>2, <4>1 DEF DrainedResult
      <4> QED
        BY <4>1, <4>2 DEF Owed
    <3> QED
      BY <2>2, <3>1, <3>2, OwedNumbers
  <2> QED
    BY <2>1, <2>2
<1>2. result.owed => result.no \in Owed
  BY OwedNumbers DEF DrainedResult
<1>3. CASE result.owed
  <2>1. /\ IsFiniteSet(Owed \ {result.no})
        /\ Cardinality(Owed \ {result.no}) = Cardinality(Owed) - 1
    BY <1>2, <1>3, FS_RemoveElement DEF Counted
  <2>2. Counted'
    BY <1>1, <1>3, <2>1 DEF Counted, DrainedResult
  <2>3. replacing # 0
    BY <1>2, <1>3, NothingOwed
  <2> QED
    BY <2>2, <2>3
<1>4. CASE ~result.owed
  <2>1. replacing' = replacing
    BY <1>4, ReplacingCounts DEF DrainedResult
  <2>2. Counted'
    BY <1>1, <1>4, <2>1 DEF Counted, DrainedResult
  <2>3. ~Moves(result)
    BY <1>4 DEF Counted, DrainedResult
  <2> QED
    BY <2>1, <2>2, <2>3
<1> QED
  BY <1>3, <1>4

\* Where the mirror ends up when a result is drained.
Applied(result) ==
    \/ /\ result.outcome = "install"
       /\ mirror' \in 1..Len(cells')
       /\ cells[result.buffer] \subseteq cells'[mirror']
    \/ result.outcome = "clear" /\ mirror' = None
    \/ ~Moves(result) /\ mirror' = mirror

\* A write still to run finds its buffer after the drain.
LEMMA DrainedToRun ==
    ASSUME Ordered, Installable, Counted, Chained, NEW result, DrainedResult(result),
           Applied(result), NEW w, ToRun(w)
    PROVE  ToRun(w)'
<1>1. Waiting' = Waiting /\ chain' = chain
  BY DEF DrainedResult
<1>2. replacing = 0 => replacing' = 0 /\ mirror' = mirror
  BY DrainedCounted DEF Applied, Moves
<1> SUFFICES ASSUME NEW r \in Waiting, r.no = w
             PROVE  /\ r.kind \in InPlace
                    /\ ~r.chained => replacing' = 0 /\ mirror' = r.base
                    /\ mirror' = r.base \/ (Still' /\ chain' = None => mirror' = None)
  BY <1>1 DEF ToRun
<1>3. /\ r.kind \in InPlace
      /\ ~r.chained => replacing = 0 /\ mirror = r.base
      /\ mirror = r.base \/ (Still /\ chain = None => mirror = None)
  BY DEF ToRun
<1>4. CASE ~Moves(result)
  <2>1. Still' => Still
    BY <1>4 DEF Still, DrainedResult
  <2>2. mirror' = mirror
    BY <1>4 DEF Applied, Moves
  <2> QED
    BY <1>1, <1>2, <1>3, <2>1, <2>2
<1>5. CASE Moves(result)
  <2>1. ASSUME Still', chain = None PROVE mirror' = None
    <3>1. \A q \in Answers : Moves(q) => q.no <= result.no
      <4> SUFFICES ASSUME NEW q \in Answers, Moves(q) PROVE q.no <= result.no
        OBVIOUS
      <4>1. q = result
        BY <2>1 DEF Still, DrainedResult
      <4> QED
        BY <4>1 DEF Ordered, DrainedResult
    <3>2. result \in Answers
      BY DEF DrainedResult
    <3>3. result.outcome # "install"
      BY <1>5, <2>1, <3>1, <3>2 DEF Chained, Installable, None
    <3> QED
      BY <1>5, <3>3 DEF Applied
  <2> QED
    BY <1>1, <1>2, <1>3, <2>1
<1> QED
  BY <1>4, <1>5

\* A write that ran stays on its way, or has arrived.
LEMMA DrainedLanded ==
    ASSUME Ordered, PoolOK, Grown, Installable, Counted, NEW result,
           DrainedResult(result), Applied(result), NEW w \in Nat, Landed(w)
    PROVE  Landed(w)'
<1>1. /\ Answers' = Answers \ {result} /\ chain' = chain
      /\ \A r \in Answers' : r \in Answers /\ result.no < r.no
      /\ result \in Answers /\ result.no \in Nat
  BY DEF DrainedResult, Ordered
<1>2. replacing = 0 => ~Moves(result) /\ replacing' = 0
  BY DrainedCounted
<1>3. mirror \in 0..Len(cells) /\ chain \in 0..Len(cells)
  BY DEF PoolOK
<1>4. /\ Carries(mirror, w) \/ OnItsWay(w)
      /\ replacing = 0 \/ Carries(chain, w)
      /\ \A r \in Answers : Moves(r) /\ r.no >= w =>
            r.outcome = "install" /\ r.buffer = chain
      /\ \A r \in Answers : r.outcome = "install" /\ r.no < w => Superseded(r, w)
  BY DEF Landed
<1>5. (Carries(mirror, w) \/ OnItsWay(w))'
  <2>1. CASE ~Moves(result)
    <3>1. mirror' = mirror
      BY <2>1 DEF Applied, Moves
    <3>2. CASE Carries(mirror, w)
      <4>1. mirror = None \/ w \in cells'[mirror]
        BY <1>3, <3>2, StillCarries
      <4> QED
        BY <3>1, <4>1 DEF Carries
    <3>3. CASE OnItsWay(w)
      BY <1>1, <2>1, <3>3 DEF OnItsWay
    <3> QED
      BY <1>4, <3>2, <3>3
  <2>2. CASE result.outcome = "clear"
    <3>1. mirror' = None
      BY <2>2 DEF Applied, Moves
    <3> QED
      BY <3>1 DEF Carries
  <2>3. CASE result.outcome = "install" /\ result.no < w
    <3>1. PICK q \in Answers : result.no < q.no /\ Moves(q) /\ q.no <= w
      BY <1>1, <1>4, <2>3 DEF Superseded
    <3>2. q \in Answers'
      BY <1>1, <3>1
    <3> QED
      BY <3>1, <3>2 DEF OnItsWay
  <2>4. CASE result.outcome = "install" /\ ~(result.no < w)
    <3>1. Moves(result) /\ result.no >= w
      BY <1>1, <2>4 DEF Moves
    <3>2. result.buffer = chain /\ Carries(chain, w)
      BY <1>1, <1>2, <1>4, <3>1
    <3>3. result.buffer \in 1..Len(cells)
      BY <1>1, <2>4 DEF Installable
    <3>4. w \in cells[result.buffer]
      BY <3>2, <3>3 DEF Carries, None
    <3>5. cells[result.buffer] \subseteq cells'[mirror']
      BY <2>4 DEF Applied, Moves
    <3> QED
      BY <3>4, <3>5 DEF Carries
  <2> QED
    BY <2>1, <2>2, <2>3, <2>4 DEF Moves
<1>6. (replacing = 0 \/ Carries(chain, w))'
  <2>1. CASE Carries(chain, w)
    <3>1. chain = None \/ w \in cells'[chain]
      BY <1>3, <2>1, StillCarries
    <3> QED
      BY <1>1, <3>1 DEF Carries
  <2> QED
    BY <1>2, <1>4, <2>1
<1>7. (\A r \in Answers : Moves(r) /\ r.no >= w =>
          r.outcome = "install" /\ r.buffer = chain)'
  BY <1>1, <1>4
<1>8. (\A r \in Answers : r.outcome = "install" /\ r.no < w => Superseded(r, w))'
  <2> SUFFICES ASSUME NEW r \in Answers', r.outcome = "install", r.no < w
               PROVE  Superseded(r, w)'
    OBVIOUS
  <2>1. r \in Answers /\ result.no < r.no
    BY <1>1
  <2>2. PICK q \in Answers : r.no < q.no /\ Moves(q) /\ q.no <= w
    BY <1>4, <2>1 DEF Superseded
  <2>3. q # result
    BY <1>1, <2>1, <2>2 DEF Ordered
  <2> QED
    BY <1>1, <2>2, <2>3 DEF Superseded
<1> QED
  BY <1>5, <1>6, <1>7, <1>8 DEF Landed

\* collect_nrt_results on one result.
LEMMA CollectStands ==
    ASSUME JobsInvariant, Nrt \in Pipes, WritesInvariant, CollectNrt
    PROVE  WritesInvariant'
<1> USE DEF JobsInvariant, Barred, BuffersExist
<1>0. PICK result : result = Head(results[Nrt])
  OBVIOUS
<1>1. /\ Dequeue(Nrt) /\ Apply(result) /\ UNCHANGED <<chain, standing>>
      /\ replacing' = replacing - (IF result.owed THEN 1 ELSE 0)
  BY <1>0 DEF CollectNrt
<1>2. /\ result \in Answers
      /\ \A r \in Answers : r = result \/ result.no < r.no
      /\ Answers' = Answers \ {result}
      /\ Waiting' = Waiting
      /\ submitted' = submitted
      /\ drained'[Nrt] = drained[Nrt] + 1 /\ result.no = drained[Nrt] + 1
      /\ drained[Nrt] \in Nat
  BY <1>0, <1>1, DrainedView
<1>3. DrainedResult(result)
  BY <1>1, <1>2 DEF DrainedResult
<1>4. Ordered /\ Installable /\ Counted /\ Chained /\ Standing
  BY NumbersOrder, AnswersInstallable DEF WritesInvariant
<1>5. /\ Grown /\ Applied(result) /\ done' \subseteq done \cup {result.no}
  <2>1. result.outcome = "install" => result.buffer \in 1..Len(cells)
    BY <1>2, <1>4 DEF Installable
  <2>2. cells \in Seq(SUBSET Nat) /\ Len(cells) \in Nat
    BY DEF PoolOK
  <2>3. done' \subseteq done \cup {result.no}
    BY <1>1 DEF Apply, Say
  <2>4. CASE result.outcome = "install" /\ Share(result.buffer)
    <3>1. result.buffer \in 1..Len(cells) /\ cells[result.buffer] \in SUBSET Nat
      BY <2>1, <2>2, <2>4
    <3>2. CASE Shared
      <4>1. cells' = Append(cells, cells[result.buffer]) /\ mirror' = Len(cells) + 1
        BY <2>4, <3>2 DEF Share
      <4>2. /\ Len(cells') = Len(cells) + 1
            /\ \A b \in 1..Len(cells) : cells'[b] = cells[b]
            /\ cells'[Len(cells) + 1] = cells[result.buffer]
        BY <2>2, <3>1, <4>1, Appended
      <4>3. Grown
        BY <2>2, <4>2 DEF Grown
      <4>4. mirror' \in 1..Len(cells') /\ cells[result.buffer] \subseteq cells'[mirror']
        BY <2>2, <4>1, <4>2
      <4> QED
        BY <2>3, <2>4, <4>3, <4>4 DEF Applied
    <3>3. CASE ~Shared
      <4>1. cells' = cells /\ mirror' = result.buffer
        BY <2>4, <3>3 DEF Share
      <4> QED
        BY <2>2, <2>3, <2>4, <3>1, <4>1 DEF Applied, Grown
    <3> QED
      BY <3>2, <3>3
  <2>5. CASE result.outcome = "clear" /\ mirror' = None /\ cells' = cells
    BY <2>2, <2>3, <2>5 DEF Applied, Grown
  <2>6. CASE result.outcome \in {"wrote", "none", "error"} /\ UNCHANGED pool
    BY <2>2, <2>3, <2>6 DEF Applied, Grown, Moves, pool
  <2> QED
    BY <1>1, <2>4, <2>5, <2>6 DEF Apply
<1>6. Counted'
  BY <1>3, <1>4, DrainedCounted
<1>7. Chained'
  <2> SUFFICES ASSUME NEW r \in Answers', Moves(r),
                      \A q \in Answers' : Moves(q) => q.no <= r.no
               PROVE  chain = IF r.outcome = "install" THEN r.buffer ELSE None
    BY <1>1 DEF Chained
  <2>1. r \in Answers /\ result.no < r.no /\ r.no \in Nat /\ result.no \in Nat
    BY <1>2, <1>4 DEF Ordered
  <2>2. \A q \in Answers : Moves(q) => q.no <= r.no
    BY <1>2, <2>1
  <2> QED
    BY <1>4, <2>1, <2>2 DEF Chained
<1>8. ASSUME NEW w \in standing PROVE Stands(w)'
  <2>1. Stands(w) /\ w \in Nat
    BY <1>4 DEF Standing
  <2>2. ToRun(w)'
    BY <1>3, <1>4, <1>5, <2>1, DrainedToRun DEF Stands
  <2>3. Ran(w)' => Landed(w)'
    <3>1. SUFFICES ASSUME Ran(w) PROVE Landed(w)'
      BY <1>2 DEF Ran
    <3>2. Landed(w)
      BY <2>1, <3>1 DEF Stands
    <3> QED
      BY <1>3, <1>4, <1>5, <2>1, <3>2, DrainedLanded
  <2> QED
    BY <1>2, <2>1, <2>2, <2>3 DEF Stands, Waits, Ran
<1>9. done' \subseteq 1..drained'[Nrt] /\ standing' \subseteq 1..submitted'[Nrt]
  BY <1>1, <1>2, <1>4, <1>5 DEF Standing
<1>10. Standing'
  BY <1>1, <1>8, <1>9 DEF Standing
<1> QED
  BY <1>6, <1>7, <1>10 DEF WritesInvariant

-----------------------------------------------------------------------------
\* Whatever the order the worker and the network thread take their steps in.
LEMMA WritesInvariantHolds == Spec => [](JobsInvariant /\ WritesInvariant)
<1>1. Init => WritesInvariant
  <2> SUFFICES ASSUME Init PROVE WritesInvariant
    OBVIOUS
  <2>1. Waiting = {} /\ Answers = {}
    BY JobsAssumption DEF Init, Waiting, Answers
  <2>2. Owed = {}
    BY <2>1 DEF Owed
  <2>3. Counted
    BY <2>1, <2>2, FS_EmptySet DEF Counted, Init
  <2> QED
    BY <2>1, <2>3 DEF WritesInvariant, Chained, Standing, Init
<1>2. JobsInvariant /\ WritesInvariant /\ [Next]_vars => WritesInvariant'
  <2> SUFFICES ASSUME JobsInvariant, WritesInvariant, [Next]_vars
               PROVE  WritesInvariant'
    OBVIOUS
  <2>0. Nrt \in Pipes
    BY JobsAssumption
  <2>1. ASSUME NEW kind \in Kinds, Submit(kind) PROVE WritesInvariant'
    BY <2>0, <2>1, SubmitStands
  <2>2. ASSUME NEW p \in Pipes, Compile(p) PROVE WritesInvariant'
    <3>1. /\ Queue(p, "compile", None, FALSE) /\ p # Nrt
          /\ UNCHANGED <<cells, mirror, chain, replacing, done, standing>>
      BY <2>2 DEF Compile, pool
    <3>2. /\ requests'[Nrt] = requests[Nrt] /\ results'[Nrt] = results[Nrt]
          /\ submitted'[Nrt] = submitted[Nrt] /\ drained'[Nrt] = drained[Nrt]
      BY <2>0, <3>1 DEF Queue, JobsInvariant, Barred, QueuesOK
    <3> QED
      BY <3>1, <3>2, OtherPipelines
  <2>3. CASE Sync \/ EndCollect
    BY <2>3, WritesUnchanged DEF Sync, EndCollect, queues, pool
  <2>4. CASE Load
    BY <2>4, LoadStands
  <2>5. CASE Run
    BY <2>0, <2>5, RunStands
  <2>6. ASSUME NEW p \in Pipes, Work(p) PROVE WritesInvariant'
    <3>1. /\ Finish(p, "none", None, FALSE) /\ p # Nrt
          /\ UNCHANGED <<cells, mirror, chain, replacing, done, standing>>
      BY <2>6 DEF Work, pool
    <3>2. /\ requests'[Nrt] = requests[Nrt] /\ results'[Nrt] = results[Nrt]
          /\ submitted'[Nrt] = submitted[Nrt] /\ drained'[Nrt] = drained[Nrt]
      BY <2>0, <3>1 DEF Finish, JobsInvariant, Barred, QueuesOK
    <3> QED
      BY <3>1, <3>2, OtherPipelines
  <2>7. CASE CollectNrt
    BY <2>0, <2>7, CollectStands
  <2>8. ASSUME NEW p \in Pipes, Collect(p) PROVE WritesInvariant'
    <3>1. /\ Dequeue(p) /\ p # Nrt
          /\ UNCHANGED <<cells, mirror, chain, replacing, done, standing>>
      BY <2>8 DEF Collect, pool
    <3>2. /\ requests'[Nrt] = requests[Nrt] /\ results'[Nrt] = results[Nrt]
          /\ submitted'[Nrt] = submitted[Nrt] /\ drained'[Nrt] = drained[Nrt]
      BY <2>0, <3>1 DEF Dequeue, JobsInvariant, Barred, QueuesOK
    <3> QED
      BY <3>1, <3>2, OtherPipelines
  <2>9. CASE UNCHANGED vars
    BY <2>9, WritesUnchanged DEF vars, queues, pool
  <2> QED
    BY <2>1, <2>2, <2>3, <2>4, <2>5, <2>6, <2>7, <2>8, <2>9 DEF Next, Receive
<1> QED
  BY <1>1, <1>2, JobsInvariantHolds, PTL DEF Spec

\* A write answered /done is in the buffer the engine plays until a replacement
\* is asked for, however the write, the replacements before it, the copies into
\* shared regions and the refused swaps interleave.
THEOREM WritesStay == Spec => []WritesLand
<1>1. JobsInvariant /\ Nrt \in Pipes /\ WritesInvariant => WritesLand
  <2> SUFFICES ASSUME JobsInvariant, Nrt \in Pipes, WritesInvariant, mirror # None,
                      NEW w \in done \cap standing
               PROVE  w \in cells[mirror]
    BY DEF WritesLand
  <2>1. Ordered
    BY NumbersOrder DEF JobsInvariant, Barred
  <2>2. w \in 1..drained[Nrt] /\ drained[Nrt] \in Nat /\ Stands(w)
    BY DEF WritesInvariant, Standing, JobsInvariant, Barred, QueuesOK
  <2>3. Ran(w)
    BY <2>1, <2>2 DEF Ran, Ordered
  <2>4. ~OnItsWay(w)
    BY <2>1, <2>2 DEF OnItsWay, Ordered
  <2> QED
    BY <2>2, <2>3, <2>4 DEF Stands, Landed, Carries
<1> QED
  BY <1>1, JobsAssumption, WritesInvariantHolds, PTL

=============================================================================
