--------------------------- MODULE FetchEngineInv ---------------------------
(***************************************************************************)
(* The inductive invariant behind the theorems about FetchEngine, and its  *)
(* proof: the types, the queue with the workers' hands, and what has been  *)
(* written of each transfer.                                               *)
(*                                                                         *)
(* The difficulty is the rider of a failed bundle: between its settle and  *)
(* its completion the job is back in the queue while its worker still      *)
(* holds it, so that a second worker may take it; two workers then hold    *)
(* one job.  Holding, Sharing and Requeued say exactly when that is so.    *)
(***************************************************************************)
EXTENDS FetchEngine, TLAPS, FiniteSetTheorems

Busy == Transferring \cup {"complete"}

\* A rider between its bundle's settle and its own completion.
RiderDone(w) == wpc[w] = "complete" /\ work[w].slot # {}

\* A worker has a job in hand exactly while it is busy, a job of the queue;
\* the pool's threads exist only while it runs.
Hands ==
    \A w \in Workers :
        /\ work[w].job # 0 <=> wpc[w] \in Busy
        /\ work[w].job # 0 => work[w].job \in Live
        /\ ~running => wpc[w] = "off"
        /\ wpc[w] \in {"ride", "settle"} => work[w].slot # {}
        /\ wpc[w] = "http" => work[w].slot = {} /\ work[w].tries < Retries
        /\ work[w].ok => wpc[w] \in {"settle", "complete"}

\* A job in hand carries the running mark, unless it is a rider's that was
\* requeued; nobody has a bundle's waiting member in hand.
Holding ==
    \A w \in Workers : work[w].job # 0 =>
        /\ ~job[work[w].job].wait
        /\ \/ job[work[w].job].copy = "running"
           \/ RiderDone(w) /\ job[work[w].job].requeued

\* Two workers have the same job in hand only while one of them is the rider
\* that the other overtook.
Sharing ==
    \A v, w \in Workers : v # w /\ work[v].job # 0 /\ work[v].job = work[w].job =>
        /\ job[work[w].job].requeued
        /\ RiderDone(v) <=> ~RiderDone(w)

\* The requeued flag stands for a rider, without a blob, that has yet to
\* complete; if the job runs again, another worker runs it.
Requeued ==
    \A j \in JobIds : job[j].requeued =>
        /\ job[j].spent
        /\ \E w \in Workers : work[w].job = j /\ RiderDone(w)
        /\ \A w \in Workers : work[w].job = j /\ RiderDone(w) => ~work[w].ok
        /\ job[j].copy = "running" =>
              \E w \in Workers : work[w].job = j /\ ~RiderDone(w)

\* A running job is in a worker's hands or waits in a bundle under way.
Owned ==
    \A j \in JobIds : job[j].copy = "running" =>
        \/ \E w \in Workers : work[w].job = j
        \/ job[j].wait /\ \E w \in Workers : /\ wpc[w] \in Transferring
                                             /\ job[j].tail \in work[w].slot

\* The members of a bundle under way, the rider among them.
Slots ==
    \A w \in Workers : wpc[w] \in Transferring /\ work[w].slot # {} =>
        /\ job[work[w].job].tail \in work[w].slot
        /\ \A t \in work[w].slot :
              /\ active[t] \in JobIds
              /\ job[active[t]].copy = "running"
              /\ ~job[active[t]].spent
              /\ job[active[t]].wait <=> active[t] # work[w].job

\* Bundles under way have no member in common.
SlotsApart ==
    \A v, w \in Workers :
        v # w /\ wpc[v] \in Transferring /\ wpc[w] \in Transferring
            => work[v].slot \cap work[w].slot = {}

\* What has been written of a transfer, and of a finished one.
Written ==
    \A w \in Workers :
        /\ wpc[w] \in {"open", "write"} =>
              \A t \in Cargo(w) \ work[w].todo : store[t] = "whole"
        /\ wpc[w] \in {"open", "write"} => work[w].todo \subseteq Cargo(w)
        /\ wpc[w] = "settle" /\ work[w].ok =>
              \A t \in Cargo(w) : store[t] = "whole"
        /\ wpc[w] = "complete" /\ work[w].ok => store[TailOf(w)] = "whole"

\* A settled job has left the queue.
SettledGone == \A j \in JobIds : Settled(j) => job[j].copy = "none"

\* Only a job that runs waits for its rider, or one that a stop abandoned.
WaitRuns == \A j \in JobIds : job[j].wait => job[j].copy # "queued"

QInv == /\ ActiveMatchesQueue /\ WaitRuns /\ Hands /\ Holding /\ Sharing /\ Requeued /\ Owned
        /\ Slots /\ SlotsApart /\ SettledGone

IInv == TypeOK /\ QInv /\ Written

-----------------------------------------------------------------------------
(***************************************************************************)
(* The constants, and the operators that update a record.                  *)
(***************************************************************************)
LEMMA Bounds == /\ NumWorkers \in Nat \ {0} /\ MaxJobs \in Nat
                /\ MaxStarts \in Nat \ {0} /\ Retries \in Nat \ {0}
  BY EngineAssumption

LEMMA SizeType == ASSUME NEW t \in Tails PROVE Size(t) \in Nat
<1>1. Expected[t] \in Nat /\ SizeGuess \in Nat
  BY EngineAssumption
<1>. QED BY <1>1 DEF Size

LEMMA FoldedFields ==
    ASSUME NEW j, NEW rider, job[j] \in Job
    PROVE  /\ Folded(j, rider) \in Job
           /\ Folded(j, rider).tail = job[j].tail
           /\ Folded(j, rider).copy = "running"
           /\ Folded(j, rider).state = "running"
           /\ Folded(j, rider).wait <=> j # rider
           /\ Folded(j, rider).spent = job[j].spent
           /\ Folded(j, rider).requeued = job[j].requeued
  BY DEF Folded, Job

LEMMA InHandFields ==
    ASSUME NEW j \in 0..MaxJobs, NEW slot \in SUBSET Tails
    PROVE  /\ InHand(j, slot) \in Work
           /\ InHand(j, slot).job = j
           /\ InHand(j, slot).slot = slot
           /\ InHand(j, slot).tries = 0
           /\ InHand(j, slot).ok = FALSE
  BY Bounds DEF InHand, Work

LEMMA NoWorkFields ==
    /\ NoWork \in Work /\ NoWork.job = 0 /\ NoWork.slot = {} /\ NoWork.ok = FALSE
<1>1. 0 \in 0..MaxJobs /\ {} \in SUBSET Tails
  BY Bounds
<1>. QED BY <1>1, InHandFields DEF NoWork

LEMMA RequeueFields ==
    ASSUME NEW j, job[j] \in Job
    PROVE  /\ Requeue(j) \in Job
           /\ Requeue(j).tail = job[j].tail
           /\ Requeue(j).copy = "queued"
           /\ Requeue(j).state = "queued"
           /\ Requeue(j).wait = FALSE
           /\ Requeue(j).spent = TRUE
           /\ Requeue(j).requeued <=> ~job[j].wait
  BY DEF Requeue, Job
  
LEMMA DeliveredFields ==
    ASSUME NEW j, job[j] \in Job
    PROVE  /\ Delivered(j) \in Job
           /\ Delivered(j).tail = job[j].tail
           /\ Delivered(j).copy = "none"
           /\ Delivered(j).state = "done"
           /\ Delivered(j).wait = FALSE
           /\ Delivered(j).spent = job[j].spent
           /\ Delivered(j).requeued = job[j].requeued
  BY DEF Delivered, Job

LEMMA ReleasedFields ==
    ASSUME NEW j, job[j] \in Job
    PROVE  /\ Released(j) \in Job
           /\ Released(j).tail = job[j].tail
           /\ Released(j).copy = job[j].copy
           /\ Released(j).state = job[j].state
           /\ Released(j).wait = job[j].wait
           /\ Released(j).spent = job[j].spent
           /\ Released(j).requeued = FALSE
  BY DEF Released, Job

LEMMA FinishedFields ==
    ASSUME NEW j, NEW ok \in BOOLEAN, job[j] \in Job
    PROVE  /\ Finished(j, ok) \in Job
           /\ Finished(j, ok).tail = job[j].tail
           /\ Finished(j, ok).copy = IF job[j].copy = "running" THEN "none" ELSE job[j].copy
           /\ Finished(j, ok).state = IF ok THEN "done" ELSE "failed"
           /\ Finished(j, ok).wait = job[j].wait
           /\ Finished(j, ok).spent = job[j].spent
           /\ Finished(j, ok).requeued = job[j].requeued
  BY DEF Finished, Job

-----------------------------------------------------------------------------
(***************************************************************************)
(* Types.                                                                  *)
(***************************************************************************)

LEMMA TypeTakeBundle ==
    ASSUME TypeOK, NEW w \in Workers, TakeBundle(w) PROVE TypeOK'
<1>1. /\ job \in [JobIds -> Job] /\ work \in [Workers -> Work]
      /\ wpc \in [Workers -> WorkerPc]
      /\ seq \in 0..MaxJobs /\ buffered \in Int /\ sweepRunning \in Int
  BY DEF TypeOK
<1>2. PICK rider \in Members : TakeBundle(w)!2!(rider)
  BY DEF TakeBundle
<1>3. Members \subseteq JobIds
  BY DEF Members, Foldable
<1>4. job' \in [JobIds -> Job]
  BY <1>1, <1>2, FoldedFields
<1>5. work' \in [Workers -> Work]
  <2>1. {job[j].tail : j \in Members} \in SUBSET Tails
    BY <1>1, <1>3 DEF Job
  <2>2. rider \in 0..MaxJobs
    BY <1>1, <1>2, <1>3, Bounds DEF JobIds
  <2>. QED BY <1>1, <1>2, <2>1, <2>2, InHandFields
<1>6. buffered' \in Int
  <2>1. job[rider].tail \in Tails
    BY <1>1, <1>2, <1>3 DEF Job
  <2>. QED BY <1>1, <1>2, <2>1, SizeType
<1>7. wpc' \in [Workers -> WorkerPc] /\ sweepRunning' \in Int
  BY <1>1 DEF TakeBundle, WorkerPc
<1>. QED BY <1>4, <1>5, <1>6, <1>7
         DEF TypeOK, TakeBundle, pool, bundle, client, JobIds

LEMMA TypeTakeJob ==
    ASSUME TypeOK, ActiveMatchesQueue, NEW w \in Workers, TakeJob(w) PROVE TypeOK'
<1>1. /\ job \in [JobIds -> Job] /\ work \in [Workers -> Work]
      /\ wpc \in [Workers -> WorkerPc] /\ active \in [Tails -> 0..seq]
      /\ seq \in 0..MaxJobs /\ buffered \in Int /\ sweepRunning \in Int
  BY DEF TypeOK
<1>2. PICK j \in JobIds : TakeJob(w)!2!(j)
  BY DEF TakeJob
<1>3. job[j] \in Job /\ job[j].tail \in Tails
  BY <1>1, <1>2 DEF Job
<1>4. job' \in [JobIds -> Job]
  <2>1. [job[j] EXCEPT !.copy = "running"] \in Job
    BY <1>3 DEF Job
  <2>. QED BY <1>1, <1>2, <2>1
<1>5. work' \in [Workers -> Work]
  <2>1. active[job[j].tail] \in 0..MaxJobs
    BY <1>1, <1>3, Bounds
  <2>. QED BY <1>1, <1>2, <2>1, InHandFields
<1>6. buffered' \in Int /\ sweepRunning' \in Int
  BY <1>1, <1>2, <1>3, SizeType
<1>7. wpc' \in [Workers -> WorkerPc]
  BY <1>1 DEF TakeJob, WorkerPc
<1>. QED BY <1>4, <1>5, <1>6, <1>7
         DEF TypeOK, TakeJob, pool, bundle, client, JobIds

\* What the steps of a transfer leave alone.
LEMMA TypeTransferred ==
    ASSUME TypeOK, NEW w \in Workers, NEW pc \in WorkerPc, Transferred(w, pc),
           store' \in [Tails -> File], work' \in [Workers -> Work]
    PROVE  TypeOK'
<1>1. wpc' \in [Workers -> WorkerPc]
  BY DEF TypeOK, Transferred
<1>. QED BY <1>1 DEF TypeOK, Transferred, pool, counters, bundle, queue, client, JobIds

LEMMA WorkFields ==
    ASSUME NEW r \in Work
    PROVE  /\ \A S \in SUBSET Tails : [r EXCEPT !.todo = S] \in Work
           /\ \A S \in SUBSET Tails, b \in BOOLEAN :
                 [r EXCEPT !.todo = S, !.ok = b] \in Work
           /\ \A b \in BOOLEAN : [r EXCEPT !.refused = b] \in Work
           /\ \A n \in 0..Retries : [r EXCEPT !.tries = n] \in Work
           /\ r.tries \in 0..Retries
           /\ r.todo \subseteq Tails /\ r.slot \subseteq Tails
           /\ r.ok \in BOOLEAN
  BY Bounds DEF Work

LEMMA TypeTransfer ==
    ASSUME TypeOK, Hands, NEW w \in Workers,
           \/ HttpBody(w) \/ HttpBadSize(w) \/ HttpMissing(w) \/ HttpError(w)
           \/ StoreOpen(w) \/ StoreWrite(w) \/ BundleBody(w) \/ BundleBad(w)
    PROVE  TypeOK'
<1>1. /\ job \in [JobIds -> Job] /\ work \in [Workers -> Work]
      /\ store \in [Tails -> File]
  BY DEF TypeOK
<1>2. /\ work[w] \in Work
      /\ wpc[w] = "http" => TailOf(w) \in Tails /\ work[w].tries < Retries
  BY <1>1 DEF Hands, Busy, Transferring, Live, TailOf, Job
<1>3. AfterStore(w) \in WorkerPc
  BY DEF AfterStore, WorkerPc
<1>4. CASE HttpBody(w)
  BY <1>1, <1>2, <1>4, WorkFields, TypeTransferred DEF HttpBody, WorkerPc
<1>5. CASE HttpBadSize(w)
  BY <1>1, <1>2, <1>5, TypeTransferred DEF HttpBadSize, WorkerPc, File
<1>6. CASE HttpMissing(w)
  BY <1>1, <1>6, TypeTransferred DEF HttpMissing, WorkerPc
<1>7. CASE HttpError(w)
  <2>0. wpc[w] = "http"
    BY <1>7 DEF HttpError
  <2>1. work[w].tries + 1 \in 0..Retries
    <3>1. work[w].tries \in 0..Retries /\ work[w].tries < Retries
      BY <1>2, <2>0, WorkFields
    <3>. QED BY <3>1, Bounds
  <2>2. work' \in [Workers -> Work]
    BY <1>1, <1>2, <1>7, <2>1, WorkFields DEF HttpError
  <2>. QED BY <1>1, <1>7, <2>2, TypeTransferred DEF HttpError, WorkerPc
<1>8. CASE StoreOpen(w)
  BY <1>1, <1>3, <1>8, TypeTransferred DEF StoreOpen, WorkerPc, File
<1>9. CASE StoreWrite(w)
  <2>1. CASE StoreWrite(w)!2!1
    <3>1. PICK t \in Tails : StoreWrite(w)!2!1!(t)
      BY <2>1
    <3>2. work[w].todo \ {t} \in SUBSET Tails /\ AllWritten(work[w].todo \ {t}) \in BOOLEAN
      BY <1>2, WorkFields DEF AllWritten
    <3>3. [work[w] EXCEPT !.todo = work[w].todo \ {t},
                          !.ok = AllWritten(work[w].todo \ {t})] \in Work
      BY <1>2, <3>2, WorkFields
    <3>4. work' \in [Workers -> Work]
      BY <1>1, <3>1, <3>3
    <3>5. store' \in [Tails -> File]
      BY <1>1, <3>1 DEF File
    <3>. QED BY <1>3, <3>1, <3>4, <3>5, TypeTransferred DEF WorkerPc
  <2>2. CASE StoreWrite(w)!2!2
    BY <1>1, <1>3, <2>2, TypeTransferred
  <2>. QED BY <1>9, <2>1, <2>2 DEF StoreWrite
<1>10. CASE BundleBody(w)
  BY <1>1, <1>2, <1>10, WorkFields, TypeTransferred DEF BundleBody, WorkerPc
<1>11. CASE BundleBad(w)
  BY <1>1, <1>2, <1>11, WorkFields, TypeTransferred DEF BundleBad, WorkerPc
<1>. QED BY <1>4, <1>5, <1>6, <1>7, <1>8, <1>9, <1>10, <1>11

LEMMA TypeExit == ASSUME TypeOK, NEW w \in Workers, Exit(w) PROVE TypeOK'
<1>1. wpc' \in [Workers -> WorkerPc]
  BY DEF TypeOK, Exit, WorkerPc
<1>. QED BY <1>1 DEF TypeOK, Exit, pool, counters, bundle, queue, client, JobIds

LEMMA TypeBundleSettle ==
    ASSUME TypeOK, NEW w \in Workers, BundleSettle(w) PROVE TypeOK'
<1>. DEFINE mine == {active[t] : t \in work[w].slot} \ {0}
            waiters == {j \in mine : job[j].wait}
<1>1. /\ job \in [JobIds -> Job] /\ active \in [Tails -> 0..seq]
      /\ work[w] \in Work /\ inflight \in Int /\ refusals \in Nat
      /\ wpc \in [Workers -> WorkerPc] /\ bundling \in BOOLEAN
      /\ seq \in Nat
  BY DEF TypeOK
<1>2. /\ wpc' \in [Workers -> WorkerPc]
      /\ UNCHANGED <<pool, sweepRunning, buffered, seq, store, work, client>>
      /\ bundling' \in BOOLEAN /\ refusals' \in Nat
  <2>1. bundling' \in BOOLEAN
    BY DEF BundleSettle
  <2>2. refusals' \in Nat
    BY <1>1 DEF BundleSettle
  <2>. QED BY <1>1, <2>1, <2>2 DEF BundleSettle, WorkerPc
<1>3. /\ job' \in [JobIds -> Job] /\ active' \in [Tails -> 0..seq]
      /\ inflight' \in Int
  <2>1. CASE /\ inflight' = inflight - Cardinality(waiters)
             /\ job' = [j \in JobIds |-> IF j \in waiters THEN Delivered(j) ELSE job[j]]
             /\ active' = [t \in Tails |->
                             IF active[t] \in waiters THEN 0 ELSE active[t]]
    <3>1. job' \in [JobIds -> Job]
      BY <1>1, <2>1, DeliveredFields
    <3>2. active' \in [Tails -> 0..seq]
      <4>1. 0 \in 0..seq
        BY <1>1
      <4>. QED BY <1>1, <2>1, <4>1
    <3>3. waiters \subseteq 1..seq
      <4>1. \A t \in work[w].slot : active[t] \in 0..seq
        BY <1>1, WorkFields
      <4>. QED BY <1>1, <4>1
    <3>4. IsFiniteSet(1..seq)
      BY <1>1, FS_Interval
    <3>5. IsFiniteSet(waiters)
      BY <3>3, <3>4, FS_Subset
    <3>6. Cardinality(waiters) \in Nat
      BY <3>5, FS_CardinalityType
    <3>. QED BY <1>1, <2>1, <3>1, <3>2, <3>6
  <2>2. CASE /\ job' = [j \in JobIds |-> IF j \in mine THEN Requeue(j) ELSE job[j]]
             /\ UNCHANGED <<inflight, active>>
    BY <1>1, <2>2, RequeueFields
  <2>. QED BY <2>1, <2>2 DEF BundleSettle
<1>. QED BY <1>2, <1>3 DEF TypeOK, pool, client, JobIds

LEMMA TypeComplete ==
    ASSUME TypeOK, Hands, NEW w \in Workers, Complete(w) PROVE TypeOK'
<1>. DEFINE j == work[w].job
<1>1. /\ job \in [JobIds -> Job] /\ active \in [Tails -> 0..seq]
      /\ work \in [Workers -> Work] /\ wpc \in [Workers -> WorkerPc]
      /\ inflight \in Int /\ buffered \in Int /\ sweepRunning \in Int
      /\ work[w].ok \in BOOLEAN /\ seq \in 0..MaxJobs
  BY WorkFields DEF TypeOK
<1>2. j \in JobIds /\ job[j] \in Job /\ job[j].tail \in Tails
  BY <1>1 DEF Hands, Busy, Live, Complete, Job
<1>3. inflight' \in Int /\ sweepRunning' \in Int
  BY <1>1 DEF Complete, Answer, FreeLane
<1>4. buffered' \in Int
  BY <1>1, <1>2, SizeType DEF Complete, FreeBudget
<1>5. job' \in [JobIds -> Job] /\ active' \in [Tails -> 0..seq]
  <2>1. CASE job' = [job EXCEPT ![j] = Released(j)] /\ UNCHANGED active
    BY <1>1, <1>2, <2>1, ReleasedFields
  <2>2. CASE /\ job' = [job EXCEPT ![j] = Finished(j, work[w].ok)]
             /\ active' = [active EXCEPT ![job[j].tail] = 0]
    <3>1. Finished(j, work[w].ok) \in Job /\ 0 \in 0..seq
      BY <1>1, <1>2, FinishedFields
    <3>. QED BY <1>1, <1>2, <2>2, <3>1
  <2>. QED BY <2>1, <2>2 DEF Complete
<1>6. work' \in [Workers -> Work] /\ wpc' \in [Workers -> WorkerPc]
  <2>1. NoWork \in Work
    BY NoWorkFields
  <2>2. work' = [work EXCEPT ![w] = NoWork] /\ wpc' = [wpc EXCEPT ![w] = "idle"]
    BY DEF Complete
  <2>. QED BY <1>1, <2>1, <2>2 DEF WorkerPc
<1>. QED BY <1>3, <1>4, <1>5, <1>6
         DEF TypeOK, Complete, pool, bundle, client, JobIds

\* What a client step leaves alone.
LEMMA TypeClientStep ==
    ASSUME TypeOK, NEW c \in Clients, NEW pc \in ClientPc, NEW r \in Call,
           ClientStep(c, pc), call' = [call EXCEPT ![c] = r],
           UNCHANGED <<inflight, queue>>
    PROVE  TypeOK'
<1>1. cpc' \in [Clients -> ClientPc] /\ call' \in [Clients -> Call]
  BY DEF TypeOK, ClientStep
<1>. QED BY <1>1 DEF TypeOK, ClientStep, pool, bundle, queue, worker, JobIds

LEMMA CallFields ==
    ASSUME NEW k \in Kinds, NEW S \in SUBSET Tails, NEW p \in Prios
    PROVE  /\ NoCall \in Call
           /\ [NoCall EXCEPT !.kind = k, !.tails = S] \in Call
           /\ [NoCall EXCEPT !.kind = k, !.tails = S, !.prio = p] \in Call
           /\ \A J \in SUBSET (1..MaxJobs) :
                 [NoCall EXCEPT !.kind = k, !.tails = S, !.prio = p, !.jobs = J] \in Call
<1>1. NoCall \in Call
  BY DEF NoCall, Call, Kinds, Prios, Demand, Sweep
<1>2. \A r \in Call :
        /\ [r EXCEPT !.kind = k, !.tails = S] \in Call
        /\ [r EXCEPT !.prio = p] \in Call
        /\ \A J \in SUBSET (1..MaxJobs) : [r EXCEPT !.jobs = J] \in Call
  BY DEF Call
<1>. QED BY <1>1, <1>2

\* Enqueue keeps the queue's types, and names a job for every tail asked for.
LEMMA EnqueueType ==
    ASSUME TypeOK, NEW S \in SUBSET Tails, NEW prio \in Prios, Enqueue(S, prio)
    PROVE  /\ seq' \in 0..MaxJobs /\ seq <= seq'
           /\ job' \in [1..seq' -> Job]
           /\ active' \in [Tails -> 0..seq']
           /\ \A t \in S : active'[t] \in 1..MaxJobs
           /\ inflight' \in Int
<1>. DEFINE fresh    == Fresh(S)
            last     == seq + Cardinality(fresh)
            new      == (seq + 1)..last
            joined   == {active[t] : t \in S \ fresh}
            promoted == {j \in joined : job[j].copy = "queued" /\ prio < job[j].prio}
<1>1. /\ job \in [JobIds -> Job] /\ active \in [Tails -> 0..seq]
      /\ seq \in Nat /\ inflight \in Int
  BY DEF TypeOK
<1>2. Cardinality(fresh) \in Nat
  <2>1. fresh \subseteq Tails
    BY DEF Fresh
  <2>. QED BY <2>1, EngineAssumption, FS_Subset, FS_CardinalityType
<1>3. last \in Nat /\ seq <= last
  BY <1>1, <1>2
<1>4. seq' = last /\ last <= MaxJobs
  BY DEF Enqueue
<1>5. PICK tail \in [new -> fresh] :
        /\ \A t \in fresh : \E j \in new : tail[j] = t
        /\ job' = [j \in 1..last |->
                     IF j \in new THEN NewJob(tail[j], prio)
                     ELSE IF j \in promoted THEN [job[j] EXCEPT !.prio = prio]
                     ELSE job[j]]
        /\ active' = [t \in Tails |-> IF t \in fresh
                                      THEN CHOOSE j \in new : tail[j] = t
                                      ELSE active[t]]
  BY DEF Enqueue
<1>6. job' \in [1..last -> Job]
  <2>. SUFFICES ASSUME NEW j \in 1..last PROVE job'[j] \in Job
    BY <1>5
  <2>1. CASE j \in new
    <3>1. tail[j] \in Tails
      BY <1>5, <2>1 DEF Fresh
    <3>2. NewJob(tail[j], prio) \in Job
      BY <3>1 DEF NewJob, Job
    <3>. QED BY <1>5, <2>1, <3>2
  <2>2. CASE j \notin new
    <3>1. job[j] \in Job
      BY <1>1, <1>2, <2>2 DEF JobIds
    <3>2. [job[j] EXCEPT !.prio = prio] \in Job
      BY <3>1 DEF Job
    <3>. QED BY <1>5, <2>2, <3>1, <3>2
  <2>. QED BY <2>1, <2>2
<1>7. \A t \in fresh : active'[t] \in new
  <2>. SUFFICES ASSUME NEW t \in fresh PROVE active'[t] \in new
    OBVIOUS
  <2>1. t \in Tails
    BY DEF Fresh
  <2>2. active'[t] = CHOOSE j \in new : tail[j] = t
    BY <1>5, <2>1
  <2>. QED BY <1>5, <2>2
<1>8. \A t \in Tails \ fresh : active'[t] = active[t]
  BY <1>5
<1>9. active' \in [Tails -> 0..last]
  <2>. SUFFICES ASSUME NEW t \in Tails PROVE active'[t] \in 0..last
    BY <1>5
  <2>1. CASE t \in fresh
    BY <1>1, <1>2, <1>7, <2>1
  <2>2. CASE t \notin fresh
    BY <1>1, <1>3, <1>8, <2>2
  <2>. QED BY <2>1, <2>2
<1>10. \A t \in S : active'[t] \in 1..last
  <2>. SUFFICES ASSUME NEW t \in S PROVE active'[t] \in 1..last
    OBVIOUS
  <2>1. CASE t \in fresh
    BY <1>1, <1>2, <1>7, <2>1
  <2>2. CASE t \notin fresh
    BY <1>1, <1>3, <1>8, <2>2 DEF Fresh
  <2>. QED BY <2>1, <2>2
<1>11. inflight' \in Int
  <2>1. inflight' = inflight + Cardinality(fresh)
    BY DEF Enqueue
  <2>. QED BY <1>1, <1>2, <2>1
<1>12. last \in 0..MaxJobs /\ \A t \in S : active'[t] \in 1..MaxJobs
  <2>1. last \in 0..MaxJobs
    BY <1>3, <1>4, Bounds
  <2>2. \A x \in 1..last : x \in 1..MaxJobs
    BY <1>3, <1>4, Bounds
  <2>. QED BY <1>10, <2>1, <2>2
<1>. QED BY <1>3, <1>4, <1>6, <1>9, <1>11, <1>12

\* A call that enqueues.
LEMMA TypeEnqueue ==
    ASSUME TypeOK, NEW c \in Clients, NEW pc \in ClientPc, ClientStep(c, pc),
           NEW S \in SUBSET Tails, NEW prio \in Prios, Enqueue(S, prio),
           NEW r \in Call, call' = [call EXCEPT ![c] = r]
    PROVE  TypeOK'
<1>1. cpc' \in [Clients -> ClientPc] /\ call' \in [Clients -> Call]
  BY DEF TypeOK, ClientStep
<1>2. /\ seq' \in 0..MaxJobs /\ job' \in [1..seq' -> Job]
      /\ active' \in [Tails -> 0..seq'] /\ inflight' \in Int
  BY EnqueueType
<1>. QED BY <1>1, <1>2 DEF TypeOK, ClientStep, pool, bundle, worker, JobIds

LEMMA RequestFields ==
    ASSUME NEW r \in Requests
    PROVE  r.kind \in Kinds /\ r.tails \in SUBSET Tails /\ r.prio \in Prios
  BY EngineAssumption DEF Request

LEMMA TypeClient ==
    ASSUME TypeOK, NEW c \in Clients, Client(c) PROVE TypeOK'
<1>1. /\ call \in [Clients -> Call] /\ call[c] \in Call
      /\ store \in [Tails -> File] /\ seq \in Nat
  BY DEF TypeOK
<1>2. /\ call[c].kind \in Kinds /\ call[c].tails \in SUBSET Tails
      /\ call[c].prio \in Prios
  BY <1>1 DEF Call
<1>3. \A S \in SUBSET Tails : Missing(S) \in SUBSET Tails
  BY DEF Missing
<1>4. "batch" \in Kinds /\ Demand \in Prios
  BY DEF Kinds, Prios, Demand, Sweep
<1>5. {"idle", "checked", "waiting", "ok", "fail"} = ClientPc
  BY DEF ClientPc
<1>6. CASE Check(c)
  <2>1. PICK r \in Requests :
          /\ call' = [call EXCEPT ![c] = [NoCall EXCEPT !.kind = r.kind,
                                            !.tails = r.tails, !.prio = r.prio]]
          /\ ClientStep(c, IF Missing(r.tails) = {} THEN "ok" ELSE "checked")
    BY <1>6 DEF Check
  <2>2. [NoCall EXCEPT !.kind = r.kind, !.tails = r.tails, !.prio = r.prio] \in Call
    BY RequestFields, CallFields
  <2>3. UNCHANGED <<inflight, queue>>
    BY <1>6 DEF Check
  <2>. QED BY <1>5, <2>1, <2>2, <2>3, TypeClientStep
<1>7. CASE Submit(c)
  <2>1. CASE ClientStep(c, "fail") /\ UNCHANGED <<inflight, queue, call>>
    <3>1. call' = [call EXCEPT ![c] = call[c]]
      BY <1>1, <2>1
    <3>. QED BY <1>1, <1>5, <2>1, <3>1, TypeClientStep
  <2>2. CASE /\ Enqueue(call[c].tails, call[c].prio)
             /\ call' = [call EXCEPT ![c].jobs = {active'[t] : t \in call[c].tails}]
             /\ ClientStep(c, IF call[c].kind = "queue" THEN "ok" ELSE "waiting")
    <3>. DEFINE jobs == {active'[t] : t \in call[c].tails}
    <3>1. \A t \in call[c].tails : active'[t] \in 1..MaxJobs
      BY <1>2, <2>2, EnqueueType
    <3>2. jobs \in SUBSET (1..MaxJobs)
      BY <3>1
    <3>. HIDE DEF jobs
    <3>3. [call[c] EXCEPT !.jobs = jobs] \in Call
      BY <1>1, <3>2 DEF Call
    <3>4. call' = [call EXCEPT ![c] = [call[c] EXCEPT !.jobs = jobs]]
      BY <2>2 DEF jobs
    <3>5. PICK pc \in ClientPc : ClientStep(c, pc)
      BY <1>5, <2>2
    <3>. QED BY <1>2, <2>2, <3>3, <3>4, <3>5, TypeEnqueue
  <2>. QED BY <1>7, <2>1, <2>2 DEF Submit
<1>8. CASE Batch(c)
  <2>1. PICK r \in Requests : Batch(c)!2!(r)
    BY <1>8 DEF Batch
  <2>2. r.tails \in SUBSET Tails /\ r.prio \in Prios
    BY RequestFields
  <2>3. CASE /\ call' = [call EXCEPT ![c] = [NoCall EXCEPT !.kind = "batch",
                                                           !.tails = r.tails]]
             /\ ClientStep(c, "fail")
             /\ UNCHANGED <<inflight, queue>>
    <3>1. [NoCall EXCEPT !.kind = "batch", !.tails = r.tails] \in Call
      BY <1>4, <2>2, CallFields
    <3>. QED BY <1>5, <2>3, <3>1, TypeClientStep
  <2>4. CASE /\ Enqueue(Missing(r.tails), r.prio)
             /\ call' = [call EXCEPT ![c] =
                          [NoCall EXCEPT
                             !.kind = "batch", !.tails = r.tails, !.prio = r.prio,
                             !.jobs = {active'[t] : t \in Missing(r.tails)}]]
             /\ ClientStep(c, IF Missing(r.tails) = {} THEN "ok" ELSE "waiting")
    <3>. DEFINE jobs == {active'[t] : t \in Missing(r.tails)}
    <3>1. \A t \in Missing(r.tails) : active'[t] \in 1..MaxJobs
      BY <1>3, <2>2, <2>4, EnqueueType
    <3>2. jobs \in SUBSET (1..MaxJobs)
      BY <3>1
    <3>. HIDE DEF jobs
    <3>3. [NoCall EXCEPT !.kind = "batch", !.tails = r.tails, !.prio = r.prio,
                         !.jobs = jobs] \in Call
      BY <1>4, <2>2, <3>2, CallFields
    <3>4. call' = [call EXCEPT ![c] = [NoCall EXCEPT
                         !.kind = "batch", !.tails = r.tails, !.prio = r.prio,
                         !.jobs = jobs]]
      BY <2>4 DEF jobs
    <3>5. PICK pc \in ClientPc : ClientStep(c, pc)
      BY <1>5, <2>4
    <3>. QED BY <1>3, <2>2, <2>4, <3>3, <3>4, <3>5, TypeEnqueue
  <2>. QED BY <2>1, <2>3, <2>4
<1>9. ASSUME NEW pc \in ClientPc, Told(c, pc) PROVE TypeOK'
  <2>1. [NoCall EXCEPT !.kind = call[c].kind, !.tails = call[c].tails] \in Call
    BY <1>2, <1>4, CallFields
  <2>. QED BY <1>9, <2>1, TypeClientStep DEF Told
<1>10. CASE Wake(c)
  <2>1. \E pc \in ClientPc : Told(c, pc)
    BY <1>5, <1>10 DEF Wake
  <2>. QED BY <1>9, <2>1
<1>11. CASE Timeout(c)
  BY <1>5, <1>9, <1>11 DEF Timeout
<1>12. CASE BatchPoll(c)
  <2>. DEFINE seen == {j \in call[c].jobs : Settled(j)}
  <2>1. seen \in SUBSET (1..MaxJobs)
    BY <1>1 DEF Call
  <2>2. call' = [call EXCEPT ![c].seen = seen] /\ UNCHANGED <<inflight, queue>>
    BY <1>12 DEF BatchPoll
  <2>3. \E pc \in ClientPc : ClientStep(c, pc)
    BY <1>5, <1>12 DEF BatchPoll, BatchResult
  <2>. HIDE DEF seen
  <2>4. [call[c] EXCEPT !.seen = seen] \in Call
    BY <1>1, <2>1 DEF Call
  <2>5. call' = [call EXCEPT ![c] = [call[c] EXCEPT !.seen = seen]]
    BY <2>2
  <2>. QED BY <2>2, <2>3, <2>4, <2>5, TypeClientStep
<1>13. CASE BatchStop(c)
  <2>1. \E pc \in ClientPc : Told(c, pc)
    BY <1>5, <1>13 DEF BatchStop, BatchResult
  <2>. QED BY <1>9, <2>1
<1>14. CASE Return(c)
  <2>1. NoCall \in Call
    BY <1>2, CallFields
  <2>. QED BY <1>5, <1>14, <2>1, TypeClientStep DEF Return
<1>. QED BY <1>6, <1>7, <1>8, <1>10, <1>11, <1>12, <1>13, <1>14 DEF Client

LEMMA TypePool ==
    ASSUME TypeOK, Start \/ SetIngame \/ StopSignal \/ StopJoin \/ SetBundle
    PROVE  TypeOK'
<1>1. CapFor(NumWorkers) \in 0..NumWorkers /\ CapFor(CapFor(NumWorkers)) \in Nat
  BY Bounds DEF CapFor
<1>2. CASE Start
  <2>1. wpc' \in [Workers -> WorkerPc]
    BY <1>2 DEF Start, WorkerPc
  <2>2. starts' \in 0..MaxStarts
    BY <1>2, Bounds DEF Start, TypeOK
  <2>3. target' \in 0..NumWorkers /\ sweepCap' \in Nat
    BY <1>1, <1>2, Bounds DEF Start
  <2>4. running' \in BOOLEAN /\ stop' \in BOOLEAN /\ sweepRunning' \in Int
    <3>1. running' \in BOOLEAN /\ stop' \in BOOLEAN
      BY <1>2, Zenon DEF Start
    <3>2. sweepRunning' = 0
      BY <1>2 DEF Start
    <3>. QED BY <3>1, <3>2
  <2>5. UNCHANGED <<buffered, inflight, bundle, queue, store, work, client>>
    BY <1>2 DEF Start
  <2>. QED BY <2>1, <2>2, <2>3, <2>4, <2>5 DEF TypeOK, bundle, queue, client, JobIds
<1>3. CASE SetIngame
  BY <1>1, <1>3 DEF TypeOK, SetIngame, counters, bundle, queue, worker, client, JobIds
<1>4. CASE StopSignal
  BY <1>4 DEF TypeOK, StopSignal, counters, bundle, queue, worker, client, JobIds
<1>5. CASE StopJoin
  <2>1. job' \in [JobIds -> Job]
    <3>1. \A j \in JobIds : [job[j] EXCEPT !.copy = "none"] \in Job
      BY DEF TypeOK, Job
    <3>. QED BY <1>5, <3>1 DEF StopJoin
  <2>2. active' \in [Tails -> 0..seq]
    <3>1. 0 \in 0..seq
      BY Bounds DEF TypeOK
    <3>. QED BY <1>5, <3>1 DEF StopJoin
  <2>. QED BY <1>5, <2>1, <2>2 DEF TypeOK, StopJoin, counters, bundle, worker, client, JobIds
<1>6. CASE SetBundle
  BY <1>6 DEF TypeOK, SetBundle, pool, counters, queue, worker, client, JobIds
<1>. QED BY <1>2, <1>3, <1>4, <1>5, <1>6

LEMMA TypeInit == Init => TypeOK
<1>. SUFFICES ASSUME Init PROVE TypeOK
  OBVIOUS
<1>1. job \in [JobIds -> Job]
  <2>1. JobIds = {}
    BY DEF Init, JobIds
  <2>. QED BY <2>1 DEF Init
<1>2. NoWork \in Work
  BY NoWorkFields
<1>3. NoCall \in Call
  BY DEF NoCall, Call, Kinds, Prios, Demand, Sweep
<1>4. /\ store \in [Tails -> File] /\ wpc \in [Workers -> WorkerPc]
      /\ cpc \in [Clients -> ClientPc]
  BY DEF Init, File, WorkerPc, ClientPc
<1>5. /\ starts \in 0..MaxStarts /\ target \in 0..NumWorkers /\ seq \in 0..MaxJobs
      /\ active \in [Tails -> 0..seq]
  BY Bounds DEF Init
<1>6. running \in BOOLEAN /\ stop \in BOOLEAN /\ bundling \in BOOLEAN
  BY Zenon DEF Init
<1>7. /\ work \in [Workers -> Work] /\ call \in [Clients -> Call]
      /\ sweepCap \in Nat /\ refusals \in Nat
      /\ sweepRunning \in Int /\ buffered \in Int /\ inflight \in Int
  BY <1>2, <1>3 DEF Init
<1>. QED BY <1>1, <1>4, <1>5, <1>6, <1>7 DEF TypeOK

\* Every step keeps the types; what a worker has in hand is a job it may index.
LEMMA TypeStep == TypeOK /\ Hands /\ ActiveMatchesQueue /\ [Next]_vars => TypeOK'
<1>. SUFFICES ASSUME TypeOK, Hands, ActiveMatchesQueue, [Next]_vars PROVE TypeOK'
  OBVIOUS
<1>1. ASSUME NEW w \in Workers, Worker(w) PROVE TypeOK'
  BY <1>1, TypeTakeBundle, TypeTakeJob, TypeExit, TypeTransfer, TypeBundleSettle,
     TypeComplete DEF Worker
<1>2. ASSUME NEW c \in Clients, Client(c) PROVE TypeOK'
  BY <1>2, TypeClient
<1>3. CASE UNCHANGED vars
  BY <1>3 DEF TypeOK, vars, pool, counters, bundle, queue, worker, client, JobIds
<1>. QED BY <1>1, <1>2, <1>3, TypePool DEF Next

-----------------------------------------------------------------------------
(***************************************************************************)
(* Steps that leave the queue and the workers' hands alone.                *)
(***************************************************************************)
LEMMA QFrame ==
    ASSUME QInv, UNCHANGED <<running, queue, worker>> PROVE QInv'
<1>. USE DEF queue, worker
<1>1. ActiveMatchesQueue' /\ SettledGone' /\ WaitRuns'
  BY DEF QInv, ActiveMatchesQueue, SettledGone, WaitRuns, Settled, Live, JobIds
<1>2. Hands' /\ Holding' /\ Sharing'
  BY DEF QInv, Hands, Holding, Sharing, RiderDone, Live, JobIds
<1>3. Requeued' /\ Owned'
  BY DEF QInv, Requeued, Owned, RiderDone, JobIds
<1>4. Slots' /\ SlotsApart'
  BY DEF QInv, Slots, SlotsApart, JobIds
<1>. QED BY <1>1, <1>2, <1>3, <1>4 DEF QInv

\* A transfer goes on: its worker keeps its job and its slot, and a bundle's
\* rider does not complete before it has settled.
LEMMA QTransferred ==
    ASSUME TypeOK, QInv, NEW w \in Workers, NEW pc, Transferred(w, pc),
           NEW r, work' = [work EXCEPT ![w] = r],
           wpc[w] \in Transferring,
           r.job = work[w].job, r.slot = work[w].slot,
           \/ pc \in Transferring
           \/ pc = "complete" /\ r.slot = {},
           pc \in {"ride", "settle"} => r.slot # {},
           pc = "http" => r.slot = {} /\ r.tries < Retries,
           r.ok => pc \in {"settle", "complete"}
    PROVE  QInv'
<1>1. /\ UNCHANGED <<running, seq, job, active>>
      /\ JobIds' = JobIds
      /\ wpc'[w] = pc /\ work'[w] = r
      /\ \A v \in Workers \ {w} : wpc'[v] = wpc[v] /\ work'[v] = work[v]
  BY DEF Transferred, pool, queue, TypeOK, JobIds
<1>2. \A v \in Workers : /\ work'[v].job = work[v].job
                         /\ work'[v].slot = work[v].slot
                         /\ RiderDone(v)' <=> RiderDone(v)
                         /\ wpc'[v] \in Transferring => wpc[v] \in Transferring
                         /\ wpc[v] \in Transferring /\ work[v].slot # {}
                               => wpc'[v] \in Transferring
  BY <1>1 DEF RiderDone, Transferring
<1>3. ActiveMatchesQueue' /\ SettledGone' /\ WaitRuns'
  BY <1>1 DEF QInv, ActiveMatchesQueue, SettledGone, WaitRuns, Settled, Live
<1>4. Hands'
  <2>1. \A v \in Workers \ {w} : Hands!(v)'
    BY <1>1 DEF QInv, Hands, Live
  <2>2. Hands!(w)'
    BY <1>1 DEF QInv, Hands, Live, Busy, Transferring
  <2>. QED BY <2>1, <2>2 DEF Hands
<1>5. Holding' /\ Sharing'
  BY <1>1, <1>2 DEF QInv, Holding, Sharing
<1>6. Requeued'
  <2>1. ~RiderDone(w)
    BY DEF RiderDone, Transferring
  <2>2. \A v \in Workers : RiderDone(v) => work'[v].ok = work[v].ok
    BY <1>1, <2>1
  <2>. QED BY <1>1, <1>2, <2>2 DEF QInv, Requeued
<1>7. Owned'
  BY <1>1, <1>2 DEF QInv, Owned
<1>8. Slots'
  BY <1>1, <1>2 DEF QInv, Slots
<1>9. SlotsApart'
  BY <1>1, <1>2 DEF QInv, SlotsApart
<1>. QED BY <1>3, <1>4, <1>5, <1>6, <1>7, <1>8, <1>9 DEF QInv

(***************************************************************************)
(* Steps of the pool.                                                      *)
(***************************************************************************)
LEMMA QExit == ASSUME TypeOK, QInv, NEW w \in Workers, Exit(w) PROVE QInv'
<1>1. /\ UNCHANGED <<running, seq, job, active, work>>
      /\ JobIds' = JobIds
      /\ wpc[w] = "idle" /\ wpc'[w] = "off"
      /\ \A v \in Workers \ {w} : wpc'[v] = wpc[v]
  BY DEF Exit, pool, queue, TypeOK, JobIds
<1>2. work[w].job = 0
  BY <1>1 DEF QInv, Hands, Busy, Transferring
<1>3. \A v \in Workers : /\ RiderDone(v)' <=> RiderDone(v)
                         /\ wpc'[v] \in Transferring <=> wpc[v] \in Transferring
  BY <1>1 DEF RiderDone, Transferring
<1>4. ActiveMatchesQueue' /\ SettledGone' /\ WaitRuns'
  BY <1>1 DEF QInv, ActiveMatchesQueue, SettledGone, WaitRuns, Settled, Live
<1>5. Hands'
  BY <1>1 DEF QInv, Hands, Live, Busy, Transferring
<1>6. Holding' /\ Sharing'
  BY <1>1, <1>3 DEF QInv, Holding, Sharing
<1>7. Requeued' /\ Owned'
  BY <1>1, <1>3 DEF QInv, Requeued, Owned
<1>8. Slots' /\ SlotsApart'
  BY <1>1, <1>3 DEF QInv, Slots, SlotsApart
<1>. QED BY <1>4, <1>5, <1>6, <1>7, <1>8 DEF QInv

\* While no thread exists nothing is in hand.
LEMMA NothingHeld ==
    ASSUME Hands, \A w \in Workers : wpc[w] = "off"
    PROVE  \A w \in Workers : work[w].job = 0
  BY DEF Hands, Busy, Transferring

LEMMA QStart == ASSUME TypeOK, QInv, Start PROVE QInv'
<1>1. /\ UNCHANGED <<seq, job, active, work>> /\ JobIds' = JobIds
      /\ ~running /\ running' = TRUE
      /\ \A v \in Workers : wpc'[v] = "idle"
  BY DEF Start, queue, JobIds
<1>2. \A v \in Workers : wpc[v] = "off" /\ work[v].job = 0
  BY <1>1, NothingHeld DEF QInv, Hands
<1>3. \A v \in Workers : /\ ~RiderDone(v)
                         /\ wpc'[v] \notin Transferring
                         /\ wpc[v] \notin Transferring
  BY <1>1, <1>2 DEF RiderDone, Transferring
<1>4. ActiveMatchesQueue' /\ SettledGone' /\ WaitRuns'
  BY <1>1 DEF QInv, ActiveMatchesQueue, SettledGone, WaitRuns, Settled, Live
<1>5. Hands'
  <2>1. \A v \in Workers : work[v].ok = FALSE
    BY <1>2 DEF QInv, Hands, TypeOK, Work
  <2>. QED BY <1>1, <1>2, <2>1 DEF Hands, Busy, Transferring
<1>6. Holding' /\ Sharing'
  BY <1>1, <1>2 DEF Holding, Sharing
<1>7. Requeued' /\ Owned'
  BY <1>1, <1>3 DEF QInv, Requeued, Owned
<1>8. Slots' /\ SlotsApart'
  BY <1>1, <1>3 DEF Slots, SlotsApart
<1>. QED BY <1>4, <1>5, <1>6, <1>7, <1>8 DEF QInv

LEMMA QStopJoin == ASSUME TypeOK, QInv, StopJoin PROVE QInv'
<1>1. /\ UNCHANGED <<seq, work, wpc>> /\ JobIds' = JobIds
      /\ \A v \in Workers : wpc[v] = "off"
      /\ \A t \in Tails : active'[t] = 0
  BY DEF StopJoin, worker, JobIds
<1>2. \A j \in JobIds : /\ job'[j].copy = "none"
                        /\ job'[j].requeued = job[j].requeued
  BY DEF StopJoin, TypeOK, Job
<1>3. \A v \in Workers : work[v].job = 0
  BY <1>1, NothingHeld DEF QInv
<1>4. \A v \in Workers : ~RiderDone(v) /\ wpc[v] \notin Transferring
  BY <1>1 DEF RiderDone, Transferring
<1>5. ActiveMatchesQueue' /\ SettledGone' /\ WaitRuns'
  BY <1>1, <1>2 DEF ActiveMatchesQueue, SettledGone, WaitRuns, Live
<1>6. Hands'
  BY <1>1, <1>3 DEF QInv, Hands, Busy, Transferring
<1>7. Holding' /\ Sharing'
  BY <1>1, <1>3 DEF Holding, Sharing
<1>8. Requeued' /\ Owned'
  <2>1. Owned'
    BY <1>1, <1>2 DEF Owned
  <2>2. Requeued'
    BY <1>1, <1>2, <1>4 DEF QInv, Requeued
  <2>. QED BY <2>1, <2>2
<1>9. Slots' /\ SlotsApart'
  BY <1>1, <1>4 DEF Slots, SlotsApart
<1>. QED BY <1>5, <1>6, <1>7, <1>8, <1>9 DEF QInv

LEMMA HeldIds ==
    ASSUME QInv
    PROVE  /\ 0 \notin JobIds
           /\ \A w \in Workers : work[w].job # 0 => work[w].job \in JobIds
  BY DEF QInv, Hands, Live, JobIds

(***************************************************************************)
(* Steps that take a job.                                                  *)
(***************************************************************************)
LEMMA QTakeJob == ASSUME TypeOK, QInv, NEW w \in Workers, TakeJob(w) PROVE QInv'
<1>1. /\ 0 \notin JobIds
      /\ \A v \in Workers : work[v].job # 0 => work[v].job \in JobIds
  BY HeldIds
<1>2. PICK j \in JobIds : Best(j) /\ TakeJob(w)!2!(j)
  BY DEF TakeJob
<1>3. /\ job \in [JobIds -> Job] /\ job[j].copy = "queued" /\ j # 0
      /\ job[j].tail \in Tails
  BY <1>2 DEF TypeOK, Best, Runnable, JobIds, Job
<1>4. active[job[j].tail] = j
  BY <1>3 DEF QInv, ActiveMatchesQueue, Live
<1>5. /\ UNCHANGED <<running, seq, active>> /\ JobIds' = JobIds
      /\ wpc[w] = "idle" /\ wpc'[w] = "http" /\ work'[w] = InHand(j, {})
      /\ \A v \in Workers \ {w} : wpc'[v] = wpc[v] /\ work'[v] = work[v]
      /\ running
  BY <1>2, <1>4 DEF TakeJob, MayTake, pool, TypeOK, JobIds, QInv, Hands
<1>6. /\ \A i \in JobIds \ {j} : job'[i] = job[i]
      /\ job'[j].copy = "running"
      /\ job'[j].tail = job[j].tail /\ job'[j].state = job[j].state
      /\ job'[j].wait = job[j].wait /\ job'[j].spent = job[j].spent
      /\ job'[j].requeued = job[j].requeued
  BY <1>2, <1>3 DEF Job
<1>7. /\ work'[w].job = j /\ work'[w].slot = {} /\ work'[w].ok = FALSE
      /\ work'[w].tries = 0
  BY <1>5 DEF InHand
<1>8. /\ work[w].job = 0 /\ wpc[w] \notin Transferring /\ ~RiderDone(w) /\ ~RiderDone(w)'
      /\ \A v \in Workers \ {w} : /\ RiderDone(v)' <=> RiderDone(v)
                                  /\ wpc'[v] \in Transferring <=> wpc[v] \in Transferring
  BY <1>5 DEF QInv, Hands, Busy, Transferring, RiderDone
<1>9. ~job[j].wait
  BY <1>3 DEF QInv, WaitRuns
<1>10. ActiveMatchesQueue'
  BY <1>3, <1>5, <1>6 DEF QInv, ActiveMatchesQueue, Live
<1>11. SettledGone'
  BY <1>3, <1>5, <1>6 DEF QInv, SettledGone, Settled
<1>12. WaitRuns'
  BY <1>5, <1>6 DEF QInv, WaitRuns
<1>13. Hands'
  <2>1. \A v \in Workers \ {w} : Hands!(v)'
    BY <1>5, <1>6 DEF QInv, Hands, Live
  <2>2. Hands!(w)'
    BY <1>3, <1>5, <1>6, <1>7, Bounds DEF Hands, Live, Busy, Transferring
  <2>. QED BY <2>1, <2>2 DEF Hands
<1>14. Holding'
  BY <1>3, <1>5, <1>6, <1>7, <1>8, <1>9, <1>1 DEF QInv, Holding
<1>15. Sharing'
  <2>1. \A v \in Workers \ {w} : work[v].job = j => RiderDone(v) /\ job[j].requeued
    BY <1>3 DEF QInv, Holding
  <2>2. \A v, u \in Workers \ {w} :
          v # u /\ work'[v].job # 0 /\ work'[v].job = work'[u].job =>
             /\ job'[work'[u].job].requeued
             /\ RiderDone(v)' <=> ~RiderDone(u)'
    BY <1>5, <1>6, <1>8 DEF QInv, Hands, Live, Sharing
  <2>. QED BY <1>5, <1>6, <1>7, <1>8, <2>1, <2>2 DEF Sharing
<1>16. Requeued'
  BY <1>5, <1>6, <1>7, <1>8, <1>1 DEF QInv, Requeued
<1>17. Owned'
  BY <1>5, <1>6, <1>7, <1>8, <1>1 DEF QInv, Owned
<1>18. Slots'
  BY <1>3, <1>5, <1>6, <1>7, <1>8 DEF QInv, Slots, Hands, Live, Busy
<1>19. SlotsApart'
  BY <1>5, <1>7, <1>8 DEF QInv, SlotsApart
<1>. QED BY <1>10, <1>11, <1>12, <1>13, <1>14, <1>15, <1>16, <1>17, <1>18, <1>19 DEF QInv

LEMMA QTakeBundle == ASSUME TypeOK, QInv, NEW w \in Workers, TakeBundle(w) PROVE QInv'
<1>. DEFINE slot == {job[j].tail : j \in Members}
<1>1. /\ 0 \notin JobIds
      /\ \A v \in Workers : work[v].job # 0 => work[v].job \in JobIds
  BY HeldIds
<1>2. PICK rider \in Members :
        /\ job' = [j \in JobIds |-> IF j \in Members THEN Folded(j, rider) ELSE job[j]]
        /\ work' = [work EXCEPT ![w] = InHand(rider, slot)]
  BY DEF TakeBundle
<1>3. /\ Members \subseteq JobIds
      /\ \A j \in Members : job[j].copy = "queued" /\ ~job[j].spent
      /\ \A j \in JobIds : job[j] \in Job
  BY DEF Members, Foldable, TypeOK
<1>4. /\ UNCHANGED <<running, seq, active>> /\ JobIds' = JobIds
      /\ wpc[w] = "idle" /\ wpc'[w] = "ride"
      /\ \A v \in Workers \ {w} : wpc'[v] = wpc[v] /\ work'[v] = work[v]
      /\ running
  BY <1>2 DEF TakeBundle, MayTake, pool, TypeOK, JobIds, QInv, Hands
<1>5. \A j \in JobIds \ Members : job'[j] = job[j]
  BY <1>2
<1>6. \A j \in Members : /\ job'[j].copy = "running"
                         /\ job'[j].state = "running"
                         /\ job'[j].wait <=> j # rider
                         /\ job'[j].tail = job[j].tail
                         /\ job'[j].spent = job[j].spent
                         /\ job'[j].requeued = job[j].requeued
  BY <1>2, <1>3, FoldedFields
<1>7. \A j \in JobIds : /\ job'[j].tail = job[j].tail
                        /\ job'[j].spent = job[j].spent
                        /\ job'[j].requeued = job[j].requeued
                        /\ job'[j].copy = "none" <=> job[j].copy = "none"
  BY <1>3, <1>5, <1>6
<1>8. work'[w].job = rider /\ work'[w].slot = slot /\ work'[w].ok = FALSE
  BY <1>2 DEF InHand, TypeOK
<1>9. /\ work[w].job = 0 /\ wpc[w] \notin Transferring
      /\ ~RiderDone(w) /\ ~RiderDone(w)'
      /\ \A v \in Workers \ {w} : /\ RiderDone(v)' <=> RiderDone(v)
                                  /\ wpc'[v] \in Transferring <=> wpc[v] \in Transferring
  BY <1>4 DEF QInv, Hands, Busy, Transferring, RiderDone
<1>10. \A j \in Members : active[job[j].tail] = j
  BY <1>3 DEF QInv, ActiveMatchesQueue, Live
<1>11. \A j \in Members : ~job[j].requeued
  \* a requeued job is spent
  BY <1>3 DEF QInv, Requeued
<1>12. \A v \in Workers : work[v].job \notin Members
  BY <1>1, <1>3, <1>11 DEF QInv, Holding
<1>13. ActiveMatchesQueue'
  BY <1>4, <1>7 DEF QInv, ActiveMatchesQueue, Live
<1>14. SettledGone'
  BY <1>4, <1>5, <1>6 DEF QInv, SettledGone, Settled
<1>15. WaitRuns'
  BY <1>4, <1>5, <1>6 DEF QInv, WaitRuns
<1>16. Hands'
  <2>1. \A v \in Workers \ {w} : Hands!(v)'
    BY <1>4, <1>7 DEF QInv, Hands, Live
  <2>2. slot # {}
    OBVIOUS
  <2>3. Hands!(w)'
    BY <1>1, <1>3, <1>4, <1>6, <1>8, <2>2 DEF Hands, Live, Busy, Transferring
  <2>. QED BY <2>1, <2>3 DEF Hands
<1>17. Holding'
  <2>1. \A v \in Workers \ {w} : work'[v].job # 0 => job'[work'[v].job] = job[work[v].job]
    BY <1>1, <1>4, <1>5, <1>12
  <2>. QED BY <1>4, <1>6, <1>8, <1>9, <2>1 DEF QInv, Holding
<1>18. Sharing'
  BY <1>1, <1>4, <1>5, <1>8, <1>9, <1>12 DEF QInv, Sharing
<1>19. Requeued'
  BY <1>1, <1>3, <1>4, <1>5, <1>6, <1>8, <1>9, <1>11 DEF QInv, Requeued
<1>20. Owned'
  <2>. SUFFICES ASSUME NEW j \in JobIds, job'[j].copy = "running" PROVE Owned!(j)'
    BY <1>4 DEF Owned
  <2>1. CASE j \in Members
    <3>1. job[j].tail \in slot
      BY <2>1
    <3>. QED BY <1>4, <1>6, <1>8, <2>1, <3>1 DEF Transferring
  <2>2. CASE j \notin Members
    BY <1>1, <1>4, <1>5, <1>9, <2>2 DEF QInv, Owned
  <2>. QED BY <2>1, <2>2
<1>21. Slots'
  <2>1. \A v \in Workers \ {w} : Slots!(v)'
    <3>. SUFFICES ASSUME NEW v \in Workers \ {w}, wpc[v] \in Transferring,
                         work[v].slot # {}
                  PROVE  Slots!(v)!2'
      BY <1>4, <1>9
    <3>1. work[v].job \in JobIds
      BY <1>1 DEF QInv, Hands, Busy
    <3>2. \A t \in work[v].slot : active[t] \in JobIds \ Members
      BY <1>3 DEF QInv, Slots
    <3>. QED BY <1>4, <1>5, <1>7, <3>1, <3>2 DEF QInv, Slots
  <2>2. Slots!(w)'
    <3>1. rider \in JobIds /\ job'[rider].tail \in slot
      BY <1>3, <1>7
    <3>2. \A t \in slot : active[t] \in Members
      BY <1>10
    <3>. QED BY <1>3, <1>4, <1>6, <1>8, <3>1, <3>2
  <2>. QED BY <2>1, <2>2 DEF Slots
<1>22. SlotsApart'
  <2>1. \A v \in Workers \ {w} : wpc[v] \in Transferring => work[v].slot \cap slot = {}
    <3>1. \A t \in slot : job[active[t]].copy = "queued"
      BY <1>3, <1>10
    <3>. QED BY <3>1 DEF QInv, Slots
  <2>. QED BY <1>4, <1>8, <1>9, <2>1 DEF QInv, SlotsApart
<1>. QED BY <1>13, <1>14, <1>15, <1>16, <1>17, <1>18, <1>19, <1>20, <1>21, <1>22 DEF QInv

(***************************************************************************)
(* A bundle's settle.                                                      *)
(***************************************************************************)
\* What every settle does, and what the riding worker knows of its members.
SettleShape(w, mine) ==
    /\ UNCHANGED <<running, seq, work>> /\ JobIds' = JobIds
    /\ wpc[w] = "settle" /\ wpc'[w] = "complete"
    /\ work[w].slot # {} /\ work[w].slot \subseteq Tails
    /\ \A v \in Workers \ {w} : /\ wpc'[v] = wpc[v]
                                /\ RiderDone(v)' <=> RiderDone(v)
    /\ ~RiderDone(w) /\ RiderDone(w)'
    /\ wpc[w] \in Transferring /\ wpc'[w] \notin Transferring
    /\ mine \subseteq JobIds
    /\ \A t \in work[w].slot : active[t] \in mine /\ job[active[t]].tail = t
    /\ \A j \in mine : /\ job[j].copy = "running" /\ ~job[j].spent
                       /\ ~job[j].requeued
                       /\ job[j].tail \in work[w].slot
                       /\ active[job[j].tail] = j
                       /\ job[j].wait <=> j # work[w].job
    /\ work[w].job \in mine
    /\ \A v \in Workers \ {w} : work[v].job \notin mine
    /\ \A v \in Workers \ {w} : wpc[v] \in Transferring =>
          \A t \in work[v].slot : active[t] \in JobIds \ mine

LEMMA SettleFacts ==
    ASSUME TypeOK, QInv, NEW w \in Workers, BundleSettle(w),
           NEW mine, mine = {active[t] : t \in work[w].slot} \ {0}
    PROVE  SettleShape(w, mine)
<1>1. /\ 0 \notin JobIds
      /\ \A v \in Workers : work[v].job # 0 => work[v].job \in JobIds
  BY HeldIds
<1>2. /\ UNCHANGED <<running, seq, work>> /\ JobIds' = JobIds
      /\ wpc[w] = "settle" /\ wpc'[w] = "complete"
      /\ \A v \in Workers \ {w} : wpc'[v] = wpc[v]
  BY DEF BundleSettle, pool, TypeOK, JobIds
<1>3. work[w].slot # {} /\ work[w].slot \subseteq Tails
  BY <1>2 DEF QInv, Hands, TypeOK, Work
<1>4. /\ wpc[w] \in Transferring /\ wpc'[w] \notin Transferring
      /\ ~RiderDone(w) /\ RiderDone(w)'
      /\ \A v \in Workers \ {w} : RiderDone(v)' <=> RiderDone(v)
  BY <1>2, <1>3 DEF Transferring, RiderDone
<1>5. \A t \in work[w].slot : /\ active[t] \in JobIds
                              /\ job[active[t]].copy = "running"
                              /\ ~job[active[t]].spent
                              /\ job[active[t]].wait <=> active[t] # work[w].job
                              /\ job[active[t]].tail = t
  BY <1>1, <1>3, <1>4 DEF QInv, Slots, ActiveMatchesQueue
<1>6. mine \subseteq JobIds /\ \A t \in work[w].slot : active[t] \in mine
  BY <1>1, <1>5
<1>7. \A j \in mine : /\ job[j].copy = "running" /\ ~job[j].spent
                      /\ ~job[j].requeued
                      /\ job[j].tail \in work[w].slot
                      /\ active[job[j].tail] = j
                      /\ job[j].wait <=> j # work[w].job
  BY <1>5, <1>6 DEF QInv, Requeued
<1>8. work[w].job \in mine
  <2>1. work[w].job \in Live
    BY <1>2 DEF QInv, Hands, Busy, Transferring
  <2>2. active[job[work[w].job].tail] = work[w].job
    BY <2>1 DEF QInv, ActiveMatchesQueue
  <2>3. job[work[w].job].tail \in work[w].slot
    BY <1>3, <1>4 DEF QInv, Slots
  <2>. QED BY <1>6, <2>2, <2>3
<1>9. ASSUME NEW v \in Workers \ {w} PROVE work[v].job \notin mine
  <2>. SUFFICES ASSUME work[v].job \in mine PROVE FALSE
    OBVIOUS
  <2>1. ~job[work[v].job].wait
    BY <1>1, <1>6 DEF QInv, Holding
  <2>2. work[v].job = work[w].job
    BY <1>7, <2>1
  <2>3. job[work[w].job].requeued
    BY <1>1, <1>6, <2>2 DEF QInv, Sharing
  <2>. QED BY <1>7, <1>8, <2>3
<1>10. ASSUME NEW v \in Workers \ {w}, wpc[v] \in Transferring, NEW t \in work[v].slot
      PROVE  active[t] \in JobIds \ mine
  <2>1. active[t] \in JobIds /\ job[active[t]].tail = t
    <3>1. t \in Tails
      BY DEF TypeOK, Work
    <3>2. active[t] \in JobIds
      BY <1>10 DEF QInv, Slots
    <3>. QED BY <1>1, <3>1, <3>2 DEF QInv, ActiveMatchesQueue
  <2>2. t \notin work[w].slot
    BY <1>4, <1>10 DEF QInv, SlotsApart
  <2>. QED BY <1>7, <2>1, <2>2
<1>. QED BY <1>2, <1>3, <1>4, <1>5, <1>6, <1>7, <1>8, <1>9, <1>10 DEF SettleShape

\* All arrived: the waiting members leave the queue.
LEMMA QSettleDone ==
    ASSUME TypeOK, QInv, NEW w \in Workers, BundleSettle(w), work[w].ok
    PROVE  QInv'
<1>. DEFINE mine == {active[t] : t \in work[w].slot} \ {0}
            waiters == {j \in mine : job[j].wait}
<1>1. /\ 0 \notin JobIds
      /\ \A v \in Workers : work[v].job # 0 => work[v].job \in JobIds
  BY HeldIds
<1>2. /\ job' = [j \in JobIds |-> IF j \in waiters THEN Delivered(j) ELSE job[j]]
      /\ active' = [t \in Tails |-> IF active[t] \in waiters THEN 0 ELSE active[t]]
  BY DEF BundleSettle
<1>3. mine = {active[t] : t \in work[w].slot} \ {0}
  OBVIOUS
<1>. HIDE DEF mine
<1>4. SettleShape(w, mine)
  BY <1>3, SettleFacts
<1>. USE DEF SettleShape
<1>5. waiters \subseteq mine /\ work[w].job \notin waiters
  BY <1>4
<1>. HIDE DEF waiters
<1>6. \A j \in JobIds : job[j] \in Job
  BY DEF TypeOK
<1>7. \A j \in JobIds \ waiters : job'[j] = job[j]
  BY <1>2
<1>8. \A j \in waiters : /\ job'[j].copy = "none"
                         /\ job'[j].state = "done"
                         /\ ~job'[j].wait
                         /\ job'[j].tail = job[j].tail
                         /\ ~job'[j].requeued
  BY <1>2, <1>4, <1>5, <1>6, DeliveredFields
<1>9. \A t \in Tails : active'[t] = IF active[t] \in waiters THEN 0 ELSE active[t]
  BY <1>2
<1>10. ActiveMatchesQueue'
  <2>1. ASSUME NEW t \in Tails, active'[t] # 0
        PROVE  active'[t] \in Live' /\ job'[active'[t]].tail = t
    BY <1>4, <1>7, <1>9, <2>1 DEF QInv, ActiveMatchesQueue, Live
  <2>2. ASSUME NEW j \in Live' PROVE active'[job'[j].tail] = j
    <3>1. j \in JobIds \ waiters /\ job'[j] = job[j] /\ job[j].tail \in Tails
      BY <1>4, <1>6, <1>7, <1>8 DEF Live, Job
    <3>2. active[job[j].tail] = j
      BY <3>1 DEF QInv, ActiveMatchesQueue, Live
    <3>. QED BY <1>9, <3>1, <3>2
  <2>. QED BY <2>1, <2>2 DEF ActiveMatchesQueue
<1>11. SettledGone' /\ WaitRuns'
  BY <1>4, <1>7, <1>8 DEF QInv, SettledGone, Settled, WaitRuns
<1>12. \A v \in Workers : work[v].job # 0 => work[v].job \in JobIds \ waiters
  BY <1>1, <1>4, <1>5
<1>13. Hands'
  <2>1. \A v \in Workers : work[v].job # 0 => work[v].job \in Live'
    BY <1>4, <1>7, <1>12 DEF QInv, Hands, Live
  <2>. QED BY <1>4, <2>1 DEF QInv, Hands, Busy, Transferring
<1>14. Holding'
  BY <1>4, <1>7, <1>12 DEF QInv, Holding
<1>15. Sharing'
  BY <1>1, <1>4, <1>7, <1>12 DEF QInv, Sharing
<1>16. Requeued'
  <2>. SUFFICES ASSUME NEW j \in JobIds, job'[j].requeued PROVE Requeued!(j)!2'
    BY <1>4 DEF Requeued
  <2>1. j \notin mine /\ job'[j] = job[j]
    BY <1>4, <1>5, <1>7, <1>8
  <2>. QED BY <1>4, <2>1 DEF QInv, Requeued
<1>17. Owned'
  <2>. SUFFICES ASSUME NEW j \in JobIds, job'[j].copy = "running" PROVE Owned!(j)!2'
    BY <1>4 DEF Owned
  <2>1. j \notin waiters /\ job'[j] = job[j]
    BY <1>7, <1>8
  <2>2. CASE \E v \in Workers : work[v].job = j
    BY <1>4, <2>1, <2>2
  <2>3. CASE /\ job[j].wait
             /\ \E v \in Workers : /\ wpc[v] \in Transferring
                                   /\ job[j].tail \in work[v].slot
    <3>1. j \in Live /\ active[job[j].tail] = j
      BY <2>1 DEF QInv, ActiveMatchesQueue, Live
    <3>2. job[j].tail \notin work[w].slot
      <4>1. SUFFICES ASSUME job[j].tail \in work[w].slot PROVE FALSE
        OBVIOUS
      <4>2. j \in mine
        BY <1>1, <3>1, <4>1 DEF mine
      <4>. QED BY <2>1, <2>3, <4>2 DEF waiters
    <3>. QED BY <1>4, <2>1, <2>3, <3>2
  <2>. QED BY <2>1, <2>2, <2>3 DEF QInv, Owned
<1>18. Slots'
  <2>. SUFFICES ASSUME NEW v \in Workers \ {w}, wpc[v] \in Transferring,
                       work[v].slot # {}
                PROVE  Slots!(v)!2'
    BY <1>4 DEF Slots
  <2>1. work[v].job \in JobIds /\ job'[work[v].job] = job[work[v].job]
    BY <1>1, <1>7, <1>12 DEF QInv, Hands, Busy
  <2>2. \A t \in work[v].slot : /\ active'[t] = active[t]
                                /\ job'[active[t]] = job[active[t]]
    <3>1. work[v].slot \subseteq Tails
      BY DEF TypeOK, Work
    <3>. QED BY <1>4, <1>5, <1>7, <1>9, <3>1
  <2>. QED BY <1>4, <2>1, <2>2 DEF QInv, Slots
<1>19. SlotsApart'
  BY <1>4 DEF QInv, SlotsApart
<1>. QED BY <1>10, <1>11, <1>13, <1>14, <1>15, <1>16, <1>17, <1>18, <1>19 DEF QInv

\* The bundle failed: every member goes back to the queue.
LEMMA QSettleFailed ==
    ASSUME TypeOK, QInv, NEW w \in Workers, BundleSettle(w), ~work[w].ok
    PROVE  QInv'
<1>. DEFINE mine == {active[t] : t \in work[w].slot} \ {0}
<1>1. /\ 0 \notin JobIds
      /\ \A v \in Workers : work[v].job # 0 => work[v].job \in JobIds
  BY HeldIds
<1>2. /\ job' = [j \in JobIds |-> IF j \in mine THEN Requeue(j) ELSE job[j]]
      /\ active' = active
  BY DEF BundleSettle
<1>3. mine = {active[t] : t \in work[w].slot} \ {0}
  OBVIOUS
<1>. HIDE DEF mine
<1>4. SettleShape(w, mine)
  BY <1>3, SettleFacts
<1>. USE DEF SettleShape
<1>5. \A j \in JobIds : job[j] \in Job
  BY DEF TypeOK
<1>6. \A j \in JobIds \ mine : job'[j] = job[j]
  BY <1>2
<1>7. \A j \in mine : /\ job'[j].copy = "queued"
                      /\ job'[j].state = "queued"
                      /\ ~job'[j].wait
                      /\ job'[j].tail = job[j].tail
                      /\ job'[j].spent
                      /\ job'[j].requeued <=> j = work[w].job
  BY <1>2, <1>4, <1>5, RequeueFields
<1>8. \A j \in JobIds : /\ job'[j].tail = job[j].tail
                        /\ job'[j].copy = "none" <=> job[j].copy = "none"
  BY <1>4, <1>6, <1>7
<1>9. ActiveMatchesQueue'
  BY <1>2, <1>4, <1>8 DEF QInv, ActiveMatchesQueue, Live
<1>10. SettledGone' /\ WaitRuns'
  BY <1>4, <1>6, <1>7 DEF QInv, SettledGone, Settled, WaitRuns
<1>11. Hands'
  <2>1. \A v \in Workers : work[v].job # 0 => work[v].job \in Live'
    BY <1>4, <1>8 DEF QInv, Hands, Live
  <2>. QED BY <1>4, <2>1 DEF QInv, Hands, Busy, Transferring
<1>12. Holding'
  BY <1>1, <1>4, <1>6, <1>7 DEF QInv, Holding
<1>13. Sharing'
  BY <1>1, <1>4, <1>6, <1>7 DEF QInv, Sharing
<1>14. Requeued'
  <2>. SUFFICES ASSUME NEW j \in JobIds, job'[j].requeued PROVE Requeued!(j)!2'
    BY <1>4 DEF Requeued
  <2>1. CASE j \in mine
    BY <1>4, <1>7, <2>1
  <2>2. CASE j \notin mine
    BY <1>4, <1>6, <2>2 DEF QInv, Requeued
  <2>. QED BY <2>1, <2>2
<1>15. Owned'
  <2>. SUFFICES ASSUME NEW j \in JobIds, job'[j].copy = "running" PROVE Owned!(j)!2'
    BY <1>4 DEF Owned
  <2>1. j \notin mine /\ job'[j] = job[j]
    BY <1>6, <1>7
  <2>2. CASE \E v \in Workers : work[v].job = j
    BY <1>4, <2>1, <2>2
  <2>3. CASE /\ job[j].wait
             /\ \E v \in Workers : /\ wpc[v] \in Transferring
                                   /\ job[j].tail \in work[v].slot
    <3>1. active[job[j].tail] = j
      BY <2>1 DEF QInv, ActiveMatchesQueue, Live
    <3>2. job[j].tail \notin work[w].slot
      BY <1>1, <2>1, <3>1 DEF mine
    <3>. QED BY <1>4, <2>1, <2>3, <3>2
  <2>. QED BY <2>1, <2>2, <2>3 DEF QInv, Owned
<1>16. Slots'
  <2>. SUFFICES ASSUME NEW v \in Workers \ {w}, wpc[v] \in Transferring,
                       work[v].slot # {}
                PROVE  Slots!(v)!2'
    BY <1>4 DEF Slots
  <2>1. work[v].job \in JobIds /\ job'[work[v].job] = job[work[v].job]
    BY <1>1, <1>4, <1>6 DEF QInv, Hands, Busy
  <2>2. \A t \in work[v].slot : job'[active[t]] = job[active[t]]
    BY <1>4, <1>6
  <2>. QED BY <1>2, <1>4, <2>1, <2>2 DEF QInv, Slots
<1>17. SlotsApart'
  BY <1>4 DEF QInv, SlotsApart
<1>. QED BY <1>9, <1>10, <1>11, <1>12, <1>13, <1>14, <1>15, <1>16, <1>17 DEF QInv

(***************************************************************************)
(* Completion.                                                             *)
(***************************************************************************)
\* Where every completion leaves its worker.
CompleteShape(w, j) ==
    /\ UNCHANGED <<running, seq>> /\ JobIds' = JobIds
    /\ j = work[w].job /\ j \in JobIds /\ job[j].copy # "none" /\ ~job[j].wait
    /\ job[j].tail \in Tails /\ active[job[j].tail] = j
    /\ wpc[w] = "complete" /\ wpc'[w] = "idle" /\ running
    /\ work'[w].job = 0 /\ work'[w].slot = {} /\ work'[w].ok = FALSE
    /\ ~RiderDone(w)' /\ wpc[w] \notin Transferring /\ wpc'[w] \notin Transferring
    /\ \A v \in Workers \ {w} : /\ wpc'[v] = wpc[v] /\ work'[v] = work[v]
                                /\ RiderDone(v)' <=> RiderDone(v)
    /\ \A v \in Workers : work[v].job # 0 => work[v].job \in JobIds
    /\ 0 \notin JobIds

LEMMA CompleteFacts ==
    ASSUME TypeOK, QInv, NEW w \in Workers, Complete(w), NEW j, j = work[w].job
    PROVE  CompleteShape(w, j)
<1>1. /\ UNCHANGED <<running, seq>> /\ JobIds' = JobIds
      /\ wpc[w] = "complete" /\ wpc'[w] = "idle"
      /\ work'[w] = NoWork
      /\ \A v \in Workers \ {w} : wpc'[v] = wpc[v] /\ work'[v] = work[v]
  BY DEF Complete, pool, TypeOK, JobIds
<1>2. j \in Live /\ running
  BY <1>1 DEF QInv, Hands, Busy
<1>3. j \in JobIds /\ job[j].copy # "none" /\ job[j].tail \in Tails
  BY <1>2 DEF Live, TypeOK, Job
<1>4. ~job[j].wait /\ active[job[j].tail] = j
  BY <1>2, HeldIds DEF QInv, Holding, ActiveMatchesQueue, Live
<1>5. work'[w].job = 0 /\ work'[w].slot = {} /\ work'[w].ok = FALSE
  BY <1>1, NoWorkFields
<1>6. /\ ~RiderDone(w)' /\ wpc[w] \notin Transferring /\ wpc'[w] \notin Transferring
      /\ \A v \in Workers \ {w} : RiderDone(v)' <=> RiderDone(v)
  BY <1>1 DEF RiderDone, Transferring
<1>. QED BY <1>1, <1>2, <1>3, <1>4, <1>5, <1>6, HeldIds DEF CompleteShape

\* A requeued job is left where it is.
LEMMA QCompleteRequeued ==
    ASSUME TypeOK, QInv, NEW w \in Workers, Complete(w), job[work[w].job].requeued
    PROVE  QInv'
<1>. DEFINE j == work[w].job
<1>1. CompleteShape(w, j)
  BY CompleteFacts
<1>. USE DEF CompleteShape
<1>2. job' = [job EXCEPT ![j] = Released(j)] /\ active' = active
  BY DEF Complete
<1>3. /\ \A i \in JobIds \ {j} : job'[i] = job[i]
      /\ job'[j].copy = job[j].copy /\ job'[j].state = job[j].state
      /\ job'[j].tail = job[j].tail /\ job'[j].spent = job[j].spent
      /\ job'[j].wait = job[j].wait /\ job'[j].requeued = FALSE
  BY <1>1, <1>2, ReleasedFields DEF TypeOK
<1>. HIDE DEF j
<1>4. ActiveMatchesQueue' /\ SettledGone' /\ WaitRuns'
  BY <1>1, <1>2, <1>3
     DEF QInv, ActiveMatchesQueue, SettledGone, Settled, WaitRuns, Live
<1>5. Hands'
  <2>1. \A v \in Workers \ {w} : Hands!(v)'
    BY <1>1, <1>3 DEF QInv, Hands, Live
  <2>2. Hands!(w)'
    BY <1>1 DEF Hands, Busy, Transferring
  <2>. QED BY <2>1, <2>2 DEF Hands
<1>6. \A v \in Workers \ {w} : work[v].job = j => job[j].copy = "running"
  <2>. SUFFICES ASSUME NEW v \in Workers \ {w}, work[v].job = j,
                       job[j].copy # "running"
                PROVE  FALSE
    OBVIOUS
  <2>1. RiderDone(v) /\ RiderDone(w)
    BY <1>1 DEF QInv, Holding
  <2>. QED BY <1>1, <2>1 DEF QInv, Sharing
<1>7. Holding'
  <2>. SUFFICES ASSUME NEW v \in Workers \ {w}, work[v].job # 0 PROVE Holding!(v)!2'
    BY <1>1 DEF Holding
  <2>1. CASE work[v].job = j
    BY <1>1, <1>3, <1>6, <2>1
  <2>2. CASE work[v].job # j
    BY <1>1, <1>3, <2>2 DEF QInv, Holding
  <2>. QED BY <2>1, <2>2
<1>8. Sharing'
  <2>. SUFFICES ASSUME NEW u \in Workers \ {w}, NEW v \in Workers \ {w}, u # v,
                       work[u].job # 0, work[u].job = work[v].job
                PROVE  job'[work[v].job].requeued /\ (RiderDone(u) <=> ~RiderDone(v))
    BY <1>1 DEF Sharing
  <2>1. RiderDone(u) <=> ~RiderDone(v)
    BY DEF QInv, Sharing
  <2>2. work[v].job # j
    <3>1. SUFFICES ASSUME work[v].job = j PROVE FALSE
      OBVIOUS
    <3>2. /\ RiderDone(u) <=> ~RiderDone(w)
          /\ RiderDone(v) <=> ~RiderDone(w)
      BY <1>1, <3>1 DEF QInv, Sharing
    <3>. QED BY <2>1, <3>2
  <2>3. job[work[v].job].requeued
    BY DEF QInv, Sharing
  <2>. QED BY <1>1, <1>3, <2>1, <2>2, <2>3
<1>9. Requeued'
  BY <1>1, <1>3 DEF QInv, Requeued
<1>10. Owned'
  <2>. SUFFICES ASSUME NEW i \in JobIds, job'[i].copy = "running" PROVE Owned!(i)!2'
    BY <1>1 DEF Owned
  <2>1. CASE i = j
    <3>1. \E v \in Workers : work[v].job = j /\ RiderDone(v)
      BY <1>1 DEF j, QInv, Requeued
    <3>2. \E v \in Workers : work[v].job = j /\ ~RiderDone(v)
      BY <1>1, <1>3, <2>1 DEF j, QInv, Requeued
    <3>3. \E v \in Workers \ {w} : work[v].job = j
      BY <3>1, <3>2
    <3>. QED BY <1>1, <2>1, <3>3
  <2>2. CASE i # j
    BY <1>1, <1>3, <2>2 DEF QInv, Owned
  <2>. QED BY <2>1, <2>2
<1>11. Slots'
  <2>. SUFFICES ASSUME NEW v \in Workers \ {w}, wpc[v] \in Transferring,
                       work[v].slot # {}
                PROVE  Slots!(v)!2'
    BY <1>1 DEF Slots
  <2>1. work[v].job \in JobIds /\ job'[work[v].job].tail = job[work[v].job].tail
    BY <1>1, <1>3 DEF QInv, Hands, Busy
  <2>. QED BY <1>1, <1>2, <1>3, <2>1 DEF QInv, Slots
<1>12. SlotsApart'
  BY <1>1 DEF QInv, SlotsApart
<1>. QED BY <1>4, <1>5, <1>7, <1>8, <1>9, <1>10, <1>11, <1>12 DEF QInv

\* Any other job is settled and leaves the queue; nobody else has it in hand.
LEMMA QCompleteSettled ==
    ASSUME TypeOK, QInv, NEW w \in Workers, Complete(w), ~job[work[w].job].requeued
    PROVE  QInv'
<1>. DEFINE j == work[w].job
<1>1. CompleteShape(w, j)
  BY CompleteFacts
<1>. USE DEF CompleteShape
<1>2. /\ job' = [job EXCEPT ![j] = Finished(j, work[w].ok)]
      /\ active' = [active EXCEPT ![job[j].tail] = 0]
  BY DEF Complete
<1>3. job[j].copy = "running"
  BY <1>1 DEF QInv, Holding
<1>4. /\ \A i \in JobIds \ {j} : job'[i] = job[i]
      /\ job'[j].copy = "none" /\ job'[j].tail = job[j].tail
      /\ ~job'[j].wait /\ ~job'[j].requeued
  <2>1. job[j] \in Job /\ work[w].ok \in BOOLEAN
    BY <1>1 DEF TypeOK, Work
  <2>. QED BY <1>1, <1>2, <1>3, <2>1, FinishedFields DEF TypeOK
<1>5. \A t \in Tails : active'[t] = IF t = job[j].tail THEN 0 ELSE active[t]
  BY <1>2 DEF TypeOK
<1>6. \A v \in Workers \ {w} : work[v].job # j
  BY <1>1 DEF j, QInv, Sharing
<1>. HIDE DEF j
<1>7. ActiveMatchesQueue'
  <2>1. ASSUME NEW t \in Tails, active'[t] # 0
        PROVE  active'[t] \in Live' /\ job'[active'[t]].tail = t
    BY <1>1, <1>4, <1>5, <2>1 DEF QInv, ActiveMatchesQueue, Live
  <2>2. ASSUME NEW i \in Live' PROVE active'[job'[i].tail] = i
    <3>1. i \in JobIds \ {j} /\ job'[i] = job[i] /\ job[i].tail \in Tails
      BY <1>1, <1>4 DEF Live, TypeOK, Job
    <3>2. active[job[i].tail] = i
      BY <3>1 DEF QInv, ActiveMatchesQueue, Live
    <3>. QED BY <1>1, <1>5, <3>1, <3>2
  <2>. QED BY <2>1, <2>2 DEF ActiveMatchesQueue
<1>8. SettledGone' /\ WaitRuns'
  BY <1>1, <1>4 DEF QInv, SettledGone, Settled, WaitRuns
<1>9. Hands'
  <2>1. \A v \in Workers \ {w} : Hands!(v)'
    BY <1>1, <1>4, <1>6 DEF QInv, Hands, Live
  <2>2. Hands!(w)'
    BY <1>1 DEF Hands, Busy, Transferring
  <2>. QED BY <2>1, <2>2 DEF Hands
<1>10. Holding'
  BY <1>1, <1>4, <1>6 DEF QInv, Holding
<1>11. Sharing'
  BY <1>1, <1>4, <1>6 DEF QInv, Sharing
<1>12. Requeued'
  BY <1>1, <1>4, <1>6 DEF QInv, Requeued
<1>13. Owned'
  BY <1>1, <1>4, <1>6 DEF QInv, Owned
<1>14. Slots'
  <2>. SUFFICES ASSUME NEW v \in Workers \ {w}, wpc[v] \in Transferring,
                       work[v].slot # {}
                PROVE  Slots!(v)!2'
    BY <1>1 DEF Slots
  <2>1. work[v].job \in JobIds \ {j}
    BY <1>1, <1>6 DEF QInv, Hands, Busy
  <2>2. work[v].slot \subseteq Tails
    BY DEF TypeOK, Work
  <2>3. \A t \in work[v].slot : active[t] \in JobIds \ {j}
    \* the job itself does not wait, so it could only be v's own
    BY <1>1, <1>6 DEF QInv, Slots
  <2>4. job[j].tail \notin work[v].slot
    BY <1>1, <2>3
  <2>5. \A t \in work[v].slot : active'[t] = active[t]
    BY <1>5, <2>2, <2>4
  <2>. QED BY <1>1, <1>4, <2>1, <2>3, <2>5 DEF QInv, Slots
<1>15. SlotsApart'
  BY <1>1 DEF QInv, SlotsApart
<1>. QED BY <1>7, <1>8, <1>9, <1>10, <1>11, <1>12, <1>13, <1>14, <1>15 DEF QInv

(***************************************************************************)
(* Requests.                                                               *)
(***************************************************************************)
LEMMA EnqueueKeeps ==
    ASSUME TypeOK, NEW S \in SUBSET Tails, NEW prio \in Prios, Enqueue(S, prio),
           NEW j \in JobIds
    PROVE  /\ job'[j].tail = job[j].tail
           /\ job'[j].copy = job[j].copy
           /\ job'[j].state = job[j].state
           /\ job'[j].wait = job[j].wait
           /\ job'[j].spent = job[j].spent
           /\ job'[j].requeued = job[j].requeued
<1>. DEFINE last == seq + Cardinality(Fresh(S))
<1>1. job[j] \in Job /\ seq \in Nat
  BY DEF TypeOK
<1>2. Cardinality(Fresh(S)) \in Nat
  <2>1. Fresh(S) \subseteq Tails
    BY DEF Fresh
  <2>. QED BY <2>1, EngineAssumption, FS_Subset, FS_CardinalityType
<1>3. j \in 1..last /\ j \notin (seq + 1)..last
  BY <1>1, <1>2 DEF JobIds
<1>4. job'[j] = job[j] \/ job'[j] = [job[j] EXCEPT !.prio = prio]
  BY <1>3 DEF Enqueue
<1>. QED BY <1>1, <1>4 DEF Job

LEMMA QEnqueue ==
    ASSUME TypeOK, QInv, NEW S \in SUBSET Tails, NEW prio \in Prios, Enqueue(S, prio),
           UNCHANGED <<running, worker>>
    PROVE  QInv'
<1>. DEFINE fresh    == Fresh(S)
            last     == seq + Cardinality(fresh)
            new      == (seq + 1)..last
            joined   == {active[t] : t \in S \ fresh}
            promoted == {j \in joined : job[j].copy = "queued" /\ prio < job[j].prio}
<1>1. /\ 0 \notin JobIds
      /\ \A v \in Workers : work[v].job # 0 => work[v].job \in JobIds
  BY HeldIds
<1>2. PICK tail \in [new -> fresh] :
        /\ \A t \in fresh : \E j \in new : tail[j] = t
        /\ \A i, j \in new : i < j => tail[i] < tail[j]
        /\ job' = [j \in 1..last |->
                     IF j \in new THEN NewJob(tail[j], prio)
                     ELSE IF j \in promoted THEN [job[j] EXCEPT !.prio = prio]
                     ELSE job[j]]
        /\ active' = [t \in Tails |-> IF t \in fresh
                                      THEN CHOOSE j \in new : tail[j] = t
                                      ELSE active[t]]
  BY DEF Enqueue
<1>3. /\ seq' = last /\ seq \in Nat /\ Cardinality(fresh) \in Nat
      /\ fresh \subseteq Tails /\ \A t \in fresh : active[t] = 0
  <2>1. fresh \subseteq Tails /\ \A t \in fresh : active[t] = 0
    BY DEF Fresh
  <2>2. Cardinality(fresh) \in Nat
    BY <2>1, EngineAssumption, FS_Subset, FS_CardinalityType
  <2>. QED BY <2>1, <2>2 DEF Enqueue, TypeOK
<1>4. /\ JobIds' = JobIds \cup new /\ JobIds \cap new = {}
      /\ 1..last = JobIds \cup new
      /\ 0 \notin new
  BY <1>3 DEF JobIds
<1>5. \A j \in JobIds : /\ job'[j].tail = job[j].tail
                        /\ job'[j].copy = job[j].copy
                        /\ job'[j].state = job[j].state
                        /\ job'[j].wait = job[j].wait
                        /\ job'[j].spent = job[j].spent
                        /\ job'[j].requeued = job[j].requeued
  BY EnqueueKeeps
<1>6. \A j \in new : /\ job'[j].tail = tail[j] /\ job'[j].copy = "queued"
                     /\ job'[j].state = "queued" /\ job'[j].wait = FALSE
                     /\ job'[j].requeued = FALSE
  BY <1>2, <1>4 DEF NewJob
<1>7. \A t \in Tails \ fresh : active'[t] = active[t]
  BY <1>2
<1>8. \A t \in fresh : active'[t] \in new /\ tail[active'[t]] = t
  <2>. SUFFICES ASSUME NEW t \in fresh
                PROVE  active'[t] \in new /\ tail[active'[t]] = t
    OBVIOUS
  <2>1. active'[t] = CHOOSE j \in new : tail[j] = t
    BY <1>2, <1>3
  <2>. QED BY <1>2, <2>1
<1>9. \A i, j \in new : tail[i] = tail[j] => i = j
  <2>. SUFFICES ASSUME NEW i \in new, NEW j \in new, tail[i] = tail[j], i # j
                PROVE  FALSE
    OBVIOUS
  <2>1. i \in Int /\ j \in Int /\ tail[i] \in Int
    BY <1>2, <1>3, EngineAssumption
  <2>2. CASE i < j
    BY <1>2, <2>1, <2>2
  <2>3. CASE j < i
    BY <1>2, <2>1, <2>3
  <2>. QED BY <2>1, <2>2, <2>3
<1>10. /\ UNCHANGED <<running, wpc, work>>
      /\ \A v \in Workers : /\ RiderDone(v)' <=> RiderDone(v)
  BY DEF worker, RiderDone
<1>. HIDE DEF new, fresh, last
<1>11. ActiveMatchesQueue'
  <2>1. ASSUME NEW t \in Tails, active'[t] # 0
        PROVE  active'[t] \in Live' /\ job'[active'[t]].tail = t
    <3>1. CASE t \in fresh
      BY <1>4, <1>6, <1>8, <3>1 DEF Live
    <3>2. CASE t \notin fresh
      BY <1>4, <1>5, <1>7, <2>1, <3>2 DEF QInv, ActiveMatchesQueue, Live
    <3>. QED BY <3>1, <3>2
  <2>2. ASSUME NEW j \in Live' PROVE active'[job'[j].tail] = j
    <3>1. CASE j \in new
      <4>1. job'[j].tail \in fresh /\ job'[j].tail = tail[j]
        BY <1>2, <1>6, <3>1
      <4>. QED BY <1>8, <1>9, <3>1, <4>1
    <3>2. CASE j \notin new
      <4>1. j \in JobIds /\ job[j].copy # "none" /\ job'[j].tail = job[j].tail
        BY <1>4, <1>5, <3>2 DEF Live
      <4>2. job[j].tail \in Tails /\ active[job[j].tail] = j
        BY <4>1 DEF QInv, ActiveMatchesQueue, Live, TypeOK, Job
      <4>3. job[j].tail \notin fresh
        BY <1>1, <1>3, <4>1, <4>2
      <4>. QED BY <1>7, <4>1, <4>2, <4>3
    <3>. QED BY <3>1, <3>2
  <2>. QED BY <2>1, <2>2 DEF ActiveMatchesQueue
<1>12. SettledGone' /\ WaitRuns'
  BY <1>4, <1>5, <1>6 DEF QInv, SettledGone, Settled, WaitRuns
<1>13. Hands'
  BY <1>4, <1>5, <1>10 DEF QInv, Hands, Live
<1>14. Holding' /\ Sharing'
  BY <1>1, <1>5, <1>10 DEF QInv, Holding, Sharing
<1>15. Requeued'
  BY <1>4, <1>5, <1>6, <1>10 DEF QInv, Requeued
<1>16. Owned'
  BY <1>4, <1>5, <1>6, <1>10 DEF QInv, Owned
<1>17. Slots'
  <2>. SUFFICES ASSUME NEW v \in Workers, wpc[v] \in Transferring, work[v].slot # {}
                PROVE  Slots!(v)!2'
    BY <1>10 DEF Slots
  <2>1. work[v].job \in JobIds
    BY <1>1 DEF QInv, Hands, Busy
  <2>2. \A t \in work[v].slot : active[t] \in JobIds /\ active'[t] = active[t]
    <3>1. work[v].slot \subseteq Tails
      BY DEF TypeOK, Work
    <3>2. \A t \in work[v].slot : active[t] \in JobIds
      BY DEF QInv, Slots
    <3>. QED BY <1>1, <1>3, <1>7, <3>1, <3>2
  <2>. QED BY <1>4, <1>5, <1>10, <2>1, <2>2 DEF QInv, Slots
<1>18. SlotsApart'
  BY <1>10 DEF QInv, SlotsApart
<1>. QED BY <1>11, <1>12, <1>13, <1>14, <1>15, <1>16, <1>17, <1>18 DEF QInv

(***************************************************************************)
(* Every step keeps QInv.                                                  *)
(***************************************************************************)
LEMMA QTransfer ==
    ASSUME TypeOK, QInv, NEW w \in Workers,
           \/ HttpBody(w) \/ HttpBadSize(w) \/ HttpMissing(w) \/ HttpError(w)
           \/ StoreOpen(w) \/ StoreWrite(w) \/ BundleBody(w) \/ BundleBad(w)
    PROVE  QInv'
<1>1. work[w] \in Work /\ work = [work EXCEPT ![w] = work[w]]
  <2>1. work \in [Workers -> Work]
    BY DEF TypeOK
  <2>. QED BY <2>1
<1>2. /\ wpc[w] = "http" => work[w].slot = {}
      /\ wpc[w] \in {"ride", "settle"} => work[w].slot # {}
      /\ wpc[w] = "http" => work[w].tries < Retries
      /\ work[w].ok => wpc[w] \in {"settle", "complete"}
  BY DEF QInv, Hands
<1>3. /\ AfterStore(w) = "complete" => work[w].slot = {}
      /\ AfterStore(w) = "settle" => work[w].slot # {}
      /\ AfterStore(w) \in {"complete", "settle"}
  BY DEF AfterStore
<1>. USE DEF Transferring
<1>4. CASE HttpBody(w)
  <2>. DEFINE r == [work[w] EXCEPT !.todo = {TailOf(w)}]
              pc == "open"
  <2>1. r.job = work[w].job /\ r.slot = work[w].slot /\ r.ok = work[w].ok
    BY <1>1 DEF Work
  <2>2. work' = [work EXCEPT ![w] = r] /\ wpc[w] = "http" /\ Transferred(w, pc)
    BY <1>4 DEF HttpBody
  <2>3. ~r.ok /\ pc \in Transferring \ {"http", "ride", "settle"}
    BY <1>2, <2>1, <2>2
  <2>. HIDE DEF pc, r
  <2>. QED BY <1>2, <2>3, <2>1, <2>2, QTransferred
<1>5. CASE HttpBadSize(w) \/ HttpMissing(w)
  <2>1. UNCHANGED work /\ wpc[w] = "http" /\ Transferred(w, "complete")
    BY <1>5 DEF HttpBadSize, HttpMissing
  <2>. QED BY <1>1, <1>2, <2>1, QTransferred
<1>6. CASE HttpError(w)
  <2>. DEFINE r == [work[w] EXCEPT !.tries = @ + 1]
              pc == IF MayRetry(work[w].tries + 1) THEN "http" ELSE "complete"
  <2>1. /\ r.job = work[w].job /\ r.slot = work[w].slot /\ r.ok = work[w].ok
        /\ r.tries = work[w].tries + 1
    BY <1>1 DEF Work
  <2>2. work' = [work EXCEPT ![w] = r] /\ wpc[w] = "http" /\ Transferred(w, pc)
    BY <1>6 DEF HttpError
  <2>3. /\ pc = "http" => r.tries < Retries
        /\ pc \in {"http", "complete"}
    BY <2>1 DEF MayRetry
  <2>. HIDE DEF pc, r
  <2>. QED BY <1>2, <2>1, <2>2, <2>3, QTransferred
<1>7. CASE StoreOpen(w)
  <2>1. UNCHANGED work /\ wpc[w] = "open"
    BY <1>7 DEF StoreOpen
  <2>2. Transferred(w, "write") \/ Transferred(w, AfterStore(w))
    BY <1>7 DEF StoreOpen
  <2>. QED BY <1>1, <1>2, <1>3, <2>1, <2>2, QTransferred
<1>8. CASE StoreWrite(w)
  <2>1. wpc[w] = "write"
    BY <1>8 DEF StoreWrite
  <2>2. CASE UNCHANGED work /\ Transferred(w, AfterStore(w))
    BY <1>1, <1>2, <1>3, <2>1, <2>2, QTransferred
  <2>3. CASE StoreWrite(w)!2!1
    <3>1. PICK t \in Tails : StoreWrite(w)!2!1!(t)
      BY <2>3
    <3>. DEFINE left == work[w].todo \ {t}
                r == [work[w] EXCEPT !.todo = left, !.ok = AllWritten(left)]
                pc == IF left = {} THEN AfterStore(w) ELSE "open"
    <3>2. /\ r.job = work[w].job /\ r.slot = work[w].slot
          /\ r.ok = AllWritten(left)
      BY <1>1 DEF Work
    <3>3. work' = [work EXCEPT ![w] = r] /\ Transferred(w, pc)
      BY <3>1
    <3>4. r.ok => pc = AfterStore(w)
      BY <3>2 DEF AllWritten
    <3>5. pc = "open" \/ pc = AfterStore(w)
      OBVIOUS
    <3>. HIDE DEF pc, r
    <3>. QED BY <1>1, <1>2, <1>3, <2>1, <3>2, <3>3, <3>4, <3>5, QTransferred
  <2>. QED BY <1>8, <2>2, <2>3 DEF StoreWrite
<1>9. CASE BundleBody(w)
  <2>. DEFINE r == [work[w] EXCEPT !.todo = work[w].slot]
              pc == "open"
  <2>1. r.job = work[w].job /\ r.slot = work[w].slot /\ r.ok = work[w].ok
    BY <1>1 DEF Work
  <2>2. work' = [work EXCEPT ![w] = r] /\ wpc[w] = "ride" /\ Transferred(w, pc)
    BY <1>9 DEF BundleBody
  <2>3. ~r.ok /\ pc \in Transferring \ {"http", "ride", "settle"}
    BY <1>2, <2>1, <2>2
  <2>. HIDE DEF pc, r
  <2>. QED BY <1>2, <2>3, <2>1, <2>2, QTransferred
<1>10. CASE BundleBad(w)
  <2>1. wpc[w] = "ride" /\ Transferred(w, "settle")
    BY <1>10 DEF BundleBad
  <2>2. PICK refused \in BOOLEAN : work' = [work EXCEPT ![w].refused = refused]
    BY <1>10 DEF BundleBad
  <2>. DEFINE r == [work[w] EXCEPT !.refused = refused]
  <2>3. r.job = work[w].job /\ r.slot = work[w].slot /\ r.ok = work[w].ok
    BY <1>1 DEF Work
  <2>4. work' = [work EXCEPT ![w] = r]
    BY <2>2
  <2>. QED BY <1>2, <2>1, <2>3, <2>4, QTransferred
<1>. QED BY <1>4, <1>5, <1>6, <1>7, <1>8, <1>9, <1>10

LEMMA QWorker == ASSUME TypeOK, QInv, NEW w \in Workers, Worker(w) PROVE QInv'
<1>1. CASE TakeBundle(w) \/ TakeJob(w) \/ Exit(w)
  BY <1>1, QTakeBundle, QTakeJob, QExit
<1>2. CASE \/ HttpBody(w) \/ HttpBadSize(w) \/ HttpMissing(w) \/ HttpError(w)
           \/ StoreOpen(w) \/ StoreWrite(w) \/ BundleBody(w) \/ BundleBad(w)
  BY <1>2, QTransfer
<1>3. CASE BundleSettle(w)
  BY <1>3, QSettleDone, QSettleFailed
<1>4. CASE Complete(w)
  BY <1>4, QCompleteRequeued, QCompleteSettled
<1>. QED BY <1>1, <1>2, <1>3, <1>4 DEF Worker

LEMMA QClient == ASSUME TypeOK, QInv, NEW c \in Clients, Client(c) PROVE QInv'
<1>1. UNCHANGED <<running, worker, store>>
  BY DEF Client, Check, Submit, Batch, Wake, Timeout, BatchPoll, BatchStop, Return,
         Told, ClientStep, pool
<1>2. CASE UNCHANGED queue
  BY <1>1, <1>2, QFrame
<1>3. ASSUME NEW S \in SUBSET Tails, NEW prio \in Prios, Enqueue(S, prio) PROVE QInv'
  BY <1>1, <1>3, QEnqueue
<1>4. CASE Submit(c)
  <2>1. call[c].tails \in SUBSET Tails /\ call[c].prio \in Prios
    BY DEF TypeOK, Call
  <2>. QED BY <1>2, <1>3, <1>4, <2>1 DEF Submit
<1>5. CASE Batch(c)
  <2>1. PICK r \in Requests : Batch(c)!2!(r)
    BY <1>5 DEF Batch
  <2>2. Missing(r.tails) \in SUBSET Tails /\ r.prio \in Prios
    BY RequestFields DEF Missing
  <2>. QED BY <1>2, <1>3, <2>1, <2>2
<1>6. CASE \/ Check(c) \/ Wake(c) \/ Timeout(c) \/ BatchPoll(c) \/ BatchStop(c)
           \/ Return(c)
  BY <1>2, <1>6 DEF Check, Wake, Timeout, BatchPoll, BatchStop, Return, Told
<1>. QED BY <1>4, <1>5, <1>6 DEF Client

LEMMA QStep == TypeOK /\ QInv /\ [Next]_vars => QInv'
<1>. SUFFICES ASSUME TypeOK, QInv, [Next]_vars PROVE QInv'
  OBVIOUS
<1>1. CASE SetIngame \/ StopSignal \/ SetBundle \/ UNCHANGED vars
  BY <1>1, QFrame DEF SetIngame, StopSignal, SetBundle, vars, pool
<1>. QED BY <1>1, QWorker, QClient, QStart, QStopJoin DEF Next

LEMMA QInit == Init => QInv
<1>. SUFFICES ASSUME Init PROVE QInv
  OBVIOUS
<1>1. /\ JobIds = {} /\ Live = {} /\ \A t \in Tails : active[t] = 0
      /\ \A w \in Workers : wpc[w] = "off" /\ work[w] = NoWork /\ work[w].job = 0
  BY NoWorkFields DEF Init, JobIds, Live
<1>2. ActiveMatchesQueue /\ SettledGone /\ WaitRuns /\ Requeued /\ Owned
  BY <1>1 DEF ActiveMatchesQueue, SettledGone, WaitRuns, Requeued, Owned
<1>3. Hands /\ Holding /\ Sharing
  BY <1>1, NoWorkFields DEF Hands, Holding, Sharing, Busy, Transferring
<1>4. Slots /\ SlotsApart
  BY <1>1 DEF Slots, SlotsApart, Transferring
<1>. QED BY <1>2, <1>3, <1>4 DEF QInv

(***************************************************************************)
(* What QInv is for.                                                       *)
(***************************************************************************)
LEMMA HeldFacts ==
    ASSUME TypeOK, QInv, NEW w \in Workers, wpc[w] \in Busy
    PROVE  /\ work[w].job \in Live /\ work[w].job \in JobIds /\ work[w].job # 0
           /\ ~job[work[w].job].wait
           /\ TailOf(w) \in Tails /\ active[TailOf(w)] = work[w].job
           /\ work[w].slot \subseteq Tails
           /\ wpc[w] \in Transferring /\ work[w].slot # {} => TailOf(w) \in work[w].slot
<1>1. /\ work[w].job \in Live /\ work[w].job # 0
  BY DEF QInv, Hands
<1>2. work[w].job \in JobIds /\ TailOf(w) \in Tails
  BY <1>1 DEF Live, TailOf, TypeOK, Job
<1>3. ~job[work[w].job].wait /\ active[TailOf(w)] = work[w].job
  BY <1>1 DEF QInv, Holding, ActiveMatchesQueue, TailOf
<1>4. work[w].slot \subseteq Tails
  BY DEF TypeOK, Work
<1>. QED BY <1>1, <1>2, <1>3, <1>4 DEF QInv, Slots, TailOf

\* What a worker transfers, nobody else transfers or has just transferred.
LEMMA Apart ==
    ASSUME TypeOK, QInv, NEW v \in Workers, NEW w \in Workers, v # w,
           wpc[w] \in Transferring
    PROVE  /\ wpc[v] \in Transferring => Cargo(v) \cap Cargo(w) = {}
           /\ wpc[v] = "complete" /\ work[v].ok => TailOf(v) \notin Cargo(w)
<1>1. /\ work[w].job \in JobIds /\ work[w].job # 0 /\ ~job[work[w].job].wait
      /\ active[TailOf(w)] = work[w].job /\ ~RiderDone(w)
  BY HeldFacts DEF Busy, RiderDone, Transferring
<1>2. ASSUME wpc[v] \in Busy, work[v].job = work[w].job
      PROVE  wpc[v] = "complete" /\ ~work[v].ok
  <2>1. job[work[w].job].requeued /\ RiderDone(v)
    BY <1>1, <1>2 DEF QInv, Sharing
  <2>. QED BY <1>1, <1>2, <2>1 DEF QInv, Requeued, RiderDone
<1>3. ASSUME wpc[v] \in Busy, TailOf(v) \in Cargo(w)
      PROVE  work[v].job = work[w].job
  <2>1. ~job[work[v].job].wait /\ active[TailOf(v)] = work[v].job
    BY <1>3, HeldFacts
  <2>2. CASE work[w].slot = {}
    BY <1>1, <1>3, <2>1, <2>2 DEF Cargo
  <2>3. CASE work[w].slot # {}
    BY <1>3, <2>1, <2>3 DEF Cargo, QInv, Slots
  <2>. QED BY <2>2, <2>3
<1>4. ASSUME wpc[v] \in Transferring, NEW t \in Cargo(v), t \in Cargo(w) PROVE FALSE
  <2>1. /\ wpc[v] \in Busy /\ wpc[v] # "complete"
        /\ active[TailOf(v)] = work[v].job /\ ~job[work[v].job].wait
    BY <1>4, HeldFacts DEF Busy, Transferring
  <2>2. TailOf(v) \notin Cargo(w)
    BY <1>2, <1>3, <2>1
  <2>3. work[v].slot # {} /\ t \in work[v].slot
    BY <1>4, <2>2 DEF Cargo
  <2>4. CASE work[w].slot = {}
    <3>1. t = TailOf(w) /\ active[t] = work[w].job
      BY <1>1, <1>4, <2>4 DEF Cargo
    <3>2. active[t] = work[v].job
      BY <1>1, <1>4, <2>3, <3>1 DEF QInv, Slots
    <3>. QED BY <1>2, <2>1, <3>1, <3>2
  <2>5. CASE work[w].slot # {}
    BY <1>4, <2>3, <2>5 DEF Cargo, QInv, SlotsApart
  <2>. QED BY <2>4, <2>5
<1>5. wpc[v] = "complete" => wpc[v] \in Busy
  BY DEF Busy
<1>. QED BY <1>2, <1>3, <1>4, <1>5

\* OneTransferPerTail and RunningHasOwner follow.
LEMMA Consequences == ASSUME TypeOK, QInv PROVE OneTransferPerTail /\ RunningHasOwner
<1>1. OneTransferPerTail
  BY Apart DEF OneTransferPerTail, Transfers
<1>2. RunningHasOwner
  BY DEF QInv, Owned, RunningHasOwner, Transfers, Cargo
<1>. QED BY <1>1, <1>2

(***************************************************************************)
(* What has been written.                                                  *)
(***************************************************************************)
\* A worker that does not move keeps what it relies on, unless its own files
\* are touched.
LEMMA WrittenKept ==
    ASSUME TypeOK, QInv, Written, NEW v \in Workers,
           wpc'[v] = wpc[v], work'[v] = work[v],
           \A j \in JobIds : job'[j].tail = job[j].tail,
           wpc[v] \in Transferring =>
              \A t \in Cargo(v) : store[t] = "whole" => store'[t] = "whole",
           wpc[v] = "complete" /\ work[v].ok /\ store[TailOf(v)] = "whole" =>
              store'[TailOf(v)] = "whole"
    PROVE  Written!(v)'
<1>1. wpc[v] \in Busy => TailOf(v)' = TailOf(v) /\ Cargo(v)' = Cargo(v)
  BY HeldFacts DEF TailOf, Cargo
<1>. QED BY <1>1 DEF Written, Busy, Transferring

\* One worker moves and writes at most what it transfers.
LEMMA WrittenOthers ==
    ASSUME TypeOK, QInv, Written, NEW w \in Workers,
           \A v \in Workers \ {w} : wpc'[v] = wpc[v] /\ work'[v] = work[v],
           \A j \in JobIds : job'[j].tail = job[j].tail,
           \/ store' = store
           \/ /\ wpc[w] \in Transferring
              /\ \E t \in Cargo(w), f \in File : store' = [store EXCEPT ![t] = f],
           Written!(w)'
    PROVE  Written'
<1>. SUFFICES ASSUME NEW v \in Workers \ {w} PROVE Written!(v)'
  BY DEF Written
<1>1. CASE store' = store
  BY <1>1, WrittenKept
<1>2. CASE /\ wpc[w] \in Transferring
           /\ \E t \in Cargo(w), f \in File : store' = [store EXCEPT ![t] = f]
  <2>1. PICK t \in Cargo(w), f \in File : store' = [store EXCEPT ![t] = f]
    BY <1>2
  <2>2. \A u \in Tails : u # t => store'[u] = store[u]
    BY <2>1 DEF TypeOK
  <2>3. /\ wpc[v] \in Transferring => t \notin Cargo(v)
        /\ wpc[v] = "complete" /\ work[v].ok => TailOf(v) # t
    BY <1>2, <2>1, Apart
  <2>4. wpc[v] \in Busy => Cargo(v) \subseteq Tails /\ TailOf(v) \in Tails
    BY HeldFacts DEF Cargo
  <2>. QED BY <2>2, <2>3, <2>4, WrittenKept DEF Busy
<1>. QED BY <1>1, <1>2

\* The steps of a transfer.
LEMMA WTransfer ==
    ASSUME TypeOK, QInv, Written, NEW w \in Workers,
           \/ HttpBody(w) \/ HttpBadSize(w) \/ HttpMissing(w) \/ HttpError(w)
           \/ StoreOpen(w) \/ StoreWrite(w) \/ BundleBody(w) \/ BundleBad(w)
    PROVE  Written'
<1>1. work \in [Workers -> Work] /\ wpc \in [Workers -> WorkerPc] /\ work[w] \in Work
  BY DEF TypeOK
<1>2. /\ job' = job /\ active' = active
      /\ \A v \in Workers \ {w} : wpc'[v] = wpc[v] /\ work'[v] = work[v]
  BY <1>1 DEF HttpBody, HttpBadSize, HttpMissing, HttpError, StoreOpen, StoreWrite,
              BundleBody, BundleBad, Transferred, queue
<1>3. ASSUME work'[w].job = work[w].job, work'[w].slot = work[w].slot
      PROVE  TailOf(w)' = TailOf(w) /\ Cargo(w)' = Cargo(w)
  BY <1>2, <1>3 DEF TailOf, Cargo
<1>4. /\ wpc[w] \in {"http", "open", "write", "ride"}
      /\ wpc[w] \in Transferring /\ ~work[w].ok
  BY DEF HttpBody, HttpBadSize, HttpMissing, HttpError, StoreOpen, StoreWrite,
         BundleBody, BundleBad, Transferring, QInv, Hands
<1>5. /\ wpc[w] = "http" => work[w].slot = {} /\ TailOf(w) \in Cargo(w)
      /\ wpc[w] = "ride" => work[w].slot # {}
      /\ wpc[w] \in {"open", "write"} =>
           /\ work[w].todo \subseteq Cargo(w)
           /\ \A t \in Cargo(w) \ work[w].todo : store[t] = "whole"
  BY DEF QInv, Hands, Written, Cargo
<1>. SUFFICES /\ \/ store' = store
                 \/ \E t \in Cargo(w), f \in File : store' = [store EXCEPT ![t] = f]
              /\ Written!(w)'
  BY <1>2, <1>4, WrittenOthers
<1>6. CASE HttpBody(w)
  <2>1. /\ wpc'[w] = "open" /\ store' = store
        /\ work'[w] = [work[w] EXCEPT !.todo = {TailOf(w)}] /\ wpc[w] = "http"
    BY <1>1, <1>6 DEF HttpBody, Transferred
  <2>2. /\ work'[w].job = work[w].job /\ work'[w].slot = work[w].slot
        /\ work'[w].todo = {TailOf(w)} /\ work'[w].ok = work[w].ok
    BY <1>1, <2>1 DEF Work
  <2>. QED BY <1>3, <1>5, <2>1, <2>2 DEF Cargo
<1>7. CASE HttpBadSize(w) \/ HttpMissing(w)
  <2>1. wpc'[w] = "complete" /\ work'[w] = work[w] /\ wpc[w] = "http"
    BY <1>1, <1>7 DEF HttpBadSize, HttpMissing, Transferred
  <2>2. store' = store \/ store' = [store EXCEPT ![TailOf(w)] = "absent"]
    BY <1>7 DEF HttpBadSize, HttpMissing
  <2>. QED BY <1>4, <1>5, <2>1, <2>2 DEF File
<1>8. CASE HttpError(w)
  <2>1. /\ wpc'[w] \in {"http", "complete"} /\ store' = store
        /\ work'[w] = [work[w] EXCEPT !.tries = work[w].tries + 1]
    BY <1>1, <1>8 DEF HttpError, Transferred
  <2>2. work'[w].ok = work[w].ok
    BY <1>1, <2>1 DEF Work
  <2>. QED BY <1>4, <2>1, <2>2
<1>9. CASE StoreOpen(w)
  <2>1. wpc[w] = "open" /\ work' = work
    BY <1>9 DEF StoreOpen
  <2>2. CASE wpc'[w] = AfterStore(w) /\ store' = store
    BY <1>4, <2>1, <2>2 DEF AfterStore
  <2>3. CASE /\ wpc'[w] = "write"
             /\ \E t \in Tails : IsNext(w, t) /\ store' = [store EXCEPT ![t] = "partial"]
    <3>1. PICK t \in Tails : IsNext(w, t) /\ store' = [store EXCEPT ![t] = "partial"]
      BY <2>3
    <3>2. t \in work[w].todo /\ t \in Cargo(w)
      BY <1>5, <2>1, <3>1 DEF IsNext
    <3>3. \A u \in Cargo(w) \ work[w].todo : store'[u] = "whole"
      <4>1. Cargo(w) \subseteq Tails
        BY <1>4, HeldFacts DEF Cargo, Busy
      <4>. QED BY <1>5, <2>1, <3>1, <3>2, <4>1 DEF TypeOK
    <3>. QED BY <1>3, <1>4, <1>5, <2>1, <2>3, <3>1, <3>2, <3>3 DEF File
  <2>. QED BY <1>1, <1>9, <2>2, <2>3 DEF StoreOpen, Transferred
<1>10. CASE StoreWrite(w)
  <2>1. wpc[w] = "write"
    BY <1>10 DEF StoreWrite
  <2>2. CASE wpc'[w] = AfterStore(w) /\ UNCHANGED <<store, work>>
    BY <1>4, <2>1, <2>2 DEF AfterStore
  <2>3. CASE StoreWrite(w)!2!1
    <3>1. PICK t \in Tails : StoreWrite(w)!2!1!(t)
      BY <2>3
    <3>. DEFINE left == work[w].todo \ {t}
    <3>2. /\ work'[w] = [work[w] EXCEPT !.todo = left, !.ok = AllWritten(left)]
          /\ wpc'[w] = IF left = {} THEN AfterStore(w) ELSE "open"
      BY <1>1, <3>1 DEF Transferred
    <3>3. /\ work'[w].job = work[w].job /\ work'[w].slot = work[w].slot
          /\ work'[w].todo = left /\ work'[w].ok = (left = {})
      BY <1>1, <3>2 DEF Work, AllWritten
    <3>4. t \in work[w].todo /\ t \in Cargo(w) /\ Cargo(w) \subseteq Tails
      BY <1>4, <1>5, <2>1, <3>1, HeldFacts DEF IsNext, Cargo, Busy
    <3>5. \A u \in Cargo(w) \ left : store'[u] = "whole"
      BY <1>5, <2>1, <3>1, <3>4 DEF TypeOK
    <3>6. TailOf(w)' = TailOf(w) /\ Cargo(w)' = Cargo(w)
      BY <1>3, <3>3
    <3>7. wpc'[w] = "complete" => work[w].slot = {} /\ left = {}
      BY <3>2 DEF AfterStore
    <3>8. left \subseteq Cargo(w)
      BY <1>5, <2>1
    <3>9. wpc'[w] = "settle" => left = {}
      BY <3>2
    <3>10. wpc'[w] = "complete" => TailOf(w) \in Cargo(w)
      BY <3>7 DEF Cargo
    <3>11. \E u \in Cargo(w), f \in File : store' = [store EXCEPT ![u] = f]
      BY <3>1, <3>4 DEF File
    <3>. HIDE DEF left
    <3>. QED BY <3>3, <3>5, <3>6, <3>7, <3>8, <3>9, <3>10, <3>11
  <2>. QED BY <1>1, <1>10, <2>2, <2>3 DEF StoreWrite, Transferred
<1>11. CASE BundleBody(w)
  <2>1. /\ wpc'[w] = "open" /\ store' = store /\ wpc[w] = "ride"
        /\ work'[w] = [work[w] EXCEPT !.todo = work[w].slot]
    BY <1>1, <1>11 DEF BundleBody, Transferred
  <2>2. /\ work'[w].job = work[w].job /\ work'[w].slot = work[w].slot
        /\ work'[w].todo = work[w].slot /\ work'[w].ok = work[w].ok
    BY <1>1, <2>1 DEF Work
  <2>. QED BY <1>3, <1>5, <2>1, <2>2 DEF Cargo
<1>12. CASE BundleBad(w)
  <2>1. PICK refused \in BOOLEAN : work' = [work EXCEPT ![w].refused = refused]
    BY <1>12 DEF BundleBad
  <2>2. wpc'[w] = "settle" /\ store' = store
    BY <1>1, <1>12 DEF BundleBad, Transferred
  <2>3. work'[w].ok = work[w].ok
    BY <1>1, <2>1 DEF Work
  <2>. QED BY <1>4, <2>2, <2>3
<1>. QED BY <1>6, <1>7, <1>8, <1>9, <1>10, <1>11, <1>12

(***************************************************************************)
(* What a step may do to a job.                                            *)
(***************************************************************************)
JobStep(j) ==
    /\ job'[j].tail = job[j].tail
    /\ Settled(j) => job'[j].state = job[j].state
    /\ job'[j].state = "done" /\ job[j].state # "done" => store[job[j].tail] = "whole"

LEMMA StateKept ==
    ASSUME NEW j, job'[j].tail = job[j].tail, job'[j].state = job[j].state
    PROVE  JobStep(j)
  BY DEF JobStep

LEMMA WorkerJobStep ==
    ASSUME IInv, NEW w \in Workers, Worker(w), NEW j \in JobIds PROVE JobStep(j)
<1>1. /\ TypeOK /\ QInv /\ Written /\ job[j] \in Job /\ job \in [JobIds -> Job]
      /\ Settled(j) => job[j].copy = "none"
  BY DEF IInv, TypeOK, QInv, SettledGone
<1>2. CASE TakeBundle(w)
  <2>1. PICK rider \in Members :
          job' = [i \in JobIds |-> IF i \in Members THEN Folded(i, rider) ELSE job[i]]
    BY <1>2 DEF TakeBundle
  <2>2. CASE j \in Members
    <3>1. job[j].copy = "queued"
      BY <2>2 DEF Members, Foldable
    <3>. QED BY <1>1, <2>1, <2>2, <3>1, FoldedFields DEF JobStep
  <2>3. CASE j \notin Members
    BY <2>1, <2>3, StateKept
  <2>. QED BY <2>2, <2>3
<1>3. CASE TakeJob(w)
  <2>1. PICK i \in JobIds : job' = [job EXCEPT ![i].copy = "running"]
    BY <1>3 DEF TakeJob
  <2>2. job'[j].tail = job[j].tail /\ job'[j].state = job[j].state
    BY <1>1, <2>1 DEF Job
  <2>. QED BY <2>2, StateKept
<1>4. CASE \/ HttpBody(w) \/ HttpBadSize(w) \/ HttpMissing(w) \/ HttpError(w)
           \/ StoreOpen(w) \/ StoreWrite(w) \/ BundleBody(w) \/ BundleBad(w) \/ Exit(w)
  <2>1. job' = job
    BY <1>4 DEF HttpBody, HttpBadSize, HttpMissing, HttpError, StoreOpen, StoreWrite,
                BundleBody, BundleBad, Exit, Transferred, queue
  <2>. QED BY <2>1, StateKept
<1>5. CASE BundleSettle(w)
  <2>. DEFINE mine == {active[t] : t \in work[w].slot} \ {0}
              waiters == {i \in mine : job[i].wait}
  <2>1. SettleShape(w, mine)
    BY <1>1, <1>5, SettleFacts
  <2>2. j \in mine => job[j].copy = "running"
    BY <2>1 DEF SettleShape
  <2>3. CASE work[w].ok
    <3>1. job' = [i \in JobIds |-> IF i \in waiters THEN Delivered(i) ELSE job[i]]
      BY <1>5, <2>3 DEF BundleSettle
    <3>2. CASE j \in waiters
      <4>1. job[j].tail \in work[w].slot /\ wpc[w] = "settle" /\ work[w].slot # {}
        BY <2>1, <3>2 DEF SettleShape
      <4>2. store[job[j].tail] = "whole"
        BY <1>1, <2>3, <4>1 DEF Written, Cargo
      <4>. QED BY <1>1, <2>2, <3>1, <3>2, <4>2, DeliveredFields DEF JobStep
    <3>3. CASE j \notin waiters
      BY <3>1, <3>3, StateKept
    <3>. QED BY <3>2, <3>3
  <2>4. CASE ~work[w].ok
    <3>1. job' = [i \in JobIds |-> IF i \in mine THEN Requeue(i) ELSE job[i]]
      BY <1>5, <2>4 DEF BundleSettle
    <3>2. CASE j \in mine
      BY <1>1, <2>2, <3>1, <3>2, RequeueFields DEF JobStep
    <3>3. CASE j \notin mine
      BY <3>1, <3>3, StateKept
    <3>. QED BY <3>2, <3>3
  <2>. QED BY <2>3, <2>4
<1>6. CASE Complete(w)
  <2>1. CompleteShape(w, work[w].job)
    BY <1>1, <1>6, CompleteFacts
  <2>2. CASE j # work[w].job
    <3>1. job'[j] = job[j]
      BY <1>1, <1>6, <2>2 DEF Complete
    <3>. QED BY <3>1, StateKept
  <2>3. CASE j = work[w].job /\ job[j].requeued
    <3>1. job' = [job EXCEPT ![j] = Released(j)]
      BY <1>6, <2>3 DEF Complete
    <3>. QED BY <1>1, <3>1, ReleasedFields, StateKept
  <2>4. CASE j = work[w].job /\ ~job[j].requeued
    <3>1. job' = [job EXCEPT ![j] = Finished(j, work[w].ok)]
      BY <1>6, <2>4 DEF Complete
    <3>2. work[w].ok \in BOOLEAN
      BY <1>1 DEF TypeOK, Work
    <3>3. work[w].ok => store[job[j].tail] = "whole"
      BY <1>1, <2>1, <2>4 DEF Written, CompleteShape, TailOf
    <3>4. ~Settled(j)
      BY <1>1, <2>1, <2>4 DEF CompleteShape
    <3>. QED BY <1>1, <3>1, <3>2, <3>3, <3>4, FinishedFields DEF JobStep
  <2>. QED BY <2>2, <2>3, <2>4
<1>. QED BY <1>2, <1>3, <1>4, <1>5, <1>6 DEF Worker

LEMMA ClientJobStep ==
    ASSUME IInv, NEW c \in Clients, Client(c), NEW j \in JobIds PROVE JobStep(j)
<1>1. TypeOK
  BY DEF IInv
<1>2. CASE UNCHANGED queue
  <2>1. job' = job
    BY <1>2 DEF queue
  <2>. QED BY <2>1, StateKept
<1>3. ASSUME NEW S \in SUBSET Tails, NEW prio \in Prios, Enqueue(S, prio) PROVE JobStep(j)
  BY <1>1, <1>3, EnqueueKeeps, StateKept
<1>4. CASE Submit(c)
  <2>1. call[c].tails \in SUBSET Tails /\ call[c].prio \in Prios
    BY <1>1 DEF TypeOK, Call
  <2>. QED BY <1>2, <1>3, <1>4, <2>1 DEF Submit
<1>5. CASE Batch(c)
  <2>1. PICK r \in Requests : Batch(c)!2!(r)
    BY <1>5 DEF Batch
  <2>2. Missing(r.tails) \in SUBSET Tails /\ r.prio \in Prios
    BY RequestFields DEF Missing
  <2>. QED BY <1>2, <1>3, <2>1, <2>2
<1>6. CASE \/ Check(c) \/ Wake(c) \/ Timeout(c) \/ BatchPoll(c) \/ BatchStop(c)
           \/ Return(c)
  BY <1>2, <1>6 DEF Check, Wake, Timeout, BatchPoll, BatchStop, Return, Told
<1>. QED BY <1>4, <1>5, <1>6 DEF Client

LEMMA JobSteps == ASSUME IInv, [Next]_vars, NEW j \in JobIds PROVE JobStep(j)
<1>1. CASE Start \/ SetIngame \/ StopSignal \/ SetBundle \/ UNCHANGED vars
  <2>1. job' = job
    BY <1>1 DEF Start, SetIngame, StopSignal, SetBundle, vars, queue
  <2>. QED BY <2>1, StateKept
<1>2. CASE StopJoin
  <2>1. job'[j] = [job[j] EXCEPT !.copy = "none"] /\ job[j] \in Job
    BY <1>2 DEF StopJoin, IInv, TypeOK
  <2>2. job'[j].tail = job[j].tail /\ job'[j].state = job[j].state
    BY <2>1 DEF Job
  <2>. QED BY <2>2, StateKept
<1>. QED BY <1>1, <1>2, WorkerJobStep, ClientJobStep DEF Next

(***************************************************************************)
(* The inductive invariant.                                                *)
(***************************************************************************)
LEMMA WStep == IInv /\ [Next]_vars => Written'
<1>. SUFFICES ASSUME IInv, [Next]_vars PROVE Written'
  OBVIOUS
<1>1. TypeOK /\ QInv /\ Written /\ \A j \in JobIds : job'[j].tail = job[j].tail
  BY JobSteps DEF IInv, JobStep
<1>2. CASE UNCHANGED <<store, worker>>
  BY <1>1, <1>2, WrittenKept DEF Written, worker
<1>3. CASE Start \/ StopJoin
  <2>1. \A v \in Workers : wpc'[v] \in {"idle", "off"}
    BY <1>3 DEF Start, StopJoin, worker
  <2>. QED BY <2>1 DEF Written
<1>4. CASE SetIngame \/ StopSignal \/ SetBundle \/ UNCHANGED vars
  BY <1>2, <1>4 DEF SetIngame, StopSignal, SetBundle, vars
<1>5. ASSUME NEW c \in Clients, Client(c) PROVE Written'
  <2>1. UNCHANGED <<store, worker>>
    BY <1>5 DEF Client, Check, Submit, Batch, Wake, Timeout, BatchPoll, BatchStop,
                Return, Told, ClientStep
  <2>. QED BY <1>2, <2>1
<1>6. ASSUME NEW w \in Workers, Worker(w) PROVE Written'
  <2>1. wpc \in [Workers -> WorkerPc] /\ work \in [Workers -> Work]
    BY <1>1 DEF TypeOK
  <2>2. CASE TakeBundle(w) \/ TakeJob(w) \/ Exit(w)
    <3>1. /\ store' = store /\ wpc'[w] \in {"ride", "http", "off"}
          /\ \A v \in Workers \ {w} : wpc'[v] = wpc[v] /\ work'[v] = work[v]
      BY <2>1, <2>2 DEF TakeBundle, TakeJob, Exit
    <3>. QED BY <1>1, <3>1, WrittenOthers
  <2>3. CASE BundleSettle(w)
    <3>1. /\ store' = store /\ work' = work /\ wpc[w] = "settle" /\ wpc'[w] = "complete"
          /\ \A v \in Workers \ {w} : wpc'[v] = wpc[v]
      BY <2>1, <2>3 DEF BundleSettle
    <3>2. work[w].slot # {} /\ TailOf(w) \in Cargo(w) /\ TailOf(w)' = TailOf(w)
      <4>1. wpc[w] \in Busy /\ wpc[w] \in Transferring /\ work[w].slot # {}
        BY <1>1, <3>1 DEF Busy, Transferring, QInv, Hands
      <4>. QED BY <1>1, <3>1, <4>1, HeldFacts DEF Cargo, TailOf
    <3>3. Written!(w)'
      BY <1>1, <3>1, <3>2 DEF Written
    <3>. QED BY <1>1, <3>1, <3>3, WrittenOthers
  <2>4. CASE Complete(w)
    <3>1. /\ store' = store /\ wpc'[w] = "idle"
          /\ \A v \in Workers \ {w} : wpc'[v] = wpc[v] /\ work'[v] = work[v]
      BY <2>1, <2>4 DEF Complete
    <3>. QED BY <1>1, <3>1, WrittenOthers
  <2>. QED BY <1>1, <1>6, <2>2, <2>3, <2>4, WTransfer DEF Worker
<1>. QED BY <1>3, <1>4, <1>5, <1>6 DEF Next

LEMMA InvInit == Init => IInv
<1>1. Init => Written
  BY DEF Init, Written
<1>. QED BY <1>1, TypeInit, QInit DEF IInv

LEMMA InvStep == IInv /\ [Next]_vars => IInv'
<1>1. IInv => TypeOK /\ QInv /\ Hands /\ ActiveMatchesQueue
  BY DEF IInv, QInv
<1>. QED BY <1>1, TypeStep, QStep, WStep DEF IInv

\* The inductive invariant holds in every reachable state.
THEOREM Invariance == Spec => []IInv
  BY InvInit, InvStep, PTL DEF Spec
=============================================================================
