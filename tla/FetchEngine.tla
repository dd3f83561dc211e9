---------------------------- MODULE FetchEngine ----------------------------
(***************************************************************************)
(* The download engine of the streaming VFS (xuocore/vfs_fetch.cpp): a     *)
(* pool of worker threads drains one priority queue of blob requests into  *)
(* the blob store, for client threads that wait on their requests.         *)
(*                                                                         *)
(* One action is one critical section of s_mutex, or one effect outside it *)
(* (an HTTP attempt, opening a store file, finishing it).  The workers'    *)
(* condition variables are always notified with notify_all, so a wait is   *)
(* its predicate used as a guard.                                          *)
(*                                                                         *)
(* This is the native build: the stream-file lane and the parked-instead-  *)
(* of-joined workers of the web build (XUO_EMSC) are compiled out of it.   *)
(***************************************************************************)
EXTENDS Integers, FiniteSets, FiniteSetsExt

CONSTANTS
    NumWorkers,     \* vfs_fetch_params.workers
    Clients,        \* threads that call the request functions
    Tails,          \* resource tails; integers, so that a batch has an order
    Expected,       \* [Tails -> Nat] planned size, 0 when it is not known
    Bundleable,     \* file-repo tails that carry the bundle's member_prefix
    MaxMembers,     \* vfs_fetch_bundle_params.max_members
    MaxBundleBytes, \* vfs_fetch_bundle_params.max_bytes
    RefusalMax,     \* BUNDLE_REFUSAL_MAX
    Retries,        \* vfs_fetch_params.retries
    MaxBuffered,    \* vfs_fetch_params.max_buffered, in the unit of Expected
    SizeGuess,      \* VFS_FETCH_SIZE_GUESS
    Requests,       \* the calls a client may make, a subset of Request
    Bundling,       \* whether vfs_fetch_set_bundle is ever called
    MaxJobs,        \* bound: requests ever enqueued (s_seq)
    MaxStarts       \* bound: calls of vfs_fetch_start

Demand == 0         \* VFS_FETCH_PRIO_DEMAND
Sweep  == 3         \* VFS_FETCH_PRIO_SWEEP
Prios  == Demand..Sweep

\* A call of the request functions: one blob or a batch, waited for (perhaps
\* with a timeout), or queued and forgotten.
Kinds == {"blob", "timed", "batch", "queue"}
Request == [kind: Kinds, tails: SUBSET Tails, prio: Prios]

ASSUME EngineAssumption ==
    /\ NumWorkers \in Nat \ {0}
    /\ Tails \subseteq Int
    /\ IsFiniteSet(Tails)
    /\ Expected \in [Tails -> Nat]
    /\ Bundleable \subseteq Tails
    /\ MaxMembers \in Nat /\ MaxBundleBytes \in Nat
    /\ RefusalMax \in Nat \ {0} /\ Retries \in Nat \ {0}
    /\ MaxBuffered \in Nat \ {0} /\ SizeGuess \in Nat \ {0}
    /\ Requests \subseteq Request
    /\ \A r \in Requests : r.kind # "batch" => \E t \in Tails : r.tails = {t}
    /\ Bundling \in BOOLEAN
    /\ MaxJobs \in Nat /\ MaxStarts \in Nat \ {0}

Workers == 0..(NumWorkers - 1)

VARIABLES
    running,    \* s_running
    stop,       \* s_stop
    starts,     \* how often vfs_fetch_start succeeded
    target,     \* s_active_target: workers at or above it park
    sweepCap,   \* s_sweep_cap
    sweepRunning,   \* s_sweep_running
    buffered,   \* s_buffered
    inflight,   \* s_stats.inflight
    bundling,   \* s_bundle.url is set
    refusals,   \* s_bundle_refusals
    seq,        \* s_seq
    job,        \* the shared jobs, numbered by their seq
    active,     \* s_active: tail -> the job that stands for it, 0 if none
    store,      \* what a look at the tail's store file finds
    wpc,        \* where each worker is
    work,       \* what each worker has in hand
    cpc,        \* where each client is
    call        \* the call each client is making

pool == <<running, stop, starts, target, sweepCap>>
counters == <<sweepRunning, buffered, inflight>>
bundle == <<bundling, refusals>>
queue == <<seq, job, active>>
worker == <<wpc, work>>
client == <<cpc, call>>
vars == <<pool, counters, bundle, queue, store, worker, client>>

(***************************************************************************)
(* A job.  "state" is the shared job's; "copy" is the state of its node in *)
(* s_queue, "none" when there is no node.  The fields both carry           *)
(* (priority, bundle_spent) are only ever changed together.                *)
(***************************************************************************)
Job == [tail: Tails, prio: Prios,
        state: {"queued", "running", "done", "failed"},
        copy: {"none", "queued", "running"},
        wait: BOOLEAN,      \* bundle_wait: settled by the riding worker
        spent: BOOLEAN,     \* bundle_spent: its bundle failed once
        ride: BOOLEAN,      \* bundled_ride: owns the gather's lane slot
        requeued: BOOLEAN]  \* bundle_requeued: back in the queue mid-ride

JobIds == 1..seq

\* What a worker has in hand: its job, the bundle slot's tails if it rides a
\* bundle, the store files still to write, the attempts made, how the
\* transfer went, and whether the server refused to bundle.
Work == [job: 0..MaxJobs, slot: SUBSET Tails, todo: SUBSET Tails,
         tries: 0..Retries, ok: BOOLEAN, refused: BOOLEAN]

\* A worker sets out with job j, on the bundle slot's tails if it rides one.
InHand(j, slot) == [job |-> j, slot |-> slot, todo |-> {}, tries |-> 0,
                    ok |-> FALSE, refused |-> FALSE]
NoWork == InHand(0, {})

\* The call a client is making: its request, the jobs it waits for and, for a
\* batch, those it has seen settle.
Call == [kind: Kinds, tails: SUBSET Tails, prio: Prios,
         jobs: SUBSET (1..MaxJobs), seen: SUBSET (1..MaxJobs)]

NoCall == [kind |-> "queue", tails |-> {}, prio |-> Demand,
           jobs |-> {}, seen |-> {}]

File == {"absent", "partial", "whole"}
WorkerPc == {"off", "idle", "http", "open", "write", "ride", "settle", "complete"}
ClientPc == {"idle", "checked", "waiting", "ok", "fail"}

TypeOK ==
    /\ running \in BOOLEAN /\ stop \in BOOLEAN
    /\ starts \in 0..MaxStarts
    /\ target \in 0..NumWorkers /\ sweepCap \in Nat
    /\ sweepRunning \in Int /\ buffered \in Int /\ inflight \in Int
    /\ bundling \in BOOLEAN /\ refusals \in Nat
    /\ seq \in 0..MaxJobs
    /\ job \in [JobIds -> Job]
    /\ active \in [Tails -> 0..seq]
    /\ store \in [Tails -> File]
    /\ wpc \in [Workers -> WorkerPc]
    /\ work \in [Workers -> Work]
    /\ cpc \in [Clients -> ClientPc]
    /\ call \in [Clients -> Call]

-----------------------------------------------------------------------------

Init ==
    /\ running = FALSE /\ stop = FALSE /\ starts = 0
    /\ target = 0 /\ sweepCap = 0
    /\ sweepRunning = 0 /\ buffered = 0 /\ inflight = 0
    /\ bundling = FALSE /\ refusals = 0
    /\ seq = 0 /\ job = [j \in {} |-> 0] /\ active = [t \in Tails |-> 0]
    /\ store = [t \in Tails |-> "absent"]
    /\ wpc = [w \in Workers |-> "off"] /\ work = [w \in Workers |-> NoWork]
    /\ cpc = [c \in Clients |-> "idle"] /\ call = [c \in Clients |-> NoCall]

-----------------------------------------------------------------------------
(***************************************************************************)
(* The worker: waiting for a job and taking it.                            *)
(***************************************************************************)

\* What admission costs the backpressure budget.
Size(t) == IF Expected[t] = 0 THEN SizeGuess ELSE Expected[t]

\* (mutation: the queue node's running mark is not looked at)
RunnableTwice(j) ==
    /\ job[j].copy # "none"
    /\ job[j].prio >= Sweep => sweepRunning < sweepCap

\* A job a worker may start: queued and, for a sweep, inside the sweep lane.
Runnable(j) ==
    /\ job[j].copy = "queued"
    /\ job[j].prio >= Sweep => sweepRunning < sweepCap

\* The wait predicate: not parked, inside the budget, something to run.
MayTake(w) ==
    /\ wpc[w] = "idle"
    /\ ~stop
    /\ w < target
    /\ buffered < MaxBuffered
    /\ \E j \in JobIds : Runnable(j)

\* What a bundle may fold in.  The lane and the priorities are not asked.
Foldable ==
    {j \in JobIds : /\ job[j].copy = "queued"
                    /\ job[j].tail \in Bundleable
                    /\ Expected[job[j].tail] # 0
                    /\ ~job[j].spent}

Planned(S) == MapThenSumSet(LAMBDA j : Expected[job[j].tail], S)

\* The longest run of them, in queue order, within the bundle's limits; the
\* first is taken whatever its size.
Members ==
    {j \in Foldable :
        LET upTo == {i \in Foldable : i <= j} IN
        /\ Cardinality(upTo) <= MaxMembers
        /\ \/ upTo = {j}
           \/ Planned(upTo) <= MaxBundleBytes}

Gathers == /\ bundling /\ refusals < RefusalMax
           /\ Cardinality(Members) >= 2

Folded(j, rider) ==
    [job[j] EXCEPT !.state = "running", !.copy = "running",
                   !.wait = (j # rider), !.ride = (j = rider)]

\* One worker rides the bundle on its first member's job; it takes a lane
\* slot whether or not one is free, and is charged for its own job only.
TakeBundle(w) ==
    /\ MayTake(w) /\ Gathers
    /\ \E rider \in Members :
       /\ \A j \in Members : rider <= j
       /\ job' = [j \in JobIds |->
                    IF j \in Members
                    THEN Folded(j, rider) ELSE job[j]]
       /\ work' = [work EXCEPT ![w] = InHand(rider, {job[j].tail : j \in Members})]
       /\ buffered' = buffered + Size(job[rider].tail)
    /\ wpc' = [wpc EXCEPT ![w] = "ride"]
    /\ sweepRunning' = sweepRunning + 1
    /\ UNCHANGED <<pool, inflight, bundle, seq, active, store, client>>

\* The highest-precedence runnable job: priority, then age.
Best(j) ==
    /\ Runnable(j)
    /\ \A i \in JobIds : Runnable(i) =>
          \/ job[j].prio < job[i].prio
          \/ job[j].prio = job[i].prio /\ j <= i

TakeJob(w) ==
    /\ MayTake(w) /\ ~Gathers
    /\ \E j \in JobIds :
       /\ Best(j)
       /\ job' = [job EXCEPT ![j].copy = "running"]
       /\ work' = [work EXCEPT ![w] = InHand(active[job[j].tail], {})]
       /\ buffered' = buffered + Size(job[j].tail)
       /\ sweepRunning' =
            IF job[j].prio >= Sweep THEN sweepRunning + 1 ELSE sweepRunning
    /\ wpc' = [wpc EXCEPT ![w] = "http"]
    /\ UNCHANGED <<pool, inflight, bundle, seq, active, store, client>>

\* vfs_fetch_stop wakes every waiting worker to leave its loop.
Exit(w) ==
    /\ wpc[w] = "idle" /\ stop
    /\ wpc' = [wpc EXCEPT ![w] = "off"]
    /\ UNCHANGED <<pool, counters, bundle, queue, store, work, client>>

-----------------------------------------------------------------------------
(***************************************************************************)
(* The worker: a plain transfer, outside the lock.                         *)
(***************************************************************************)
TailOf(w) == job[work[w].job].tail

Transferred(w, pc) ==
    /\ wpc' = [wpc EXCEPT ![w] = pc]
    /\ UNCHANGED <<pool, counters, bundle, queue, client>>

\* A body of the planned size (or of any size when none was planned).
HttpBody(w) ==
    /\ wpc[w] = "http"
    /\ work' = [work EXCEPT ![w].todo = {TailOf(w)}]
    /\ Transferred(w, "open") /\ UNCHANGED store

\* A body of another size: whatever the store holds is purged.
HttpBadSize(w) ==
    /\ wpc[w] = "http" /\ Expected[TailOf(w)] # 0
    /\ store' = [store EXCEPT ![TailOf(w)] = "absent"]
    /\ Transferred(w, "complete") /\ UNCHANGED work

\* 404 (or no repository to ask): definitive.
HttpMissing(w) ==
    /\ wpc[w] = "http"
    /\ Transferred(w, "complete") /\ UNCHANGED <<store, work>>

\* (mutation: one attempt too many)
RetryOnce(tries) == tries <= Retries

\* Whether a transfer may be tried again.
MayRetry(tries) == tries < Retries

\* A transient error: try again until the attempts are used up.
HttpError(w) ==
    /\ wpc[w] = "http"
    /\ work' = [work EXCEPT ![w].tries = @ + 1]
    /\ Transferred(w, IF MayRetry(work[w].tries + 1) THEN "http" ELSE "complete")
    /\ UNCHANGED store

(***************************************************************************)
(* The worker: writing the store.  A file is opened for truncation and     *)
(* then filled, under its final name.                                      *)
(***************************************************************************)
\* The members are written in the bundle's order.
IsNext(w, t) == /\ t \in work[w].todo
                /\ \A u \in work[w].todo : active[t] <= active[u]

AfterStore(w) == IF work[w].slot = {} THEN "complete" ELSE "settle"

StoreOpen(w) ==
    /\ wpc[w] = "open"
    /\ \/ /\ \E t \in Tails : /\ IsNext(w, t)
                           /\ store' = [store EXCEPT ![t] = "partial"]
          /\ Transferred(w, "write")
       \/ /\ UNCHANGED store
          /\ Transferred(w, AfterStore(w))
    /\ UNCHANGED work

\* (mutation: one written member counts for the whole bundle)
AnyWritten(left) == TRUE

\* All writes of the transfer succeeded.
AllWritten(left) == left = {}

StoreWrite(w) ==
    /\ wpc[w] = "write"
    /\ \/ \E t \in Tails :
          LET left == work[w].todo \ {t} IN
          /\ IsNext(w, t)
          /\ store' = [store EXCEPT ![t] = "whole"]
          /\ work' = [work EXCEPT ![w].todo = left, ![w].ok = AllWritten(left)]
          /\ Transferred(w, IF left = {} THEN AfterStore(w) ELSE "open")
       \/ /\ Transferred(w, AfterStore(w))
          /\ UNCHANGED <<store, work>>

-----------------------------------------------------------------------------
(***************************************************************************)
(* The worker: a bundle transfer.                                          *)
(***************************************************************************)

\* Every member arrived and none is truncated.
BundleBody(w) ==
    /\ wpc[w] = "ride"
    /\ work' = [work EXCEPT ![w].todo = work[w].slot]
    /\ Transferred(w, "open") /\ UNCHANGED store

\* The transport or the server does not bundle, or it answered badly.
BundleBad(w) ==
    /\ wpc[w] = "ride"
    /\ \E refused \in BOOLEAN :
          work' = [work EXCEPT ![w].refused = refused]
    /\ Transferred(w, "settle") /\ UNCHANGED store

\* (mutation: the queue node keeps its running mark)
RequeueSharedOnly(j) ==
    [job[j] EXCEPT !.state = "queued", !.wait = FALSE, !.spent = TRUE,
                   !.requeued = ~job[j].wait]

\* Back to the queue after a failed bundle, never to be bundled again.  The
\* rider is flagged, for its worker has yet to complete.
Requeue(j) ==
    [job[j] EXCEPT !.state = "queued", !.wait = FALSE, !.spent = TRUE,
                   !.requeued = ~job[j].wait, !.copy = "queued"]

\* Done, off the queue.
Delivered(j) ==
    [job[j] EXCEPT !.state = "done", !.wait = FALSE, !.copy = "none"]

\* The waiting members are done once all are on disk; after a failure every
\* member, the rider included, goes back to the queue as a plain job.
BundleSettle(w) ==
    /\ wpc[w] = "settle"
    /\ LET refusal == ~work[w].ok /\ work[w].refused
           mine    == {active[t] : t \in work[w].slot} \ {0}
           waiters == {j \in mine : job[j].wait}
       IN
       /\ refusals' = IF work[w].ok THEN 0
                      ELSE IF refusal THEN refusals + 1 ELSE refusals
       /\ bundling' = (bundling /\ ~(refusal /\ refusals + 1 >= RefusalMax))
       /\ \/ /\ work[w].ok
             /\ inflight' = inflight - Cardinality(waiters)
             /\ job' = [j \in JobIds |->
                          IF j \in waiters THEN Delivered(j) ELSE job[j]]
             /\ active' = [t \in Tails |->
                             IF active[t] \in waiters THEN 0 ELSE active[t]]
          \/ /\ ~work[w].ok
             /\ job' = [j \in JobIds |->
                          IF j \in mine THEN Requeue(j) ELSE job[j]]
             /\ UNCHANGED <<inflight, active>>
    /\ wpc' = [wpc EXCEPT ![w] = "complete"]
    /\ UNCHANGED <<pool, sweepRunning, buffered, seq, store, work, client>>

(***************************************************************************)
(* The worker: completion, back under the lock.                            *)
(***************************************************************************)

\* The request is answered, unless its bundle put it back in the queue.
Answer(j) == inflight' = IF job[j].requeued THEN inflight ELSE inflight - 1

\* (mutation: a requeued ride keeps its share of the budget)
KeepBudget(j) ==
    buffered' = IF job[j].requeued THEN buffered
                ELSE buffered - Size(job[j].tail)

\* What admission took from the budget is given back, requeued or not.
FreeBudget(j) == buffered' = buffered - Size(job[j].tail)

\* So is the lane slot that a sweep or a bundle took.
FreeLane(j) ==
    sweepRunning' = IF job[j].ride \/ job[j].prio >= Sweep THEN sweepRunning - 1
                    ELSE sweepRunning

Released(j) == [job[j] EXCEPT !.requeued = FALSE, !.ride = FALSE]

Finished(j, ok) ==
    [job[j] EXCEPT !.ride = FALSE,
                   !.state = IF ok THEN "done" ELSE "failed",
                   !.copy = IF @ = "running" THEN "none" ELSE @]

\* A rider whose bundle was requeued leaves the job itself alone; any other
\* worker settles its job and takes it off the queue.
Complete(w) ==
    /\ wpc[w] = "complete"
    /\ LET j == work[w].job IN
       /\ Answer(j) /\ FreeBudget(j) /\ FreeLane(j)
       /\ \/ /\ job[j].requeued
             /\ job' = [job EXCEPT ![j] = Released(j)]
             /\ UNCHANGED active
          \/ /\ ~job[j].requeued
             /\ job' = [job EXCEPT ![j] = Finished(j, work[w].ok)]
             /\ active' = [active EXCEPT ![job[j].tail] = 0]
    /\ work' = [work EXCEPT ![w] = NoWork]
    /\ wpc' = [wpc EXCEPT ![w] = "idle"]
    /\ UNCHANGED <<pool, bundle, seq, store, client>>

Worker(w) ==
    \/ TakeBundle(w) \/ TakeJob(w) \/ Exit(w)
    \/ HttpBody(w) \/ HttpBadSize(w) \/ HttpMissing(w) \/ HttpError(w)
    \/ StoreOpen(w) \/ StoreWrite(w)
    \/ BundleBody(w) \/ BundleBad(w) \/ BundleSettle(w)
    \/ Complete(w)

-----------------------------------------------------------------------------
(***************************************************************************)
(* The requests.                                                           *)
(***************************************************************************)
\* (mutation: only success settles a request)
SettledDone(j) == job[j].state = "done"

\* What a waiting call looks for.
Settled(j) == job[j].state \in {"done", "failed"}

NewJob(t, prio) ==
    [tail |-> t, prio |-> prio, state |-> "queued", copy |-> "queued",
     wait |-> FALSE, spent |-> FALSE, ride |-> FALSE, requeued |-> FALSE]

\* (mutation: an equal request is not looked for)
FreshAll(S) == S

\* The tails nobody has asked for yet.
Fresh(S) == {t \in S : active[t] = 0}

\* An equal request in flight is joined, and promoted if it still waits in the
\* queue; any other tail gets a job of its own, in the order of the batch.
Enqueue(S, prio) ==
    LET fresh    == Fresh(S)
        last     == seq + Cardinality(fresh)
        new      == (seq + 1)..last
        joined   == {active[t] : t \in S \ fresh}
        promoted == {j \in joined : job[j].copy = "queued" /\ prio < job[j].prio}
    IN
    /\ last <= MaxJobs
    /\ seq' = last
    /\ \E tail \in [new -> fresh] :
       /\ \A t \in fresh : \E j \in new : tail[j] = t
       /\ \A i, j \in new : i < j => tail[i] < tail[j]
       /\ job' = [j \in 1..last |->
                    IF j \in new THEN NewJob(tail[j], prio)
                    ELSE IF j \in promoted THEN [job[j] EXCEPT !.prio = prio]
                    ELSE job[j]]
       /\ active' = [t \in Tails |-> IF t \in fresh
                                     THEN CHOOSE j \in new : tail[j] = t
                                     ELSE active[t]]
    /\ inflight' = inflight + Cardinality(fresh)

ClientStep(c, pc) ==
    /\ cpc' = [cpc EXCEPT ![c] = pc]
    /\ UNCHANGED <<pool, sweepRunning, buffered, bundle, store, worker>>

Missing(S) == {t \in S : store[t] = "absent"}

\* vfs_fetch_blob_to_store and vfs_fetch_queue_blob look for the store file
\* first, before they take the lock.
Check(c) ==
    /\ cpc[c] = "idle"
    /\ \E r \in Requests :
       /\ r.kind # "batch"
       /\ call' = [call EXCEPT ![c] = [NoCall EXCEPT !.kind = r.kind,
                                         !.tails = r.tails, !.prio = r.prio]]
       /\ ClientStep(c, IF Missing(r.tails) = {} THEN "ok" ELSE "checked")
    /\ UNCHANGED <<inflight, queue>>

\* ... and then enqueue under it.
Submit(c) ==
    /\ cpc[c] = "checked"
    /\ \/ /\ ~running
          /\ ClientStep(c, "fail")
          /\ UNCHANGED <<inflight, queue, call>>
       \/ /\ running
          /\ Enqueue(call[c].tails, call[c].prio)
          /\ call' = [call EXCEPT ![c].jobs = {active'[t] : t \in call[c].tails}]
          /\ ClientStep(c, IF call[c].kind = "queue" THEN "ok" ELSE "waiting")

\* vfs_fetch_batch does both under one lock, for the tails it misses.
Batch(c) ==
    /\ cpc[c] = "idle"
    /\ \E r \in Requests :
       /\ r.kind = "batch"
       /\ \/ /\ r.tails # {} /\ ~running
             /\ call' = [call EXCEPT ![c] = [NoCall EXCEPT !.kind = "batch",
                                                           !.tails = r.tails]]
             /\ ClientStep(c, "fail")
             /\ UNCHANGED <<inflight, queue>>
          \/ /\ running
             /\ Enqueue(Missing(r.tails), r.prio)
             /\ call' = [call EXCEPT ![c] =
                          [NoCall EXCEPT
                             !.kind = "batch", !.tails = r.tails, !.prio = r.prio,
                             !.jobs = {active'[t] : t \in Missing(r.tails)}]]
             /\ ClientStep(c, IF Missing(r.tails) = {} THEN "ok" ELSE "waiting")

Told(c, pc) ==
    /\ ClientStep(c, pc)
    /\ call' = [call EXCEPT ![c] = [NoCall EXCEPT !.kind = call[c].kind,
                                                  !.tails = call[c].tails]]
    /\ UNCHANGED <<inflight, queue>>

\* A blob request returns when its job settles or the engine stops.
Wake(c) ==
    /\ cpc[c] = "waiting" /\ call[c].kind # "batch"
    /\ \E j \in call[c].jobs :
       /\ Settled(j) \/ stop
       /\ Told(c, IF job[j].state = "done" THEN "ok" ELSE "fail")

Timeout(c) ==
    /\ cpc[c] = "waiting" /\ call[c].kind = "timed"
    /\ ~stop /\ \A j \in call[c].jobs : ~Settled(j)
    /\ Told(c, "fail")

\* No member that was seen to settle has failed.
BatchResult(seen) ==
    IF \A j \in seen : job[j].state = "done" THEN "ok" ELSE "fail"

\* A batch reports the jobs that have settled since it last looked, and
\* returns when it has seen them all.
BatchPoll(c) ==
    /\ cpc[c] = "waiting" /\ call[c].kind = "batch" /\ ~stop
    /\ LET seen == {j \in call[c].jobs : Settled(j)} IN
       /\ seen # call[c].seen
       /\ call' = [call EXCEPT ![c].seen = seen]
       /\ ClientStep(c, IF seen = call[c].jobs THEN BatchResult(seen)
                        ELSE "waiting")
    /\ UNCHANGED <<inflight, queue>>

\* On a stop it abandons the rest and answers for what it has seen.
BatchStop(c) ==
    /\ cpc[c] = "waiting" /\ call[c].kind = "batch" /\ stop
    /\ Told(c, BatchResult(call[c].seen))

\* The caller goes on.
Return(c) ==
    /\ cpc[c] \in {"ok", "fail"}
    /\ call' = [call EXCEPT ![c] = NoCall]
    /\ ClientStep(c, "idle")
    /\ UNCHANGED <<inflight, queue>>

Client(c) ==
    \/ Check(c) \/ Submit(c) \/ Batch(c)
    \/ Wake(c) \/ Timeout(c) \/ BatchPoll(c) \/ BatchStop(c)
    \/ Return(c)

-----------------------------------------------------------------------------
(***************************************************************************)
(* The pool.                                                               *)
(***************************************************************************)
\* (mutation: the lane is as wide as the pool)
CapAll(n) == n

\* The sweep lane of n workers.
CapFor(n) == IF n > 1 THEN n - 1 ELSE 1

\* vfs_fetch_start
Start ==
    /\ ~running /\ starts < MaxStarts
    /\ starts' = starts + 1
    /\ stop' = FALSE /\ running' = TRUE
    /\ target' = NumWorkers /\ sweepCap' = CapFor(NumWorkers)
    /\ sweepRunning' = 0
    /\ wpc' = [w \in Workers |-> "idle"]
    /\ UNCHANGED <<buffered, inflight, bundle, queue, store, work, client>>

\* In-game demotion: the last worker parks, the lane shrinks.
SetIngame ==
    /\ running /\ target > 1
    /\ target' = CapFor(NumWorkers) /\ sweepCap' = CapFor(CapFor(NumWorkers))
    /\ UNCHANGED <<running, stop, starts, counters, bundle, queue, store, worker,
                   client>>

\* vfs_fetch_stop signals the workers ...
StopSignal ==
    /\ running /\ ~stop
    /\ stop' = TRUE
    /\ UNCHANGED <<running, starts, target, sweepCap, counters, bundle, queue,
                   store, worker, client>>

\* ... joins them, and abandons what is queued.
StopJoin ==
    /\ running /\ stop
    /\ \A w \in Workers : wpc[w] = "off"
    /\ running' = FALSE
    /\ job' = [j \in JobIds |-> [job[j] EXCEPT !.copy = "none"]]
    /\ active' = [t \in Tails |-> 0]
    /\ UNCHANGED <<stop, starts, target, sweepCap, counters, bundle, seq, store,
                   worker, client>>

\* vfs_fetch_set_bundle and vfs_fetch_clear_bundle; the refusals stay counted.
SetBundle ==
    /\ Bundling
    /\ bundling' \in BOOLEAN /\ bundling' # bundling
    /\ UNCHANGED <<pool, counters, refusals, queue, store, worker, client>>

\* The jobs with a node in s_queue.
Live == {j \in JobIds : job[j].copy # "none"}

\* vfs_fetch_idle
Idle == ~running \/ (Live = {} /\ inflight = 0)

Next ==
    \/ \E w \in Workers : Worker(w)
    \/ \E c \in Clients : Client(c)
    \/ Start \/ SetIngame \/ StopSignal \/ StopJoin \/ SetBundle

Spec == Init /\ [][Next]_vars

\* Threads keep running: every worker and every waiting call is scheduled, and
\* the thread that signalled a stop goes on to join.  Nobody has to start or
\* stop the engine, demote it, or make a request, and a timeout may never fire.
Fairness ==
    /\ \A w \in Workers : WF_vars(Worker(w))
    /\ \A c \in Clients : WF_vars(Submit(c) \/ Wake(c) \/ BatchPoll(c) \/ BatchStop(c))
    /\ WF_vars(StopJoin)

FairSpec == Spec /\ Fairness

-----------------------------------------------------------------------------
(***************************************************************************)
(* Properties.                                                             *)
(***************************************************************************)
Holders == {w \in Workers : work[w].job # 0}

\* The tails a worker set out to transfer: one, or a bundle's.
Cargo(w) == IF work[w].slot = {} THEN {TailOf(w)} ELSE work[w].slot

\* The tails a worker is transferring: a rider's whole bundle until settled.
Transferring == {"http", "open", "write", "ride", "settle"}
Transfers(w) == IF wpc[w] \in Transferring THEN Cargo(w) ELSE {}

\* The dedup map and the queue agree: a tail stands for exactly the one job
\* that has a node in s_queue, so no request is lost and none is run twice.
ActiveMatchesQueue ==
    /\ \A t \in Tails : active[t] # 0 =>
          active[t] \in Live /\ job[active[t]].tail = t
    /\ \A j \in Live : active[job[j].tail] = j

\* Requests are "deduplicated by resource tail": no two workers ever transfer
\* the same tail at once, whether alone or as a bundle member.
OneTransferPerTail ==
    \A v, w \in Workers : v # w => Transfers(v) \cap Transfers(w) = {}

\* A running mark always has a worker behind it: the job is in a worker's
\* hands, or waits for the one rider that still has to settle it.
RunningHasOwner ==
    \A j \in JobIds : job[j].copy = "running" =>
        \/ \E w \in Workers : work[w].job = j
        \/ job[j].wait /\ \E w \in Workers : job[j].tail \in Transfers(w)

\* The backpressure account is what the workers have in hand, so it can
\* neither underflow nor leak the budget away.
Charge == [w \in Holders |-> Size(TailOf(w))]
BufferedExact == buffered = MapThenSumSet(LAMBDA w : Charge[w], Holders)

\* Within one session the request account is the queue's length: every request
\* is settled exactly once, by its worker or by the rider of its bundle.
InflightExact == running /\ starts = 1 => inflight = Cardinality(Live)

\* The lane account returns to zero when nobody works, and is never negative.
LaneDrains ==
    /\ sweepRunning >= 0
    /\ Holders = {} => sweepRunning = 0

\* Idle is not reported while a worker still transfers or a job is unsettled.
IdleHonest == running /\ Idle => Holders = {} /\ \A j \in JobIds : Settled(j)

\* The three accounts agree with the work in hand on every path that a job can
\* take out of the engine, and idle means that nothing is left to do.
AccountsExact == BufferedExact /\ InflightExact /\ LaneDrains /\ IdleHonest

(***************************************************************************)
(* The engine implements FetchService.                                     *)
(***************************************************************************)
\* What a request has come to: a job that left the queue unsettled was
\* abandoned by a stop.
Outcome(j) ==
    IF Settled(j) THEN job[j].state
    ELSE IF job[j].copy = "none" THEN "abandoned" ELSE "pending"

\* What a call has been told; the look for the file is not yet a call.
Reply(pc, kind) ==
    IF pc \in {"idle", "checked"} THEN "none"
    ELSE IF pc = "fail" THEN "no"
    ELSE IF pc = "waiting" THEN (IF kind = "timed" THEN "timed" ELSE "waits")
    ELSE IF kind = "queue" THEN "left" ELSE "yes"

AskedFor == [j \in JobIds |-> job[j].tail]
Outcomes == [j \in JobIds |-> Outcome(j)]
Wanted == [c \in Clients |-> IF cpc[c] \in {"idle", "checked"} THEN {} ELSE call[c].tails]
Awaited == [c \in Clients |-> IF cpc[c] = "waiting" THEN call[c].jobs ELSE {}]
Replies == [c \in Clients |-> Reply(cpc[c], call[c].kind)]

Service == INSTANCE FetchService WITH
    stopping <- stop, blob <- AskedFor, result <- Outcomes, wanted <- Wanted,
    awaits <- Awaited, answer <- Replies

\* The engine keeps what FetchService promises: one request under way for a
\* tail, whoever asks; done only with the whole blob in the store, and for
\* good; and a caller that is told yes has got all it waited for.
ImplementsService == Service!Spec

\* A job is done only when its blob is completely in the store.
DoneMeansStored ==
    [][\A j \in JobIds :
         job'[j].state = "done" /\ job[j].state # "done"
            => store[job[j].tail] = "whole"]_vars

\* A settled job stays as it settled: no late completion overrules it.
SettledForGood ==
    [][\A j \in JobIds : Settled(j) => job'[j].state = job[j].state]_vars

Sweeping(w) == work[w].job # 0 /\ (work[w].slot # {} \/ job[work[w].job].prio >= Sweep)

\* While no bundle is under way, taking a sweep leaves one of several active
\* workers free for demand.
HeadroomKept ==
    [][\A w \in Workers :
         /\ target > 1 /\ work[w].job = 0 /\ Sweeping(w)'
         /\ \A v \in Workers : work'[v].slot = {}
         => \E v \in Workers : v < target /\ ~Sweeping(v)']_vars

\* After a failed bundle the rider's completion leaves the requeued job alone.
RiderLeavesRequeued ==
    [][\A w \in Workers :
         wpc[w] = "complete" /\ wpc'[w] = "idle" /\ work[w].slot # {} /\ ~work[w].ok
            => LET j == work[w].job IN
               job'[j].state = job[j].state /\ job'[j].copy = job[j].copy]_vars

\* Every request leaves the queue: settled, or abandoned by a stop.
JobsSettle ==
    \A j \in 1..MaxJobs :
        j \in Live ~> j \in JobIds /\ job[j].copy = "none"

\* No caller waits forever.
CallsReturn == \A c \in Clients : cpc[c] = "waiting" ~> cpc[c] # "waiting"
=============================================================================
