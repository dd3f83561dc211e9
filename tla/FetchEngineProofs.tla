------------------------- MODULE FetchEngineProofs -------------------------
(***************************************************************************)
(* Theorems about FetchEngine for any number of workers, clients, tails    *)
(* and requests, from the invariant of FetchEngineInv: its types, the      *)
(* agreement of the dedup map with the queue, one transfer per tail, an    *)
(* owner for every running mark, results that are final and "done" only    *)
(* for a blob that is in the store; that its three accounts are exact and  *)
(* the sweep lane leaves a worker free; and that it implements             *)
(* FetchService.                                                           *)
(***************************************************************************)
EXTENDS FetchEngineInv, Sums

\* Every variable keeps its type: no worker indexes a job that does not exist,
\* and no attempt is counted beyond the retries.
THEOREM TypeCorrect == Spec => []TypeOK
<1>1. IInv => TypeOK
  BY DEF IInv
<1>. QED BY <1>1, Invariance, PTL

\* The dedup map and the queue always agree (vfs_fetch.cpp s_active, s_queue).
THEOREM QueueAgrees == Spec => []ActiveMatchesQueue
<1>1. IInv => ActiveMatchesQueue
  BY DEF IInv, QInv
<1>. QED BY <1>1, Invariance, PTL

\* No two workers ever transfer the same tail, alone or within bundles.
THEOREM TransfersAreExclusive == Spec => []OneTransferPerTail
<1>1. IInv => OneTransferPerTail
  BY Consequences DEF IInv
<1>. QED BY <1>1, Invariance, PTL

\* Every running mark has a worker that will remove it.
THEOREM NoOrphanedMark == Spec => []RunningHasOwner
<1>1. IInv => RunningHasOwner
  BY Consequences DEF IInv
<1>. QED BY <1>1, Invariance, PTL

\* A request is reported done only when its blob is whole in the store.
THEOREM DoneOnlyStored == Spec => DoneMeansStored
<1>. DEFINE A == \A j \in JobIds :
                   job'[j].state = "done" /\ job[j].state # "done"
                      => store[job[j].tail] = "whole"
<1>1. IInv /\ [Next]_vars => [A]_vars
  BY JobSteps DEF JobStep
<1>. QED BY <1>1, Invariance, PTL DEF Spec, DoneMeansStored

\* A request's result is final.
THEOREM ResultsAreFinal == Spec => SettledForGood
<1>. DEFINE A == \A j \in JobIds : Settled(j) => job'[j].state = job[j].state
<1>1. IInv /\ [Next]_vars => [A]_vars
  BY JobSteps DEF JobStep
<1>. QED BY <1>1, Invariance, PTL DEF Spec, SettledForGood

-----------------------------------------------------------------------------
(***************************************************************************)
(* The accounts.                                                           *)
(***************************************************************************)
\* The requests that have no result yet.
Unsettled == {j \in JobIds : ~Settled(j)}

\* The request account, over all sessions: a stop leaves what it abandons in it.
CountExact == inflight = Cardinality(Unsettled)

\* Before the first stop nothing has been abandoned.
FirstSession ==
    /\ starts = 0 => ~running /\ seq = 0
    /\ running /\ starts = 1 => Unsettled \subseteq Live

\* The workers that hold a slot of the lane: for a sweep, or for a bundle
\* whoever its jobs were promoted to.
Tickets ==
    {w \in Holders : \/ job[work[w].job].prio >= Sweep
                     \/ job[work[w].job].ride /\ work[w].slot # {}}

LaneExact == sweepRunning = Cardinality(Tickets)

\* The mark of a ride stands for the bundle's worker, from the gather to the
\* first completion of the job.
Rides ==
    /\ \A j \in JobIds : job[j].ride =>
          \E w \in Workers : work[w].job = j /\ work[w].slot # {}
    /\ \A j \in JobIds : job[j].requeued => job[j].ride
    /\ \A w \in Workers : wpc[w] \in Transferring /\ work[w].slot # {} =>
          job[work[w].job].ride

\* The lane leaves one of several active workers out.
LaneSize == running => target \in 1..NumWorkers /\ sweepCap = CapFor(target)

AInv == BufferedExact /\ CountExact /\ FirstSession /\ LaneExact /\ Rides /\ LaneSize

-----------------------------------------------------------------------------
\* The sets that are counted are finite.
LEMMA Finite ==
    ASSUME TypeOK
    PROVE  /\ IsFiniteSet(Workers) /\ IsFiniteSet(JobIds)
           /\ IsFiniteSet(Holders) /\ IsFiniteSet(Tickets) /\ IsFiniteSet(Unsettled)
<1>1. IsFiniteSet(Workers)
  BY FS_Interval, Bounds DEF Workers
<1>2. IsFiniteSet(JobIds)
  <2>1. seq \in Int BY DEF TypeOK
  <2>. QED BY <2>1, FS_Interval DEF JobIds
<1>3. Holders \subseteq Workers /\ Tickets \subseteq Workers /\ Unsettled \subseteq JobIds
  BY DEF Holders, Tickets, Unsettled
<1>. QED BY <1>1, <1>2, <1>3, FS_Subset

\* The lane's fields under the operators that update a job.
LEMMA FoldedLane ==
    ASSUME NEW j, NEW rider, job[j] \in Job
    PROVE  Folded(j, rider).prio = job[j].prio /\ (Folded(j, rider).ride <=> j = rider)
  BY DEF Folded, Job

LEMMA RequeueLane ==
    ASSUME NEW j, job[j] \in Job
    PROVE  Requeue(j).prio = job[j].prio /\ (Requeue(j).ride <=> job[j].ride)
  BY DEF Requeue, Job

LEMMA DeliveredLane ==
    ASSUME NEW j, job[j] \in Job
    PROVE  Delivered(j).prio = job[j].prio /\ (Delivered(j).ride <=> job[j].ride)
  BY DEF Delivered, Job

LEMMA ReleasedLane ==
    ASSUME NEW j, job[j] \in Job
    PROVE  Released(j).prio = job[j].prio /\ Released(j).ride = FALSE
  BY DEF Released, Job

LEMMA FinishedLane ==
    ASSUME NEW j, NEW ok \in BOOLEAN, job[j] \in Job
    PROVE  Finished(j, ok).prio = job[j].prio /\ Finished(j, ok).ride = FALSE
  BY DEF Finished, Job

-----------------------------------------------------------------------------
(***************************************************************************)
(* The backpressure account.                                               *)
(***************************************************************************)
\* The account as a sum in the sense of Sums.
LEMMA ChargeSum ==
    /\ BufferedExact <=> buffered = SumOf(Charge, Holders)
    /\ BufferedExact' <=> buffered' = SumOf(Charge', Holders')
<1>1. BufferedExact <=> buffered = SumOf(Charge, Holders)
  BY DEF BufferedExact, SumOf
<1>2. BufferedExact' <=> (buffered = SumOf(Charge, Holders))'
  BY <1>1, PTL
<1>. QED BY <1>1, <1>2

\* What a worker was charged is a number, and depends on its job's tail only.
LEMMA ChargeFacts ==
    ASSUME TypeOK, QInv
    PROVE  /\ \A w \in Holders : /\ work[w].job \in JobIds /\ TailOf(w) \in Tails
                                 /\ Charge[w] = Size(TailOf(w)) /\ Charge[w] \in Nat
<1>. SUFFICES ASSUME NEW w \in Holders
              PROVE  /\ work[w].job \in JobIds /\ TailOf(w) \in Tails
                     /\ Charge[w] = Size(TailOf(w)) /\ Charge[w] \in Nat
  OBVIOUS
<1>1. w \in Workers /\ work[w].job # 0
  BY DEF Holders
<1>2. work[w].job \in JobIds
  BY <1>1, HeldIds
<1>3. TailOf(w) \in Tails
  BY <1>2 DEF TailOf, TypeOK, Job
<1>4. Charge[w] = Size(TailOf(w))
  BY DEF Charge
<1>. QED BY <1>2, <1>3, <1>4, SizeType

\* A step that leaves the holders and their tails alone.
LEMMA ChargeKept ==
    ASSUME TypeOK, QInv, BufferedExact, buffered' = buffered, Holders' = Holders,
           \A w \in Holders : TailOf(w)' = TailOf(w)
    PROVE  BufferedExact'
<1>1. \A w \in Holders : Charge'[w] = Charge[w]
  <2>1. \A w \in Holders : Charge'[w] = Size(TailOf(w)')
    BY DEF Charge
  <2>. QED BY <2>1, ChargeFacts
<1>2. SumOf(Charge', Holders) = SumOf(Charge, Holders)
  BY <1>1, Finite, SumSame
<1>. QED BY <1>2, ChargeSum

\* A worker that sets out is charged for its job.
LEMMA ChargeTaken ==
    ASSUME TypeOK, QInv, BufferedExact, NEW w \in Workers,
           w \notin Holders, Holders' = Holders \cup {w}, TailOf(w)' \in Tails,
           buffered' = buffered + Size(TailOf(w)'),
           \A v \in Holders : TailOf(v)' = TailOf(v)
    PROVE  BufferedExact'
<1>1. /\ \A v \in Holders : Charge'[v] = Charge[v]
      /\ Charge'[w] = Size(TailOf(w)') /\ Charge'[w] \in Nat
      /\ \A v \in Holders \cup {w} : Charge'[v] \in Nat
  <2>1. \A v \in Holders \cup {w} : Charge'[v] = Size(TailOf(v)') /\ TailOf(v)' \in Tails
    <3>1. \A v \in Holders' : Charge'[v] = Size(TailOf(v)')
      BY DEF Charge
    <3>2. \A v \in Holders' : TailOf(v)' \in Tails
      BY ChargeFacts
    <3>. QED BY <3>1, <3>2
  <2>. QED BY <2>1, ChargeFacts, SizeType
<1>2. SumOf(Charge', Holders) = SumOf(Charge, Holders)
  BY <1>1, Finite, SumSame
<1>3. SumOf(Charge', Holders \cup {w}) = Charge'[w] + SumOf(Charge', Holders)
  BY <1>1, Finite, SumAdd
<1>4. SumOf(Charge, Holders) \in Nat
  BY Finite, ChargeFacts, SumType
<1>. QED BY <1>1, <1>2, <1>3, <1>4, ChargeSum

\* A worker that completes gives its charge back.
LEMMA ChargeGiven ==
    ASSUME TypeOK, QInv, BufferedExact, NEW w \in Holders,
           Holders' = Holders \ {w}, buffered' = buffered - Size(TailOf(w)),
           \A v \in Holders \ {w} : TailOf(v)' = TailOf(v)
    PROVE  BufferedExact'
<1>1. \A v \in Holders \ {w} : Charge'[v] = Charge[v]
  <2>1. \A v \in Holders' : Charge'[v] = Size(TailOf(v)')
    BY DEF Charge
  <2>. QED BY <2>1, ChargeFacts
<1>2. IsFiniteSet(Holders \ {w})
  BY Finite, FS_Subset
<1>3. SumOf(Charge', Holders \ {w}) = SumOf(Charge, Holders \ {w})
  BY <1>1, <1>2, SumSame
<1>4. SumOf(Charge, Holders \ {w}) = SumOf(Charge, Holders) - Charge[w]
  BY Finite, ChargeFacts, SumRemove
<1>. QED BY <1>3, <1>4, ChargeFacts, ChargeSum

-----------------------------------------------------------------------------
(***************************************************************************)
(* Steps that leave the jobs, and what each worker has in hand, alone.     *)
(***************************************************************************)
\* The account of such a step.
LEMMA AccountsQuiet ==
    ASSUME TypeOK, QInv, AInv, UNCHANGED <<seq, job, counters, running, starts>>,
           \A v \in Workers : work'[v].job = work[v].job /\ work'[v].slot = work[v].slot,
           \A v \in Workers : wpc'[v] \in Transferring /\ work[v].slot # {}
                              => wpc[v] \in Transferring,
           LaneSize'
    PROVE  AInv'
<1>1. JobIds' = JobIds /\ UNCHANGED <<buffered, inflight, sweepRunning>>
  BY DEF JobIds, counters
<1>2. Holders' = Holders /\ Unsettled' = Unsettled /\ Tickets' = Tickets /\ Live' = Live
  BY <1>1 DEF Holders, Unsettled, Settled, Tickets, Live
<1>3. BufferedExact'
  BY <1>1, <1>2, ChargeKept DEF AInv, TailOf, Holders
<1>4. CountExact' /\ FirstSession' /\ LaneExact'
  BY <1>1, <1>2 DEF AInv, CountExact, FirstSession, LaneExact
<1>5. Rides'
  BY <1>1 DEF AInv, Rides
<1>. QED BY <1>3, <1>4, <1>5 DEF AInv

\* The lane is resized together with the pool's target only.
LEMMA LaneSizeKept ==
    ASSUME LaneSize, UNCHANGED <<running, target, sweepCap>> PROVE LaneSize'
  BY DEF LaneSize

\* The steps of a transfer.
LEMMA AccountsTransfer ==
    ASSUME TypeOK, QInv, AInv, NEW w \in Workers,
           \/ HttpBody(w) \/ HttpBadSize(w) \/ HttpMissing(w) \/ HttpError(w)
           \/ StoreOpen(w) \/ StoreWrite(w) \/ BundleBody(w) \/ BundleBad(w)
           \/ Exit(w)
    PROVE  AInv'
<1>1. work \in [Workers -> Work] /\ wpc \in [Workers -> WorkerPc] /\ work[w] \in Work
  BY DEF TypeOK
<1>2. UNCHANGED <<seq, job, counters, running, starts, target, sweepCap>>
  BY DEF HttpBody, HttpBadSize, HttpMissing, HttpError, StoreOpen, StoreWrite,
         BundleBody, BundleBad, Exit, Transferred, queue, pool
<1>3. \A v \in Workers \ {w} : wpc'[v] = wpc[v] /\ work'[v] = work[v]
  BY <1>1 DEF HttpBody, HttpBadSize, HttpMissing, HttpError, StoreOpen, StoreWrite,
              BundleBody, BundleBad, Exit, Transferred
<1>4. work'[w].job = work[w].job /\ work'[w].slot = work[w].slot
  <2>1. CASE StoreWrite(w)
    BY <1>1, <2>1 DEF StoreWrite, Work
  <2>2. CASE \/ HttpBody(w) \/ HttpBadSize(w) \/ HttpMissing(w) \/ HttpError(w)
             \/ StoreOpen(w) \/ BundleBody(w) \/ BundleBad(w) \/ Exit(w)
    BY <1>1, <2>2 DEF HttpBody, HttpBadSize, HttpMissing, HttpError, StoreOpen,
                BundleBody, BundleBad, Exit, Work
  <2>. QED BY <2>1, <2>2
<1>5. wpc'[w] \in Transferring => wpc[w] \in Transferring
  BY <1>1 DEF HttpBody, HttpBadSize, HttpMissing, HttpError, StoreOpen, StoreWrite,
              BundleBody, BundleBad, Exit, Transferring
<1>6. LaneSize'
  BY <1>2, LaneSizeKept DEF AInv
<1>. QED BY <1>2, <1>3, <1>4, <1>5, <1>6, AccountsQuiet

-----------------------------------------------------------------------------
(***************************************************************************)
(* Taking a job.                                                           *)
(***************************************************************************)
\* A plain take: one charge and, for a sweep, one slot of the lane.
LEMMA AccountsTakeJob ==
    ASSUME TypeOK, QInv, AInv, NEW w \in Workers, TakeJob(w) PROVE AInv'
<1>1. PICK j \in JobIds : Best(j) /\ TakeJob(w)!2!(j)
  BY DEF TakeJob
<1>2. /\ job \in [JobIds -> Job] /\ job[j] \in Job /\ job[j].copy = "queued" /\ j # 0
      /\ job[j].tail \in Tails
  BY <1>1 DEF TypeOK, Best, Runnable, JobIds, Job
<1>3. active[job[j].tail] = j
  BY <1>2 DEF QInv, ActiveMatchesQueue, Live
<1>4. /\ UNCHANGED <<seq, inflight, running, starts, target, sweepCap>> /\ JobIds' = JobIds
      /\ wpc[w] = "idle" /\ wpc'[w] = "http" /\ work'[w] = InHand(j, {})
      /\ \A v \in Workers \ {w} : wpc'[v] = wpc[v] /\ work'[v] = work[v]
  BY <1>1, <1>3 DEF TakeJob, MayTake, pool, TypeOK, JobIds
<1>5. work'[w].job = j /\ work'[w].slot = {}
  BY <1>4 DEF InHand
<1>6. work[w].job = 0 /\ w \notin Holders /\ Holders' = Holders \cup {w}
  BY <1>2, <1>4, <1>5 DEF QInv, Hands, Busy, Transferring, Holders
<1>7. \A i \in JobIds : /\ job'[i].tail = job[i].tail /\ job'[i].state = job[i].state
                        /\ job'[i].prio = job[i].prio /\ job'[i].ride = job[i].ride
                        /\ job'[i].requeued = job[i].requeued
                        /\ job[i].copy # "none" => job'[i].copy # "none"
  BY <1>1, <1>2 DEF Job
<1>8. \A v \in Holders : v # w /\ v \in Workers /\ work[v].job \in JobIds
  BY <1>6, ChargeFacts DEF Holders
<1>9. BufferedExact'
  <2>1. \A v \in Holders : TailOf(v)' = TailOf(v)
    BY <1>4, <1>7, <1>8 DEF TailOf
  <2>2. TailOf(w)' = job[j].tail
    BY <1>5, <1>7 DEF TailOf
  <2>3. buffered' = buffered + Size(TailOf(w)')
    BY <1>1, <2>2
  <2>. QED BY <1>2, <1>6, <2>1, <2>2, <2>3, ChargeTaken DEF AInv
<1>10. CountExact' /\ FirstSession'
  <2>1. Unsettled' = Unsettled /\ Live \subseteq Live'
    BY <1>4, <1>7 DEF Unsettled, Settled, Live
  <2>. QED BY <1>4, <2>1 DEF AInv, CountExact, FirstSession
<1>11. LaneExact'
  <2>1. \A v \in Holders : v \in Tickets' <=> v \in Tickets
    BY <1>4, <1>6, <1>7, <1>8 DEF Tickets
  <2>2. w \notin Tickets /\ (w \in Tickets' <=> job[j].prio >= Sweep)
    BY <1>5, <1>6, <1>7 DEF Tickets
  <2>3. Tickets \subseteq Holders /\ Tickets' \subseteq Holders \cup {w}
    BY <1>6 DEF Tickets
  <2>4. Tickets' = IF job[j].prio >= Sweep THEN Tickets \cup {w} ELSE Tickets
    BY <2>1, <2>2, <2>3
  <2>5. IsFiniteSet(Tickets) /\ Cardinality(Tickets) \in Nat
    BY Finite, FS_CardinalityType
  <2>6. Cardinality(Tickets \cup {w}) = Cardinality(Tickets) + 1
    BY <2>2, <2>5, FS_AddElement
  <2>. QED BY <1>1, <2>4, <2>6 DEF AInv, LaneExact
<1>12. Rides'
  <2>1. \A v \in Workers : work[v].job # 0 => v # w
    BY <1>6
  <2>2. ASSUME NEW i \in JobIds, job'[i].ride
        PROVE  \E v \in Workers : work'[v].job = i /\ work'[v].slot # {}
    <3>1. i # 0
      BY HeldIds
    <3>. QED BY <1>4, <1>7, <2>1, <2>2, <3>1 DEF AInv, Rides
  <2>3. \A i \in JobIds : job'[i].requeued => job'[i].ride
    BY <1>7 DEF AInv, Rides
  <2>4. ASSUME NEW v \in Workers, wpc'[v] \in Transferring, work'[v].slot # {}
        PROVE  job'[work'[v].job].ride
    <3>1. v # w
      BY <1>5, <2>4
    <3>2. wpc[v] \in Transferring /\ work[v].slot # {} /\ work'[v].job = work[v].job
      BY <1>4, <2>4, <3>1
    <3>3. work[v].job \in JobIds /\ job[work[v].job].ride
      BY <3>2, HeldIds DEF AInv, Rides, QInv, Hands, Busy
    <3>. QED BY <1>7, <3>2, <3>3
  <2>. QED BY <1>4, <2>2, <2>3, <2>4 DEF Rides
<1>13. LaneSize'
  BY <1>4, LaneSizeKept DEF AInv
<1>. QED BY <1>9, <1>10, <1>11, <1>12, <1>13 DEF AInv

\* A bundle: the rider's charge and one slot for all its members.
LEMMA AccountsTakeBundle ==
    ASSUME TypeOK, QInv, AInv, NEW w \in Workers, TakeBundle(w) PROVE AInv'
<1>. DEFINE slot == {job[j].tail : j \in Members}
<1>1. PICK rider \in Members :
        /\ job' = [j \in JobIds |-> IF j \in Members THEN Folded(j, rider) ELSE job[j]]
        /\ work' = [work EXCEPT ![w] = InHand(rider, slot)]
        /\ buffered' = buffered + Size(job[rider].tail)
  BY DEF TakeBundle
<1>2. /\ Members \subseteq JobIds
      /\ \A j \in Members : job[j].copy = "queued" /\ ~job[j].spent
      /\ \A j \in JobIds : job[j] \in Job
  BY DEF Members, Foldable, TypeOK
<1>3. /\ UNCHANGED <<seq, inflight, running, starts, target, sweepCap>> /\ JobIds' = JobIds
      /\ sweepRunning' = sweepRunning + 1
      /\ wpc[w] = "idle" /\ wpc'[w] = "ride"
      /\ \A v \in Workers \ {w} : wpc'[v] = wpc[v] /\ work'[v] = work[v]
  BY <1>1 DEF TakeBundle, MayTake, pool, TypeOK, JobIds
<1>4. work'[w].job = rider /\ work'[w].slot = slot /\ slot # {} /\ rider # 0
  BY <1>1, <1>2, HeldIds DEF InHand, TypeOK
<1>5. work[w].job = 0 /\ w \notin Holders /\ Holders' = Holders \cup {w}
  BY <1>3, <1>4 DEF QInv, Hands, Busy, Transferring, Holders
<1>6. \A j \in JobIds : /\ job'[j].tail = job[j].tail /\ job'[j].prio = job[j].prio
                        /\ job'[j].requeued = job[j].requeued
                        /\ Settled(j)' <=> Settled(j)
                        /\ job[j].copy # "none" => job'[j].copy # "none"
  <2>. SUFFICES ASSUME NEW j \in JobIds
                PROVE  /\ job'[j].tail = job[j].tail /\ job'[j].prio = job[j].prio
                       /\ job'[j].requeued = job[j].requeued
                       /\ Settled(j)' <=> Settled(j)
                       /\ job[j].copy # "none" => job'[j].copy # "none"
    OBVIOUS
  <2>1. CASE j \in Members
    <3>1. job'[j] = Folded(j, rider)
      BY <1>1, <2>1
    <3>2. ~Settled(j)
      BY <1>2, <2>1 DEF QInv, SettledGone
    <3>. QED BY <1>2, <3>1, <3>2, FoldedFields, FoldedLane DEF Settled
  <2>2. CASE j \notin Members
    BY <1>1, <2>2 DEF Settled
  <2>. QED BY <2>1, <2>2
<1>7. /\ \A j \in JobIds \ Members : job'[j].ride = job[j].ride
      /\ \A j \in Members : job'[j].ride <=> j = rider
  BY <1>1, <1>2, FoldedLane
<1>8. \A v \in Holders : v # w /\ v \in Workers /\ work[v].job \in JobIds \ Members
  <2>. SUFFICES ASSUME NEW v \in Holders
                PROVE  v # w /\ v \in Workers /\ work[v].job \in JobIds \ Members
    OBVIOUS
  <2>1. v # w /\ v \in Workers /\ work[v].job # 0 /\ work[v].job \in JobIds
    BY <1>5, ChargeFacts DEF Holders
  <2>2. work[v].job \notin Members
    <3>. SUFFICES ASSUME work[v].job \in Members PROVE FALSE
      OBVIOUS
    <3>1. job[work[v].job].copy = "queued" /\ ~job[work[v].job].spent
      BY <1>2
    <3>2. job[work[v].job].requeued
      BY <2>1, <3>1 DEF QInv, Holding
    <3>. QED BY <2>1, <3>1, <3>2 DEF QInv, Requeued
  <2>. QED BY <2>1, <2>2
<1>. HIDE DEF slot
<1>9. BufferedExact'
  <2>1. \A v \in Holders : TailOf(v)' = TailOf(v)
    BY <1>3, <1>6, <1>8 DEF TailOf
  <2>2. TailOf(w)' = job[rider].tail /\ job[rider].tail \in Tails
    BY <1>2, <1>4, <1>6 DEF TailOf, Job
  <2>. QED BY <1>1, <1>5, <2>1, <2>2, ChargeTaken DEF AInv
<1>10. CountExact' /\ FirstSession'
  <2>1. Unsettled' = Unsettled /\ Live \subseteq Live'
    BY <1>3, <1>6 DEF Unsettled, Live
  <2>. QED BY <1>3, <2>1 DEF AInv, CountExact, FirstSession
<1>11. LaneExact'
  <2>1. \A v \in Holders : v \in Tickets' <=> v \in Tickets
    BY <1>3, <1>5, <1>6, <1>7, <1>8 DEF Tickets
  <2>2. w \notin Tickets /\ w \in Tickets'
    BY <1>1, <1>4, <1>5, <1>7 DEF Tickets
  <2>3. Tickets \subseteq Holders /\ Tickets' \subseteq Holders \cup {w}
    BY <1>5 DEF Tickets
  <2>4. Tickets' = Tickets \cup {w}
    BY <2>1, <2>2, <2>3
  <2>5. Cardinality(Tickets \cup {w}) = Cardinality(Tickets) + 1
    BY <2>2, Finite, FS_AddElement
  <2>. QED BY <1>3, <2>4, <2>5 DEF AInv, LaneExact
<1>12. Rides'
  <2>1. ASSUME NEW i \in JobIds, job'[i].ride
        PROVE  \E v \in Workers : work'[v].job = i /\ work'[v].slot # {}
    <3>1. CASE i \in Members
      BY <1>4, <1>7, <2>1, <3>1
    <3>2. CASE i \notin Members
      <4>1. PICK v \in Workers : work[v].job = i /\ work[v].slot # {}
        BY <1>7, <2>1, <3>2 DEF AInv, Rides
      <4>2. v # w
        BY <1>5, <4>1, HeldIds
      <4>. QED BY <1>3, <4>1, <4>2
    <3>. QED BY <3>1, <3>2
  <2>2. ASSUME NEW i \in JobIds, job'[i].requeued PROVE job'[i].ride
    <3>1. job[i].requeued /\ job[i].spent /\ job[i].ride
      BY <1>6, <2>2 DEF QInv, Requeued, AInv, Rides
    <3>. QED BY <1>2, <1>7, <3>1
  <2>3. ASSUME NEW v \in Workers, wpc'[v] \in Transferring, work'[v].slot # {}
        PROVE  job'[work'[v].job].ride
    <3>1. CASE v = w
      BY <1>4, <1>7, <3>1
    <3>2. CASE v # w
      <4>1. wpc[v] \in Transferring /\ work[v].slot # {} /\ work'[v].job = work[v].job
        BY <1>3, <2>3, <3>2
      <4>2. v \in Holders /\ job[work[v].job].ride
        BY <4>1 DEF AInv, Rides, QInv, Hands, Busy, Holders
      <4>. QED BY <1>7, <1>8, <4>1, <4>2
    <3>. QED BY <3>1, <3>2
  <2>. QED BY <1>3, <2>1, <2>2, <2>3 DEF Rides
<1>13. LaneSize'
  BY <1>3, LaneSizeKept DEF AInv
<1>. QED BY <1>9, <1>10, <1>11, <1>12, <1>13 DEF AInv

-----------------------------------------------------------------------------
(***************************************************************************)
(* A bundle settles: its worker keeps its charge, its slot of the lane and *)
(* its own request until it completes.                                     *)
(***************************************************************************)
\* The delivered members leave the request account; requeued ones stay in it.
LEMMA AccountsSettle ==
    ASSUME TypeOK, QInv, AInv, NEW w \in Workers, BundleSettle(w) PROVE AInv'
<1>. DEFINE mine == {active[t] : t \in work[w].slot} \ {0}
            waiters == {j \in mine : job[j].wait}
<1>1. /\ \/ /\ work[w].ok
            /\ inflight' = inflight - Cardinality(waiters)
            /\ job' = [j \in JobIds |-> IF j \in waiters THEN Delivered(j) ELSE job[j]]
         \/ /\ ~work[w].ok
            /\ inflight' = inflight
            /\ job' = [j \in JobIds |-> IF j \in mine THEN Requeue(j) ELSE job[j]]
      /\ UNCHANGED <<pool, sweepRunning, buffered>>
  BY DEF BundleSettle
<1>2. mine = {active[t] : t \in work[w].slot} \ {0}
  OBVIOUS
<1>3. waiters = {j \in mine : job[j].wait} /\ waiters \subseteq mine
  OBVIOUS
<1>. HIDE DEF mine, waiters
<1>4. SettleShape(w, mine)
  BY <1>2, SettleFacts
<1>5. /\ UNCHANGED <<seq, work, running, starts, target, sweepCap>> /\ JobIds' = JobIds
      /\ wpc[w] \in Transferring /\ wpc'[w] \notin Transferring /\ work[w].slot # {}
      /\ \A v \in Workers \ {w} : wpc'[v] = wpc[v]
      /\ mine \subseteq JobIds /\ work[w].job \in mine
      /\ \A j \in mine : job[j].copy = "running" /\ (job[j].wait <=> j # work[w].job)
  BY <1>1, <1>4 DEF SettleShape, pool
<1>6. \A j \in JobIds : job[j] \in Job
  BY DEF TypeOK
<1>7. \A j \in mine : j \in Unsettled /\ j \in Live
  BY <1>5 DEF QInv, SettledGone, Unsettled, Live
<1>8. /\ \A j \in JobIds : /\ job'[j].tail = job[j].tail /\ job'[j].prio = job[j].prio
                           /\ (job'[j].ride <=> job[j].ride)
                           /\ job'[j].requeued => job[j].requeued \/ j = work[w].job
      /\ CountExact' /\ FirstSession'
  <2>1. CASE work[w].ok
    <3>1. /\ \A j \in waiters : job'[j] = Delivered(j)
          /\ \A j \in JobIds \ waiters : job'[j] = job[j]
      BY <1>1, <1>3, <1>5, <2>1
    <3>2. \A j \in waiters : /\ job'[j].tail = job[j].tail /\ job'[j].prio = job[j].prio
                             /\ (job'[j].ride <=> job[j].ride)
                             /\ (job'[j].requeued <=> job[j].requeued)
                             /\ job'[j].state = "done"
      <4>1. \A j \in waiters : job[j] \in Job /\ job'[j] = Delivered(j)
        BY <1>3, <1>5, <1>6, <3>1
      <4>. QED BY <4>1, DeliveredFields, DeliveredLane
    <3>3. Unsettled' = Unsettled \ waiters /\ waiters \subseteq Unsettled
      BY <1>3, <1>5, <1>7, <3>1, <3>2 DEF Unsettled, Settled
    <3>4. Cardinality(Unsettled \ waiters) = Cardinality(Unsettled) - Cardinality(waiters)
      <4>1. Unsettled \cap waiters = waiters
        BY <3>3
      <4>. QED BY <4>1, Finite, FS_Difference
    <3>5. CountExact'
      BY <1>1, <2>1, <3>3, <3>4 DEF AInv, CountExact
    <3>6. Live \ waiters \subseteq Live'
      BY <1>5, <3>1 DEF Live
    <3>7. FirstSession'
      BY <1>5, <3>3, <3>6 DEF AInv, FirstSession
    <3>. QED BY <3>1, <3>2, <3>5, <3>7
  <2>2. CASE ~work[w].ok
    <3>1. /\ \A j \in mine : job'[j] = Requeue(j)
          /\ \A j \in JobIds \ mine : job'[j] = job[j]
      BY <1>1, <1>5, <2>2
    <3>2. \A j \in mine : /\ job'[j].tail = job[j].tail /\ job'[j].prio = job[j].prio
                          /\ (job'[j].ride <=> job[j].ride)
                          /\ job'[j].requeued <=> j = work[w].job
                          /\ job'[j].state = "queued" /\ job'[j].copy = "queued"
      <4>1. \A j \in mine : job[j] \in Job /\ job'[j] = Requeue(j)
        BY <1>5, <1>6, <3>1
      <4>2. \A j \in mine : /\ job'[j].tail = job[j].tail
                            /\ job'[j].state = "queued" /\ job'[j].copy = "queued"
        BY <4>1, RequeueFields
      <4>4. ASSUME NEW j \in mine PROVE job'[j].requeued <=> j = work[w].job
        <5>1. job'[j].requeued <=> ~job[j].wait
          BY <4>1, RequeueFields
        <5>2. job[j].wait <=> j # work[w].job
          BY <1>5
        <5>. QED BY <5>1, <5>2
      <4>3. \A j \in mine : /\ job'[j].prio = job[j].prio
                            /\ (job'[j].ride <=> job[j].ride)
        BY <4>1, RequeueLane
      <4>. QED BY <4>2, <4>3, <4>4
    <3>3. Unsettled' = Unsettled /\ Live \subseteq Live'
      BY <1>5, <1>7, <3>1, <3>2 DEF Unsettled, Settled, Live
    <3>4. CountExact' /\ FirstSession'
      BY <1>1, <1>5, <2>2, <3>3 DEF AInv, CountExact, FirstSession
    <3>. QED BY <3>1, <3>2, <3>4
  <2>. QED BY <2>1, <2>2
<1>9. Holders' = Holders /\ \A v \in Holders : v \in Workers /\ work[v].job \in JobIds
  BY <1>5, ChargeFacts DEF Holders
<1>10. BufferedExact'
  BY <1>1, <1>5, <1>8, <1>9, ChargeKept DEF AInv, TailOf
<1>11. LaneExact'
  <2>1. Tickets' = Tickets
    BY <1>5, <1>8, <1>9 DEF Tickets
  <2>. QED BY <1>1, <2>1 DEF AInv, LaneExact
<1>12. Rides'
  <2>1. job[work[w].job].ride
    BY <1>5 DEF AInv, Rides
  <2>2. \A j \in JobIds : job'[j].requeued => job'[j].ride
    BY <1>8, <2>1 DEF AInv, Rides
  <2>3. \A v \in Workers : wpc'[v] \in Transferring => wpc[v] \in Transferring
    BY <1>5
  <2>4. \A v \in Workers : wpc[v] \in Transferring => work[v].job \in JobIds
    BY HeldIds DEF QInv, Hands, Busy
  <2>5. \A v \in Workers : wpc'[v] \in Transferring /\ work'[v].slot # {} =>
           job'[work'[v].job].ride
    BY <1>5, <1>8, <2>3, <2>4 DEF AInv, Rides
  <2>6. \A j \in JobIds : job'[j].ride =>
           \E v \in Workers : work'[v].job = j /\ work'[v].slot # {}
    BY <1>5, <1>8 DEF AInv, Rides
  <2>. QED BY <1>5, <2>2, <2>5, <2>6 DEF Rides
<1>13. LaneSize'
  BY <1>5, LaneSizeKept DEF AInv
<1>. QED BY <1>8, <1>10, <1>11, <1>12, <1>13 DEF AInv

-----------------------------------------------------------------------------
(***************************************************************************)
(* Completion.                                                             *)
(***************************************************************************)
\* Nobody shares the job of a rider whose bundle is still under way.
LEMMA LoneRider ==
    ASSUME TypeOK, QInv, NEW u \in Workers, work[u].job # 0, work[u].slot # {},
           ~RiderDone(u)
    PROVE  wpc[u] \in Transferring /\ \A v \in Workers \ {u} : work[v].job # work[u].job
<1>1. wpc[u] \in Busy /\ wpc[u] \in Transferring
  BY DEF QInv, Hands, Busy, RiderDone
<1>2. ~job[work[u].job].spent
  <2>1. TailOf(u) \in work[u].slot /\ active[TailOf(u)] = work[u].job
    BY <1>1, HeldFacts
  <2>. QED BY <1>1, <2>1 DEF QInv, Slots
<1>3. ~job[work[u].job].requeued
  <2>1. work[u].job \in JobIds
    BY HeldIds
  <2>. QED BY <1>2, <2>1 DEF QInv, Requeued
<1>4. \A v \in Workers \ {u} : work[v].job # work[u].job
  BY <1>3 DEF QInv, Sharing
<1>. QED BY <1>1, <1>4

\* One holder of a job at most rides a bundle.
LEMMA OneRider ==
    ASSUME TypeOK, QInv, NEW u \in Workers, NEW v \in Workers, u # v,
           work[u].job # 0, work[u].job = work[v].job, work[u].slot # {}
    PROVE  work[v].slot = {}
<1>. SUFFICES ASSUME work[v].slot # {} PROVE FALSE
  OBVIOUS
<1>1. RiderDone(u) /\ RiderDone(v)
  BY LoneRider
<1>. QED BY <1>1 DEF QInv, Sharing

\* The charge goes back; the request too, unless it was requeued; and the
\* slot, once, for the sweep or for the bundle.
LEMMA AccountsComplete ==
    ASSUME TypeOK, QInv, AInv, NEW w \in Workers, Complete(w) PROVE AInv'
<1>. DEFINE j == work[w].job
<1>1. CompleteShape(w, j)
  BY CompleteFacts
<1>2. /\ UNCHANGED <<seq, running, starts, target, sweepCap>> /\ JobIds' = JobIds
      /\ j \in JobIds /\ j # 0 /\ job[j].copy # "none"
      /\ work'[w].job = 0 /\ work'[w].slot = {} /\ wpc'[w] \notin Transferring
      /\ \A v \in Workers \ {w} : wpc'[v] = wpc[v] /\ work'[v] = work[v]
      /\ job[j] \in Job /\ job \in [JobIds -> Job] /\ work[w].ok \in BOOLEAN
  BY <1>1 DEF CompleteShape, Complete, pool, TypeOK, Work
<1>3. /\ inflight' = IF job[j].requeued THEN inflight ELSE inflight - 1
      /\ buffered' = buffered - Size(TailOf(w))
      /\ sweepRunning' = IF job[j].ride \/ job[j].prio >= Sweep THEN sweepRunning - 1
                         ELSE sweepRunning
      /\ \/ job[j].requeued /\ job' = [job EXCEPT ![j] = Released(j)]
         \/ ~job[j].requeued /\ job' = [job EXCEPT ![j] = Finished(j, work[w].ok)]
  BY DEF Complete, Answer, FreeBudget, FreeLane, TailOf
<1>4. j = work[w].job
  OBVIOUS
<1>. HIDE DEF j
<1>5. /\ \A i \in JobIds \ {j} : job'[i] = job[i]
      /\ job'[j].tail = job[j].tail /\ job'[j].prio = job[j].prio
      /\ ~job'[j].ride /\ ~job'[j].requeued
      /\ job[j].requeued => job'[j].state = job[j].state /\ job'[j].copy = job[j].copy
      /\ ~job[j].requeued => job'[j].state \in {"done", "failed"}
  <2>1. CASE job[j].requeued
    <3>1. /\ \A i \in JobIds \ {j} : job'[i] = job[i]
          /\ job'[j] = Released(j)
      BY <1>2, <1>3, <2>1
    <3>2. /\ job'[j].tail = job[j].tail /\ ~job'[j].requeued
          /\ job'[j].state = job[j].state /\ job'[j].copy = job[j].copy
      BY <1>2, <3>1, ReleasedFields
    <3>3. job'[j].prio = job[j].prio /\ ~job'[j].ride
      BY <1>2, <3>1, ReleasedLane
    <3>. QED BY <2>1, <3>1, <3>2, <3>3
  <2>2. CASE ~job[j].requeued
    <3>1. /\ \A i \in JobIds \ {j} : job'[i] = job[i]
          /\ job'[j] = Finished(j, work[w].ok)
      BY <1>2, <1>3, <2>2
    <3>2. job'[j].tail = job[j].tail /\ (job'[j].requeued <=> job[j].requeued)
      BY <1>2, <3>1, FinishedFields
    <3>3. job'[j].state \in {"done", "failed"}
      BY <1>2, <3>1, FinishedFields
    <3>4. job'[j].prio = job[j].prio /\ ~job'[j].ride
      BY <1>2, <3>1, FinishedLane
    <3>. QED BY <2>2, <3>1, <3>2, <3>3, <3>4
  <2>. QED BY <2>1, <2>2
<1>6. w \in Holders /\ Holders' = Holders \ {w}
  BY <1>2, <1>4 DEF Holders
<1>7. \A v \in Holders : v \in Workers /\ work[v].job \in JobIds
  BY ChargeFacts DEF Holders
<1>8. BufferedExact'
  <2>1. \A v \in Holders \ {w} : TailOf(v)' = TailOf(v)
    BY <1>2, <1>5, <1>7 DEF TailOf
  <2>. QED BY <1>3, <1>6, <2>1, ChargeGiven DEF AInv
<1>9. CountExact' /\ FirstSession'
  <2>1. CASE job[j].requeued
    <3>1. Unsettled' = Unsettled /\ Live \subseteq Live'
      BY <1>2, <1>5, <2>1 DEF Unsettled, Settled, Live
    <3>. QED BY <1>2, <1>3, <2>1, <3>1 DEF AInv, CountExact, FirstSession
  <2>2. CASE ~job[j].requeued
    <3>1. j \in Unsettled
      BY <1>2 DEF QInv, SettledGone, Unsettled
    <3>2. Unsettled' = Unsettled \ {j} /\ Live \ {j} \subseteq Live'
      BY <1>2, <1>5, <2>2 DEF Unsettled, Settled, Live
    <3>3. Cardinality(Unsettled \ {j}) = Cardinality(Unsettled) - 1
      BY <3>1, Finite, FS_RemoveElement
    <3>. QED BY <1>2, <1>3, <2>2, <3>2, <3>3 DEF AInv, CountExact, FirstSession
  <2>. QED BY <2>1, <2>2
<1>10. LaneExact'
  <2>1. /\ Tickets \subseteq Holders /\ Tickets' \subseteq Holders \ {w}
        /\ IsFiniteSet(Tickets)
    BY <1>6, Finite DEF Tickets
  <2>2. \A v \in Holders \ {w} : work[v].job # j => (v \in Tickets' <=> v \in Tickets)
    BY <1>2, <1>5, <1>6, <1>7 DEF Tickets
  <2>3. \A v \in Holders \ {w} : work[v].job = j => (v \in Tickets' <=> job[j].prio >= Sweep)
    BY <1>2, <1>5, <1>6, <1>7 DEF Tickets
  <2>4. \A v \in Holders : work[v].job = j =>
          (v \in Tickets <=> (job[j].prio >= Sweep \/ (job[j].ride /\ work[v].slot # {})))
    BY DEF Tickets
  <2>5. CASE job[j].prio >= Sweep
    <3>1. Tickets' = Tickets \ {w} /\ w \in Tickets
      <4>1. \A v \in Holders \ {w} : v \in Tickets' <=> v \in Tickets
        <5>1. \A v \in Holders \ {w} : work[v].job = j => v \in Tickets' /\ v \in Tickets
          BY <2>3, <2>4, <2>5
        <5>. QED BY <2>2, <5>1
      <4>. QED BY <1>4, <1>6, <2>1, <2>4, <2>5, <4>1
    <3>2. Cardinality(Tickets \ {w}) = Cardinality(Tickets) - 1
      BY <2>1, <3>1, FS_RemoveElement
    <3>. QED BY <1>3, <2>5, <3>1, <3>2 DEF AInv, LaneExact
  <2>6. CASE ~(job[j].prio >= Sweep) /\ job[j].ride
    \* the bundle's worker gives the slot back, whoever completes first
    <3>1. PICK r \in Workers : work[r].job = j /\ work[r].slot # {}
      BY <1>2, <2>6 DEF AInv, Rides
    <3>2. r \in Tickets
      BY <1>2, <2>4, <2>6, <3>1 DEF Holders
    <3>3. \A v \in Holders : work[v].job = j /\ v \in Tickets => v = r
      BY <1>2, <1>7, <2>4, <2>6, <3>1, OneRider
    <3>4. Tickets' = Tickets \ {r}
      BY <1>4, <1>6, <2>1, <2>2, <2>3, <2>6, <3>1, <3>3
    <3>5. Cardinality(Tickets \ {r}) = Cardinality(Tickets) - 1
      BY <2>1, <3>2, FS_RemoveElement
    <3>. QED BY <1>3, <2>6, <3>4, <3>5 DEF AInv, LaneExact
  <2>7. CASE ~(job[j].prio >= Sweep) /\ ~job[j].ride
    <3>1. Tickets' = Tickets
      BY <1>4, <1>6, <2>1, <2>2, <2>3, <2>4, <2>7
    <3>. QED BY <1>3, <2>7, <3>1 DEF AInv, LaneExact
  <2>. QED BY <2>5, <2>6, <2>7
<1>11. Rides'
  <2>1. ASSUME NEW i \in JobIds, job'[i].ride
        PROVE  \E v \in Workers : work'[v].job = i /\ work'[v].slot # {}
    <3>1. i # j /\ job[i].ride
      BY <1>5, <2>1
    <3>2. PICK v \in Workers : work[v].job = i /\ work[v].slot # {}
      BY <3>1 DEF AInv, Rides
    <3>. QED BY <1>2, <1>4, <3>1, <3>2
  <2>2. \A i \in JobIds : job'[i].requeued => job'[i].ride
    BY <1>5 DEF AInv, Rides
  <2>3. ASSUME NEW v \in Workers, wpc'[v] \in Transferring, work'[v].slot # {}
        PROVE  job'[work'[v].job].ride
    <3>1. v # w /\ wpc[v] \in Transferring /\ work[v].slot # {} /\ work'[v] = work[v]
      BY <1>2, <2>3
    <3>2. v \in Holders /\ job[work[v].job].ride
      BY <3>1 DEF AInv, Rides, QInv, Hands, Busy, Holders
    <3>3. work[v].job # j
      <4>1. ~RiderDone(v)
        BY <3>1 DEF RiderDone, Transferring
      <4>. QED BY <1>4, <3>1, <3>2, <4>1, LoneRider DEF Holders
    <3>. QED BY <1>5, <1>7, <3>1, <3>2, <3>3
  <2>. QED BY <1>2, <2>1, <2>2, <2>3 DEF Rides
<1>12. LaneSize'
  BY <1>2, LaneSizeKept DEF AInv
<1>. QED BY <1>8, <1>9, <1>10, <1>11, <1>12 DEF AInv

-----------------------------------------------------------------------------
(***************************************************************************)
(* Requests.                                                               *)
(***************************************************************************)
\* A promotion only concerns jobs that wait in the queue.
LEMMA EnqueueLane ==
    ASSUME TypeOK, NEW S \in SUBSET Tails, NEW prio \in Prios, Enqueue(S, prio),
           NEW j \in JobIds
    PROVE  /\ (job'[j].ride <=> job[j].ride)
           /\ job[j].copy # "queued" => job'[j].prio = job[j].prio
<1>. DEFINE last     == seq + Cardinality(Fresh(S))
            joined   == {active[t] : t \in S \ Fresh(S)}
            promoted == {i \in joined : job[i].copy = "queued" /\ prio < job[i].prio}
<1>1. job[j] \in Job /\ seq \in Nat
  BY DEF TypeOK
<1>2. Cardinality(Fresh(S)) \in Nat
  <2>1. Fresh(S) \subseteq Tails
    BY DEF Fresh
  <2>. QED BY <2>1, EngineAssumption, FS_Subset, FS_CardinalityType
<1>3. j \in 1..last /\ j \notin (seq + 1)..last
  BY <1>1, <1>2 DEF JobIds
<1>4. job'[j] = IF j \in promoted THEN [job[j] EXCEPT !.prio = prio] ELSE job[j]
  BY <1>3 DEF Enqueue
<1>5. CASE j \in promoted
  <2>1. job'[j] = [job[j] EXCEPT !.prio = prio] /\ job[j].copy = "queued"
    BY <1>4, <1>5
  <2>2. job'[j].ride <=> job[j].ride
    BY <1>1, <2>1 DEF Job
  <2>. QED BY <2>1, <2>2
<1>6. CASE j \notin promoted
  BY <1>4, <1>6
<1>. QED BY <1>5, <1>6

\* The new jobs.
LEMMA EnqueueNew ==
    ASSUME TypeOK, NEW S \in SUBSET Tails, NEW prio \in Prios, Enqueue(S, prio),
           NEW new, new = (seq + 1)..seq'
    PROVE  /\ JobIds' = JobIds \cup new /\ JobIds \cap new = {}
           /\ IsFiniteSet(new) /\ inflight' = inflight + Cardinality(new)
           /\ \A j \in new : /\ job'[j].state = "queued" /\ job'[j].copy = "queued"
                             /\ ~job'[j].ride /\ ~job'[j].requeued
<1>. DEFINE fresh == Fresh(S)
            last  == seq + Cardinality(fresh)
<1>1. seq' = last /\ seq \in Nat /\ Cardinality(fresh) \in Nat
  <2>1. fresh \subseteq Tails
    BY DEF Fresh
  <2>2. Cardinality(fresh) \in Nat
    BY <2>1, EngineAssumption, FS_Subset, FS_CardinalityType
  <2>. QED BY <2>2 DEF Enqueue, TypeOK
<1>2. JobIds' = JobIds \cup new /\ JobIds \cap new = {} /\ 1..last = JobIds \cup new
  BY <1>1 DEF JobIds
<1>3. IsFiniteSet(new) /\ Cardinality(new) = Cardinality(fresh)
  <2>1. /\ IsFiniteSet((seq + 1)..last)
        /\ Cardinality((seq + 1)..last) = IF seq + 1 > last THEN 0 ELSE last - (seq + 1) + 1
    <3>1. seq + 1 \in Int /\ last \in Int
      BY <1>1
    <3>. HIDE DEF last
    <3>. QED BY <3>1, FS_Interval
  <2>. QED BY <1>1, <2>1
<1>4. inflight' = inflight + Cardinality(new)
  BY <1>3 DEF Enqueue
<1>5. ASSUME NEW j \in new
      PROVE  /\ job'[j].state = "queued" /\ job'[j].copy = "queued"
             /\ ~job'[j].ride /\ ~job'[j].requeued
  <2>1. \E t : job'[j] = NewJob(t, prio)
    BY <1>1, <1>2 DEF Enqueue
  <2>. QED BY <2>1 DEF NewJob
<1>. QED BY <1>2, <1>3, <1>4, <1>5

\* Each new request is counted; a joined one is not counted again.
LEMMA AccountsEnqueue ==
    ASSUME TypeOK, QInv, AInv, NEW S \in SUBSET Tails, NEW prio \in Prios,
           Enqueue(S, prio), running,
           UNCHANGED <<pool, sweepRunning, buffered, worker>>
    PROVE  AInv'
<1>. DEFINE new == (seq + 1)..seq'
<1>1. /\ JobIds' = JobIds \cup new /\ JobIds \cap new = {}
      /\ IsFiniteSet(new) /\ inflight' = inflight + Cardinality(new)
      /\ \A j \in new : /\ job'[j].state = "queued" /\ job'[j].copy = "queued"
                        /\ ~job'[j].ride /\ ~job'[j].requeued
  BY EnqueueNew
<1>2. \A j \in JobIds : /\ job'[j].tail = job[j].tail /\ job'[j].state = job[j].state
                        /\ job'[j].copy = job[j].copy
                        /\ (job'[j].requeued <=> job[j].requeued)
                        /\ (job'[j].ride <=> job[j].ride)
                        /\ job[j].copy # "queued" => job'[j].prio = job[j].prio
  BY EnqueueKeeps, EnqueueLane
<1>3. UNCHANGED <<running, starts, target, sweepCap, sweepRunning, buffered, wpc, work>>
  BY DEF pool, worker
<1>4. Holders' = Holders /\ \A v \in Holders : v \in Workers /\ work[v].job \in JobIds
  BY <1>3, ChargeFacts DEF Holders
<1>. HIDE DEF new
<1>5. BufferedExact'
  BY <1>2, <1>3, <1>4, ChargeKept DEF AInv, TailOf
<1>6. Unsettled' = Unsettled \cup new /\ Live' = Live \cup new
  BY <1>1, <1>2 DEF Unsettled, Settled, Live
<1>7. CountExact'
  <2>1. Unsettled \cap new = {}
    BY <1>1 DEF Unsettled
  <2>2. Cardinality(Unsettled \cup new) = Cardinality(Unsettled) + Cardinality(new)
    <3>1. /\ Cardinality(Unsettled \cup new) =
                Cardinality(Unsettled) + Cardinality(new) - Cardinality(Unsettled \cap new)
      BY <1>1, Finite, FS_Union
    <3>2. Cardinality(Unsettled) \in Nat /\ Cardinality(new) \in Nat
      BY <1>1, Finite, FS_CardinalityType
    <3>. QED BY <2>1, <3>1, <3>2, FS_EmptySet
  <2>. QED BY <1>1, <1>6, <2>2 DEF AInv, CountExact
<1>8. FirstSession'
  BY <1>3, <1>6 DEF AInv, FirstSession
<1>9. LaneExact'
  <2>1. ASSUME NEW v \in Holders PROVE v \in Tickets' <=> v \in Tickets
    <3>1. CASE job[work[v].job].copy # "queued"
      BY <1>2, <1>3, <1>4, <3>1 DEF Tickets
    <3>2. CASE job[work[v].job].copy = "queued"
      \* the rider of a failed bundle: it has its slot for the bundle
      <4>1. RiderDone(v) /\ job[work[v].job].requeued
        BY <1>4, <3>2 DEF QInv, Holding, Holders
      <4>2. job[work[v].job].ride /\ work[v].slot # {}
        BY <1>4, <4>1 DEF AInv, Rides, RiderDone
      <4>. QED BY <1>2, <1>3, <1>4, <4>2 DEF Tickets
    <3>. QED BY <3>1, <3>2
  <2>2. Tickets' = Tickets
    BY <1>4, <2>1 DEF Tickets
  <2>. QED BY <1>3, <2>2 DEF AInv, LaneExact
<1>10. Rides'
  <2>1. \A j \in JobIds' : job'[j].ride => j \in JobIds /\ job[j].ride
    BY <1>1, <1>2
  <2>2. \A j \in JobIds' : job'[j].requeued => j \in JobIds /\ job[j].requeued
    BY <1>1, <1>2
  <2>3. \A v \in Workers : wpc[v] \in Transferring => work[v].job \in JobIds
    BY HeldIds DEF QInv, Hands, Busy
  <2>. QED BY <1>2, <1>3, <2>1, <2>2, <2>3 DEF AInv, Rides
<1>11. LaneSize'
  BY <1>3, LaneSizeKept DEF AInv
<1>. QED BY <1>5, <1>7, <1>8, <1>9, <1>10, <1>11 DEF AInv

\* What the callers do.
LEMMA AccountsClient ==
    ASSUME TypeOK, QInv, AInv, NEW c \in Clients, Client(c) PROVE AInv'
<1>1. UNCHANGED <<pool, sweepRunning, buffered, worker>>
  BY DEF Client, Check, Submit, Batch, Wake, Timeout, BatchPoll, BatchStop, Return,
         Told, ClientStep
<1>2. CASE UNCHANGED <<inflight, queue>>
  BY <1>1, <1>2, AccountsQuiet, LaneSizeKept DEF AInv, queue, worker, counters, pool
<1>3. ASSUME NEW S \in SUBSET Tails, NEW prio \in Prios, running, Enqueue(S, prio)
      PROVE  AInv'
  BY <1>1, <1>3, AccountsEnqueue
<1>4. CASE Submit(c)
  <2>1. call[c].tails \in SUBSET Tails /\ call[c].prio \in Prios
    BY DEF TypeOK, Call
  <2>. QED BY <1>2, <1>3, <1>4, <2>1 DEF Submit
<1>5. CASE Batch(c)
  <2>1. PICK r \in Requests : Batch(c)!2!(r)
    BY <1>5 DEF Batch
  <2>2. Missing(r.tails) \in SUBSET Tails /\ r.prio \in Prios
    BY RequestFields DEF Missing
  <2>. QED BY <1>2, <1>3, <2>1, <2>2
<1>6. CASE \/ Check(c) \/ Wake(c) \/ Timeout(c) \/ BatchPoll(c) \/ BatchStop(c)
           \/ Return(c)
  BY <1>2, <1>6 DEF Check, Wake, Timeout, BatchPoll, BatchStop, Return, Told
<1>. QED BY <1>4, <1>5, <1>6 DEF Client

-----------------------------------------------------------------------------
(***************************************************************************)
(* The pool.                                                               *)
(***************************************************************************)
\* While no thread exists nobody holds a slot of the lane.
LEMMA NoTickets ==
    ASSUME QInv, \A w \in Workers : wpc[w] = "off"
    PROVE  Holders = {} /\ Tickets = {} /\ Cardinality(Tickets) = 0
<1>1. Holders = {} /\ Tickets = {}
  BY NothingHeld DEF QInv, Holders, Tickets
<1>. QED BY <1>1, FS_EmptySet

\* The lane leaves one worker out, when there are several.
LEMMA CapBounds ==
    /\ CapFor(NumWorkers) \in 1..NumWorkers
    /\ \A n \in Nat \ {0} : CapFor(n) \in 1..n /\ (n > 1 => CapFor(n) = n - 1)
  BY Bounds DEF CapFor

\* A start empties the lane account, a stop leaves the others standing.
LEMMA AccountsPool ==
    ASSUME TypeOK, QInv, AInv,
           \/ Start \/ SetIngame \/ StopSignal \/ StopJoin \/ SetBundle \/ UNCHANGED vars
    PROVE  AInv'
<1>1. CASE StopSignal \/ SetBundle \/ UNCHANGED vars
  <2>1. UNCHANGED <<seq, job, counters, running, starts, target, sweepCap, wpc, work>>
    BY <1>1 DEF StopSignal, SetBundle, vars, pool, queue, worker
  <2>. QED BY <2>1, AccountsQuiet, LaneSizeKept DEF AInv
<1>2. CASE SetIngame
  <2>1. UNCHANGED <<seq, job, counters, running, starts, wpc, work>>
    BY <1>2 DEF SetIngame, queue, worker
  <2>2. LaneSize'
    BY <1>2, CapBounds DEF SetIngame, LaneSize
  <2>. QED BY <2>1, <2>2, AccountsQuiet
<1>3. CASE Start
  <2>1. /\ UNCHANGED <<seq, job, buffered, inflight, work>> /\ JobIds' = JobIds
        /\ ~running /\ starts' = starts + 1 /\ starts \in Nat /\ sweepRunning' = 0
        /\ target' = NumWorkers /\ sweepCap' = CapFor(NumWorkers)
        /\ \A w \in Workers : wpc'[w] = "idle"
    BY <1>3 DEF Start, queue, JobIds, TypeOK
  <2>2. Holders = {} /\ Tickets = {} /\ Cardinality({}) = 0
    BY <2>1, NoTickets DEF QInv, Hands
  <2>3. Holders' = {} /\ Tickets' = {} /\ Unsettled' = Unsettled
    BY <2>1, <2>2 DEF Holders, Tickets, Unsettled, Settled
  <2>4. BufferedExact'
    BY <2>1, <2>2, <2>3, ChargeKept DEF AInv
  <2>5. CountExact' /\ LaneExact'
    BY <2>1, <2>2, <2>3 DEF AInv, CountExact, LaneExact
  <2>6. FirstSession'
    <3>1. starts' = 1 => Unsettled = {}
      BY <2>1 DEF AInv, FirstSession, Unsettled, JobIds
    <3>. QED BY <2>1, <2>3, <3>1 DEF FirstSession
  <2>7. Rides'
    BY <2>1 DEF AInv, Rides, Transferring
  <2>8. LaneSize'
    BY <2>1, Bounds DEF LaneSize
  <2>. QED BY <2>4, <2>5, <2>6, <2>7, <2>8 DEF AInv
<1>4. CASE StopJoin
  <2>1. /\ UNCHANGED <<seq, counters, starts, wpc, work>> /\ JobIds' = JobIds
        /\ running /\ ~running' /\ \A w \in Workers : wpc[w] = "off"
    BY <1>4 DEF StopJoin, worker, JobIds
  <2>2. \A j \in JobIds : /\ job'[j].state = job[j].state
                          /\ (job'[j].ride <=> job[j].ride)
                          /\ (job'[j].requeued <=> job[j].requeued)
    BY <1>4 DEF StopJoin, TypeOK, Job
  <2>3. Holders = {} /\ Tickets = {}
    BY <2>1, NoTickets
  <2>4. Holders' = {} /\ Tickets' = {} /\ Unsettled' = Unsettled
    BY <2>1, <2>2, <2>3 DEF Holders, Tickets, Unsettled, Settled
  <2>5. BufferedExact'
    BY <2>1, <2>3, <2>4, ChargeKept DEF AInv, counters
  <2>6. CountExact' /\ LaneExact'
    BY <2>1, <2>3, <2>4 DEF AInv, CountExact, LaneExact, counters
  <2>7. FirstSession'
    BY <2>1 DEF AInv, FirstSession
  <2>8. Rides'
    BY <2>1, <2>2 DEF AInv, Rides, Transferring
  <2>9. LaneSize'
    BY <2>1 DEF LaneSize
  <2>. QED BY <2>5, <2>6, <2>7, <2>8, <2>9 DEF AInv
<1>. QED BY <1>1, <1>2, <1>3, <1>4

-----------------------------------------------------------------------------
(***************************************************************************)
(* The accounts are exact.                                                 *)
(***************************************************************************)
\* Initially every account is zero.
LEMMA AccountsInit == Init => AInv
<1>. SUFFICES ASSUME Init PROVE AInv
  OBVIOUS
<1>1. /\ JobIds = {} /\ Holders = {} /\ Tickets = {} /\ Unsettled = {} /\ Live = {}
      /\ \A w \in Workers : wpc[w] = "off"
  BY NoWorkFields DEF Init, JobIds, Holders, Tickets, Unsettled, Live
<1>2. Cardinality({}) = 0
  BY FS_EmptySet
<1>3. BufferedExact
  <2>1. SumOf(Charge, {}) = 0
    BY SumEmpty
  <2>. QED BY <1>1, <2>1, ChargeSum DEF Init
<1>4. CountExact /\ LaneExact /\ FirstSession /\ LaneSize
  BY <1>1, <1>2 DEF Init, CountExact, LaneExact, FirstSession, LaneSize
<1>5. Rides
  BY <1>1 DEF Rides, Transferring
<1>. QED BY <1>3, <1>4, <1>5 DEF AInv

\* Every step keeps the accounts.
LEMMA AccountsStep == IInv /\ AInv /\ [Next]_vars => AInv'
<1>. SUFFICES ASSUME TypeOK, QInv, AInv, [Next]_vars PROVE AInv'
  BY DEF IInv
<1>1. ASSUME NEW w \in Workers, Worker(w) PROVE AInv'
  BY <1>1, AccountsTakeBundle, AccountsTakeJob, AccountsTransfer, AccountsSettle,
     AccountsComplete DEF Worker
<1>. QED BY <1>1, AccountsClient, AccountsPool DEF Next

\* AccountsExact follows.
LEMMA AccountsHold == ASSUME IInv, AInv PROVE AccountsExact
<1>1. TypeOK /\ QInv
  BY DEF IInv
<1>2. BufferedExact
  BY DEF AInv
<1>3. InflightExact
  <2>. SUFFICES ASSUME running, starts = 1 PROVE inflight = Cardinality(Live)
    BY DEF InflightExact
  <2>1. Unsettled = Live
    BY <1>1 DEF AInv, FirstSession, QInv, SettledGone, Unsettled, Live
  <2>. QED BY <2>1 DEF AInv, CountExact
<1>4. LaneDrains
  <2>1. Cardinality(Tickets) \in Nat
    BY <1>1, Finite, FS_CardinalityType
  <2>2. Holders = {} => Cardinality(Tickets) = 0
    BY FS_EmptySet DEF Tickets
  <2>. QED BY <2>1, <2>2 DEF AInv, LaneExact, LaneDrains
<1>5. IdleHonest
  <2>. SUFFICES ASSUME running, Idle PROVE Holders = {} /\ \A j \in JobIds : Settled(j)
    BY DEF IdleHonest
  <2>1. Live = {} /\ Cardinality(Unsettled) = 0
    BY DEF Idle, AInv, CountExact
  <2>2. Unsettled = {}
    BY <1>1, <2>1, Finite, FS_EmptySet
  <2>3. Holders = {}
    BY <1>1, <2>1 DEF Holders, QInv, Hands
  <2>. QED BY <2>2, <2>3 DEF Unsettled
<1>. QED BY <1>2, <1>3, <1>4, <1>5 DEF AccountsExact

\* The backpressure account, the request account and the lane account agree
\* with the work in hand in every reachable state, and vfs_fetch_idle never
\* reports idle while something is left to do.
THEOREM AccountsAreExact == Spec => []AccountsExact
<1>1. IInv /\ AInv => AccountsExact
  BY AccountsHold
<1>. QED BY <1>1, AccountsInit, AccountsStep, Invariance, PTL DEF Spec

-----------------------------------------------------------------------------
(***************************************************************************)
(* Headroom: a worker outside the sweep lane.                              *)
(***************************************************************************)
\* Only a plain take puts a sweep, and no bundle, into free hands.
LEMMA SweepTaken ==
    ASSUME IInv, [Next]_vars, NEW w \in Workers, work[w].job = 0, work'[w].job # 0,
           work'[w].slot = {}
    PROVE  TakeJob(w)
<1>1. TypeOK /\ work \in [Workers -> Work]
  BY DEF IInv, TypeOK
<1>2. work' # work
  OBVIOUS
<1>3. PICK v \in Workers : Worker(v)
  <2>1. \A c \in Clients : Client(c) => UNCHANGED worker
    BY DEF Client, Check, Submit, Batch, Wake, Timeout, BatchPoll, BatchStop, Return,
           Told, ClientStep
  <2>2. Start \/ SetIngame \/ StopSignal \/ StopJoin \/ SetBundle => UNCHANGED work
    BY DEF Start, SetIngame, StopSignal, StopJoin, SetBundle, worker
  <2>. QED BY <1>2, <2>1, <2>2 DEF Next, vars, worker
<1>4. v = w
  <2>1. v # w => work'[w] = work[w]
    BY <1>1, <1>3 DEF Worker, TakeBundle, TakeJob, Exit, HttpBody, HttpBadSize,
                      HttpMissing, HttpError, StoreOpen, StoreWrite, BundleBody,
                      BundleBad, BundleSettle, Complete
  <2>. QED BY <2>1
<1>5. ~Complete(w)
  BY <1>1, NoWorkFields DEF Complete
<1>6. ~TakeBundle(w)
  <2>. SUFFICES ASSUME TakeBundle(w) PROVE FALSE
    OBVIOUS
  <2>. DEFINE slot == {job[j].tail : j \in Members}
  <2>1. PICK rider \in Members : work' = [work EXCEPT ![w] = InHand(rider, slot)]
    BY DEF TakeBundle
  <2>2. slot # {}
    OBVIOUS
  <2>3. work'[w].slot = slot
    BY <1>1, <2>1 DEF InHand
  <2>. QED BY <2>2, <2>3
<1>7. work[w] \in Work
  BY <1>1
<1>8. CASE HttpBody(w) \/ HttpError(w) \/ BundleBody(w) \/ BundleBad(w)
  <2>1. work'[w].job = work[w].job
    BY <1>1, <1>7, <1>8 DEF HttpBody, HttpError, BundleBody, BundleBad, Work
  <2>. QED BY <2>1
<1>9. CASE StoreWrite(w)
  <2>1. work'[w].job = work[w].job
    <3>1. CASE UNCHANGED work
      BY <3>1
    <3>2. CASE \E t \in Tails :
                  work' = [work EXCEPT ![w].todo = work[w].todo \ {t},
                                       ![w].ok = AllWritten(work[w].todo \ {t})]
      BY <1>1, <1>7, <3>2 DEF Work
    <3>. QED BY <1>9, <3>1, <3>2 DEF StoreWrite
  <2>. QED BY <2>1
<1>10. CASE Exit(w) \/ HttpBadSize(w) \/ HttpMissing(w) \/ StoreOpen(w) \/ BundleSettle(w)
  BY <1>2, <1>10 DEF Exit, HttpBadSize, HttpMissing, StoreOpen, BundleSettle
<1>. QED BY <1>3, <1>4, <1>5, <1>6, <1>8, <1>9, <1>10 DEF Worker

\* A sweep that is taken finds a slot, so fewer workers sweep than are active.
LEMMA HeadroomStep ==
    ASSUME IInv, AInv, IInv', AInv', [Next]_vars, NEW w \in Workers, target > 1,
           work[w].job = 0, Sweeping(w)', \A v \in Workers : work'[v].slot = {}
    PROVE  \E v \in Workers : v < target /\ ~Sweeping(v)'
<1>1. TakeJob(w)
  BY SweepTaken DEF Sweeping
<1>2. TypeOK /\ QInv /\ TypeOK' /\ QInv'
  BY DEF IInv
<1>3. PICK j \in JobIds : Best(j) /\ TakeJob(w)!2!(j)
  BY <1>1 DEF TakeJob
<1>4. work'[w].job = j /\ job'[j].prio = job[j].prio
  <2>1. job[j] \in Job /\ job[j].tail \in Tails /\ job[j].copy = "queued"
    BY <1>2, <1>3 DEF TypeOK, Job, Best, Runnable
  <2>2. active[job[j].tail] = j
    BY <1>2, <2>1 DEF QInv, ActiveMatchesQueue, Live
  <2>3. work'[w] = InHand(j, {})
    BY <1>2, <1>3, <2>2 DEF TypeOK
  <2>4. job'[j] = [job[j] EXCEPT !.copy = "running"]
    BY <1>2, <1>3 DEF TypeOK
  <2>. QED BY <2>1, <2>3, <2>4 DEF InHand, Job
<1>5. job[j].prio >= Sweep
  BY <1>4 DEF Sweeping
<1>6. sweepRunning < sweepCap /\ sweepRunning' = sweepRunning + 1
  BY <1>3, <1>5 DEF Best, Runnable
<1>7. running
  BY <1>1, <1>2 DEF TakeJob, MayTake, QInv, Hands
<1>8. target \in 1..NumWorkers /\ sweepCap = target - 1
  BY <1>7, CapBounds DEF AInv, LaneSize
<1>9. Cardinality(Tickets') = sweepRunning' /\ IsFiniteSet(Tickets')
  <2>1. IsFiniteSet(Tickets')
    <3>1. Tickets' \subseteq Workers
      BY DEF Tickets, Holders
    <3>. QED BY <1>2, <3>1, Finite, FS_Subset
  <2>. QED BY <2>1 DEF AInv, LaneExact
<1>. SUFFICES ASSUME \A v \in Workers : v < target => Sweeping(v)' PROVE FALSE
  OBVIOUS
<1>10. 0..(target - 1) \subseteq Tickets'
  <2>. SUFFICES ASSUME NEW v \in 0..(target - 1) PROVE v \in Tickets'
    OBVIOUS
  <2>1. v \in Workers /\ v < target
    BY <1>8, Bounds DEF Workers
  <2>2. Sweeping(v)' /\ work'[v].slot = {}
    BY <2>1
  <2>. QED BY <2>1, <2>2 DEF Sweeping, Tickets, Holders
<1>11. Cardinality(0..(target - 1)) = target
  <2>1. 0 \in Int /\ target - 1 \in Int
    BY <1>8, Bounds
  <2>2. Cardinality(0..(target - 1)) = IF 0 > target - 1 THEN 0 ELSE target - 1 - 0 + 1
    BY <2>1, FS_Interval
  <2>. QED BY <1>8, <2>2, Bounds
<1>12. target <= sweepRunning'
  BY <1>9, <1>10, <1>11, FS_Subset
<1>13. sweepRunning \in Int
  BY <1>2 DEF TypeOK
<1>. QED BY <1>6, <1>8, <1>12, <1>13, Bounds

\* Taking a sweep leaves one of several active workers free for demand, as
\* long as no bundle rides (vfs_fetch.cpp, the cap of the sweep lane).
THEOREM HeadroomHolds == Spec => HeadroomKept
<1>. DEFINE A == \A w \in Workers :
                   /\ target > 1 /\ work[w].job = 0 /\ Sweeping(w)'
                   /\ \A v \in Workers : work'[v].slot = {}
                   => \E v \in Workers : v < target /\ ~Sweeping(v)'
<1>1. IInv /\ AInv /\ IInv' /\ AInv' /\ [Next]_vars => [A]_vars
  BY HeadroomStep
<1>2. Spec => [](IInv /\ AInv)
  BY AccountsInit, AccountsStep, Invariance, PTL DEF Spec
<1>. QED BY <1>1, <1>2, PTL DEF Spec, HeadroomKept

-----------------------------------------------------------------------------
(***************************************************************************)
(* FetchEngine implements FetchService: each step of the engine is, seen   *)
(* from outside, one step of the service or none.                          *)
(***************************************************************************)
\* What a call keeps while it looks and waits.
Calls ==
    \A c \in Clients :
        /\ call[c].jobs \subseteq JobIds
        /\ cpc[c] = "checked" => call[c].kind # "batch" /\ \E t \in Tails : call[c].tails = {t}
        /\ cpc[c] = "waiting" => call[c].kind # "queue"
        /\ cpc[c] = "waiting" /\ call[c].kind # "batch" => \E j \in JobIds : call[c].jobs = {j}

-----------------------------------------------------------------------------
(***************************************************************************)
(* How the mapped state relates to the engine's.                           *)
(***************************************************************************)
LEMMA PendingIsLive == IInv => Service!Pending = Live /\ DOMAIN Outcomes = JobIds
<1>. SUFFICES ASSUME IInv PROVE Service!Pending = Live
  BY DEF Outcomes
<1>1. \A j \in JobIds : Outcome(j) = "pending" <=> job[j].copy # "none"
  BY DEF IInv, QInv, SettledGone, Outcome, Settled
<1>. QED BY <1>1 DEF Service!Pending, Outcomes, Live

\* A step that leaves every job's outcome and tail alone.
LEMMA JobsKept ==
    ASSUME UNCHANGED seq, \A j \in JobIds : /\ job'[j].tail = job[j].tail
                                            /\ Outcome(j)' = Outcome(j)
    PROVE  UNCHANGED <<AskedFor, Outcomes>>
<1>1. JobIds' = JobIds
  BY DEF JobIds
<1>2. AskedFor' = AskedFor
  BY <1>1 DEF AskedFor
<1>3. Outcomes' = Outcomes
  BY <1>1 DEF Outcomes
<1>. QED BY <1>2, <1>3

LEMMA CallsKept ==
    ASSUME UNCHANGED client PROVE UNCHANGED <<Wanted, Awaited, Replies>>
  BY DEF client, Wanted, Awaited, Replies, Reply

LEMMA QueueKept ==
    ASSUME UNCHANGED queue PROVE UNCHANGED <<AskedFor, Outcomes>>
<1>1. UNCHANGED seq /\ UNCHANGED job
  BY DEF queue
<1>2. \A j \in JobIds : job'[j].tail = job[j].tail /\ Outcome(j)' = Outcome(j)
  BY <1>1 DEF Outcome, Settled
<1>. QED BY <1>1, <1>2, JobsKept

\* A step the service does not see.
Unseen == UNCHANGED Service!vars

LEMMA Silent ==
    ASSUME UNCHANGED <<stop, store, client>>, UNCHANGED <<AskedFor, Outcomes>>
    PROVE  Unseen
  BY CallsKept DEF Unseen, Service!vars

-----------------------------------------------------------------------------
(***************************************************************************)
(* The workers.                                                            *)
(***************************************************************************)
\* Taking a job is not seen.
LEMMA TakeUnseen ==
    ASSUME IInv, NEW w \in Workers, TakeBundle(w) \/ TakeJob(w) PROVE Unseen
<1>1. /\ TypeOK /\ job \in [JobIds -> Job]
      /\ \A j \in JobIds : Settled(j) => job[j].copy = "none"
  BY DEF IInv, TypeOK, QInv, SettledGone
<1>2. UNCHANGED <<stop, seq, store, client>>
  BY DEF TakeBundle, TakeJob, pool
<1>3. CASE TakeBundle(w)
  <2>1. PICK rider \in Members :
          job' = [i \in JobIds |-> IF i \in Members THEN Folded(i, rider) ELSE job[i]]
    BY <1>3 DEF TakeBundle
  <2>2. ASSUME NEW j \in JobIds
        PROVE  job'[j].tail = job[j].tail /\ Outcome(j)' = Outcome(j)
    <3>1. CASE j \in Members
      <4>1. job[j].copy = "queued" /\ ~Settled(j)
        BY <1>1, <3>1 DEF Members, Foldable
      <4>2. /\ job'[j].tail = job[j].tail /\ job'[j].copy = "running"
            /\ job'[j].state = "running"
        BY <1>1, <2>1, <3>1, FoldedFields
      <4>. QED BY <4>1, <4>2 DEF Outcome, Settled
    <3>2. CASE j \notin Members
      <4>1. job'[j] = job[j]
        BY <2>1, <3>2
      <4>. QED BY <4>1 DEF Outcome, Settled
    <3>. QED BY <3>1, <3>2
  <2>. QED BY <1>2, <2>2, JobsKept, Silent
<1>4. CASE TakeJob(w)
  <2>1. PICK i \in JobIds : Best(i) /\ job' = [job EXCEPT ![i].copy = "running"]
    BY <1>4 DEF TakeJob
  <2>2. job[i].copy = "queued"
    BY <2>1 DEF Best, Runnable
  <2>3. ASSUME NEW j \in JobIds
        PROVE  job'[j].tail = job[j].tail /\ Outcome(j)' = Outcome(j)
    <3>1. /\ job'[j].tail = job[j].tail /\ job'[j].state = job[j].state
          /\ job'[j].copy = IF j = i THEN "running" ELSE job[j].copy
      BY <1>1, <2>1 DEF Job
    <3>. QED BY <1>1, <2>2, <3>1 DEF Outcome, Settled
  <2>. QED BY <1>2, <2>3, JobsKept, Silent
<1>. QED BY <1>3, <1>4

\* A transfer touches the store where a request is under way, or is not seen.
LEMMA TransferSeen ==
    ASSUME IInv, NEW w \in Workers,
           \/ HttpBody(w) \/ HttpBadSize(w) \/ HttpMissing(w) \/ HttpError(w)
           \/ StoreOpen(w) \/ StoreWrite(w) \/ BundleBody(w) \/ BundleBad(w) \/ Exit(w)
    PROVE  Unseen \/ Service!Write
<1>1. /\ TypeOK /\ QInv /\ Written
      /\ UNCHANGED <<stop, queue, client>>
  BY DEF IInv, HttpBody, HttpBadSize, HttpMissing, HttpError, StoreOpen, StoreWrite,
         BundleBody, BundleBad, Exit, Transferred, pool
<1>2. UNCHANGED <<AskedFor, Outcomes>> /\ UNCHANGED <<Wanted, Awaited, Replies>>
  BY <1>1, QueueKept, CallsKept
<1>3. CASE UNCHANGED store
  BY <1>1, <1>2, <1>3, Silent
<1>4. ASSUME NEW t \in Tails, NEW f \in File, store' = [store EXCEPT ![t] = f],
             wpc[w] \in Transferring, t \in Cargo(w)
      PROVE  Service!Write
  <2>1. active[t] \in JobIds /\ job[active[t]].tail = t /\ job[active[t]].copy # "none"
    <3>1. /\ wpc[w] \in Busy /\ work[w].job \in Live /\ TailOf(w) \in Tails
          /\ active[TailOf(w)] = work[w].job
      BY <1>1, <1>4, HeldFacts DEF Busy
    <3>2. CASE work[w].slot = {}
      BY <1>4, <3>1, <3>2 DEF Cargo, TailOf, Live
    <3>3. CASE work[w].slot # {}
      <4>1. active[t] \in JobIds /\ job[active[t]].copy = "running"
        BY <1>1, <1>4, <3>3 DEF Cargo, QInv, Slots
      <4>2. active[t] # 0
        BY <4>1 DEF JobIds
      <4>. QED BY <1>1, <4>1, <4>2 DEF QInv, ActiveMatchesQueue
    <3>. QED BY <3>2, <3>3
  <2>2. active[t] \in Service!Pending /\ AskedFor[active[t]] = t
    BY <2>1, PendingIsLive DEF Live, AskedFor
  <2>3. f \in Service!File
    BY <1>4 DEF File, Service!File
  <2>. QED BY <1>1, <1>2, <1>4, <2>2, <2>3 DEF Service!Write
<1>5. CASE HttpBadSize(w)
  <2>1. wpc[w] \in Transferring /\ TailOf(w) \in Tails
    BY <1>1, <1>5, HeldFacts DEF HttpBadSize, Busy, Transferring
  <2>2. TailOf(w) \in Cargo(w)
    BY <1>1, <1>5 DEF HttpBadSize, Cargo, QInv, Hands
  <2>3. store' = [store EXCEPT ![TailOf(w)] = "absent"] /\ "absent" \in File
    BY <1>5 DEF HttpBadSize, File
  <2>. QED BY <1>4, <2>1, <2>2, <2>3
<1>6. CASE StoreOpen(w) \/ StoreWrite(w)
  <2>1. wpc[w] \in Transferring
    BY <1>6 DEF StoreOpen, StoreWrite, Transferring
  <2>2. \/ UNCHANGED store
        \/ \E t \in Tails, f \in File : IsNext(w, t) /\ store' = [store EXCEPT ![t] = f]
    BY <1>6 DEF StoreOpen, StoreWrite, File, IsNext, TypeOK, Work
  <2>3. \A t : IsNext(w, t) => t \in Cargo(w)
    BY <1>1, <1>6 DEF IsNext, Written, StoreOpen, StoreWrite
  <2>. QED BY <1>3, <1>4, <2>1, <2>2, <2>3
<1>7. CASE \/ HttpBody(w) \/ HttpMissing(w) \/ HttpError(w) \/ BundleBody(w)
           \/ BundleBad(w) \/ Exit(w)
  BY <1>3, <1>7 DEF HttpBody, HttpMissing, HttpError, BundleBody, BundleBad, Exit
<1>. QED BY <1>5, <1>6, <1>7

\* A bundle's settlement delivers its waiting members, or is not seen.
LEMMA SettleSeen ==
    ASSUME IInv, NEW w \in Workers, BundleSettle(w)
    PROVE  Unseen \/ Service!Deliver
<1>. DEFINE mine == {active[t] : t \in work[w].slot} \ {0}
            waiters == {j \in mine : job[j].wait}
<1>1. /\ TypeOK /\ QInv /\ Written /\ job \in [JobIds -> Job]
      /\ \A j \in JobIds : Settled(j) => job[j].copy = "none"
  BY DEF IInv, TypeOK, QInv, SettledGone
<1>2. UNCHANGED <<stop, seq, store, client>> /\ JobIds' = JobIds
  BY DEF BundleSettle, pool, JobIds
<1>3. SettleShape(w, mine)
  BY <1>1, SettleFacts
<1>4. /\ mine \subseteq JobIds
      /\ \A j \in mine : job[j].copy = "running" /\ job[j].tail \in work[w].slot
  BY <1>3 DEF SettleShape
<1>5. CASE work[w].ok
  <2>1. job' = [j \in JobIds |-> IF j \in waiters THEN Delivered(j) ELSE job[j]]
    BY <1>5 DEF BundleSettle
  <2>2. ASSUME NEW j \in JobIds
        PROVE  /\ job'[j].tail = job[j].tail
               /\ Outcome(j)' = IF j \in waiters THEN "done" ELSE Outcome(j)
    <3>1. CASE j \in waiters
      <4>1. job'[j].tail = job[j].tail /\ job'[j].state = "done"
        BY <1>1, <2>1, <3>1, DeliveredFields
      <4>. QED BY <3>1, <4>1 DEF Outcome, Settled
    <3>2. CASE j \notin waiters
      <4>1. job'[j] = job[j]
        BY <2>1, <3>2
      <4>. QED BY <3>2, <4>1 DEF Outcome, Settled
    <3>. QED BY <3>1, <3>2
  <2>3. AskedFor' = AskedFor
    BY <1>2, <2>2 DEF AskedFor
  <2>4. Outcomes' = [r \in DOMAIN Outcomes |-> IF r \in waiters THEN "done" ELSE Outcomes[r]]
    BY <1>2, <2>2 DEF Outcomes
  <2>5. waiters \in SUBSET Service!Pending
    BY <1>4, PendingIsLive DEF Live
  <2>6. \A r \in waiters : store[AskedFor[r]] = "whole"
    <3>1. \A r \in waiters : AskedFor[r] \in work[w].slot
      BY <1>4 DEF AskedFor
    <3>2. wpc[w] = "settle" /\ work[w].slot # {}
      BY <1>3 DEF SettleShape
    <3>. QED BY <1>1, <1>5, <3>1, <3>2 DEF Written, Cargo
  <2>7. UNCHANGED <<Wanted, Awaited, Replies>>
    BY <1>2, CallsKept
  <2>. QED BY <1>2, <2>3, <2>4, <2>5, <2>6, <2>7 DEF Service!Deliver, Service!Finish
<1>6. CASE ~work[w].ok
  <2>1. job' = [j \in JobIds |-> IF j \in mine THEN Requeue(j) ELSE job[j]]
    BY <1>6 DEF BundleSettle
  <2>2. ASSUME NEW j \in JobIds
        PROVE  job'[j].tail = job[j].tail /\ Outcome(j)' = Outcome(j)
    <3>1. CASE j \in mine
      <4>1. /\ job'[j].tail = job[j].tail /\ job'[j].copy = "queued"
            /\ job'[j].state = "queued"
        BY <1>1, <2>1, <3>1, RequeueFields
      <4>2. job[j].copy = "running" /\ ~Settled(j)
        BY <1>1, <1>4, <3>1
      <4>. QED BY <4>1, <4>2 DEF Outcome, Settled
    <3>2. CASE j \notin mine
      <4>1. job'[j] = job[j]
        BY <2>1, <3>2
      <4>. QED BY <4>1 DEF Outcome, Settled
    <3>. QED BY <3>1, <3>2
  <2>. QED BY <1>2, <2>2, JobsKept, Silent
<1>. QED BY <1>5, <1>6

\* A completion delivers or fails its request; a requeued rider's is not seen.
LEMMA CompleteSeen ==
    ASSUME IInv, NEW w \in Workers, Complete(w)
    PROVE  Unseen \/ Service!Deliver \/ Service!Fail
<1>. DEFINE i == work[w].job
<1>1. /\ TypeOK /\ QInv /\ Written /\ job \in [JobIds -> Job]
      /\ \A j \in JobIds : Settled(j) => job[j].copy = "none"
      /\ work[w].ok \in BOOLEAN
  BY DEF IInv, TypeOK, QInv, SettledGone, Work
<1>2. UNCHANGED <<stop, seq, store, client>> /\ JobIds' = JobIds
  BY DEF Complete, pool, JobIds
<1>3. /\ i \in JobIds /\ job[i].copy # "none" /\ ~Settled(i)
      /\ work[w].ok => store[job[i].tail] = "whole"
  <2>1. wpc[w] = "complete" /\ wpc[w] \in Busy
    BY DEF Complete, Busy
  <2>2. i \in JobIds /\ i \in Live
    BY <1>1, <2>1, HeldFacts
  <2>. QED BY <1>1, <2>1, <2>2 DEF Live, Written, TailOf
<1>4. CASE job[i].requeued
  <2>1. job' = [job EXCEPT ![i] = Released(i)]
    BY <1>4 DEF Complete
  <2>2. ASSUME NEW j \in JobIds
        PROVE  job'[j].tail = job[j].tail /\ Outcome(j)' = Outcome(j)
    <3>1. /\ job'[j].tail = job[j].tail /\ job'[j].copy = job[j].copy
          /\ job'[j].state = job[j].state
      BY <1>1, <2>1, ReleasedFields
    <3>. QED BY <3>1 DEF Outcome, Settled
  <2>. QED BY <1>2, <2>2, JobsKept, Silent
<1>5. CASE ~job[i].requeued
  <2>. DEFINE as == IF work[w].ok THEN "done" ELSE "failed"
  <2>1. job' = [job EXCEPT ![i] = Finished(i, work[w].ok)]
    BY <1>5 DEF Complete
  <2>2. ASSUME NEW j \in JobIds
        PROVE  /\ job'[j].tail = job[j].tail
               /\ Outcome(j)' = IF j \in {i} THEN as ELSE Outcome(j)
    <3>1. CASE j = i
      <4>1. job'[j].tail = job[j].tail /\ job'[j].state = as
        BY <1>1, <2>1, <3>1, FinishedFields
      <4>. QED BY <3>1, <4>1 DEF Outcome, Settled
    <3>2. CASE j # i
      <4>1. job'[j] = job[j]
        BY <1>1, <2>1, <3>2
      <4>. QED BY <3>2, <4>1 DEF Outcome, Settled
    <3>. QED BY <3>1, <3>2
  <2>3. AskedFor' = AskedFor
    BY <1>2, <2>2 DEF AskedFor
  <2>4. Outcomes' = [r \in DOMAIN Outcomes |-> IF r \in {i} THEN as ELSE Outcomes[r]]
    BY <1>2, <2>2 DEF Outcomes
  <2>5. i \in Service!Pending /\ {i} \in SUBSET Service!Pending
    BY <1>3, PendingIsLive DEF Live
  <2>6. work[w].ok => \A r \in {i} : store[AskedFor[r]] = "whole"
    BY <1>3 DEF AskedFor
  <2>7. UNCHANGED <<Wanted, Awaited, Replies>>
    BY <1>2, CallsKept
  <2>8. Service!Finish({i}, as)
    BY <1>2, <2>3, <2>4, <2>7 DEF Service!Finish
  <2>9. CASE work[w].ok
    BY <1>2, <2>5, <2>6, <2>8, <2>9 DEF Service!Deliver
  <2>10. CASE ~work[w].ok
    BY <1>2, <2>5, <2>8, <2>10 DEF Service!Fail
  <2>. QED BY <2>9, <2>10
<1>. QED BY <1>4, <1>5

LEMMA WorkerSeen ==
    ASSUME IInv, NEW w \in Workers, Worker(w) PROVE Unseen \/ Service!Next
<1>1. Unseen \/ Service!Write \/ Service!Deliver \/ Service!Fail
  BY TakeUnseen, TransferSeen, SettleSeen, CompleteSeen DEF Worker
<1>. QED BY <1>1 DEF Service!Next

-----------------------------------------------------------------------------
(***************************************************************************)
(* The pool.                                                               *)
(***************************************************************************)
LEMMA PoolSeen ==
    ASSUME IInv, Start \/ SetIngame \/ StopSignal \/ StopJoin \/ SetBundle
    PROVE  Unseen \/ Service!Next
<1>1. UNCHANGED <<store, client>> /\ UNCHANGED <<Wanted, Awaited, Replies>>
  BY CallsKept DEF Start, SetIngame, StopSignal, StopJoin, SetBundle
<1>2. CASE Start \/ SetIngame \/ StopSignal \/ SetBundle
  <2>1. UNCHANGED queue /\ stop \in BOOLEAN /\ stop' \in BOOLEAN
    BY <1>2 DEF Start, SetIngame, StopSignal, SetBundle, IInv, TypeOK, pool
  <2>. QED BY <1>1, <2>1, QueueKept DEF Service!Next, Service!Switch
<1>3. CASE StopJoin
  <2>1. /\ stop /\ UNCHANGED <<stop, seq>> /\ JobIds' = JobIds
        /\ job' = [j \in JobIds |-> [job[j] EXCEPT !.copy = "none"]]
    BY <1>3 DEF StopJoin, JobIds
  <2>2. ASSUME NEW j \in JobIds
        PROVE  /\ job'[j].tail = job[j].tail
               /\ Outcome(j)' = IF j \in Service!Pending THEN "abandoned" ELSE Outcome(j)
    <3>1. /\ job'[j].tail = job[j].tail /\ job'[j].state = job[j].state
          /\ job'[j].copy = "none"
      BY <2>1 DEF IInv, TypeOK, Job
    <3>2. j \in Service!Pending <=> job[j].copy # "none"
      BY PendingIsLive DEF Live
    <3>3. Settled(j) => job[j].copy = "none"
      BY DEF IInv, QInv, SettledGone
    <3>. QED BY <3>1, <3>2, <3>3 DEF Outcome, Settled
  <2>3. AskedFor' = AskedFor
    BY <2>1, <2>2 DEF AskedFor
  <2>4. Outcomes' = [r \in DOMAIN Outcomes |->
                       IF r \in Service!Pending THEN "abandoned" ELSE Outcomes[r]]
    BY <2>1, <2>2 DEF Outcomes
  <2>. QED BY <1>1, <2>1, <2>3, <2>4 DEF Service!Next, Service!Abandon, Service!Finish
<1>. QED BY <1>2, <1>3

-----------------------------------------------------------------------------
(***************************************************************************)
(* The callers.                                                            *)
(***************************************************************************)
\* One call moves on; the service sees no other change in the calls.
Moves(c) == \A d \in Clients \ {c} : cpc'[d] = cpc[d] /\ call'[d] = call[d]

LEMMA OneCall ==
    ASSUME NEW c \in Clients, Moves(c)
    PROVE  /\ Wanted' = [Wanted EXCEPT ![c] = Wanted'[c]]
           /\ Awaited' = [Awaited EXCEPT ![c] = Awaited'[c]]
           /\ Replies' = [Replies EXCEPT ![c] = Replies'[c]]
<1>1. Wanted' = [Wanted EXCEPT ![c] = Wanted'[c]]
  BY DEF Moves, Wanted
<1>2. Awaited' = [Awaited EXCEPT ![c] = Awaited'[c]]
  BY DEF Moves, Awaited
<1>3. Replies' = [Replies EXCEPT ![c] = Replies'[c]]
  BY DEF Moves, Replies
<1>. QED BY <1>1, <1>2, <1>3

LEMMA Stepping ==
    ASSUME TypeOK, NEW c \in Clients, NEW pc, ClientStep(c, pc), NEW r,
           call' = [call EXCEPT ![c] = r]
    PROVE  /\ Moves(c) /\ UNCHANGED <<stop, store>>
           /\ cpc'[c] = pc /\ call'[c] = r
  BY DEF TypeOK, Moves, ClientStep, pool

\* No tail has two requests under way.
OneEach == \A q, r \in Service!Pending : AskedFor[q] = AskedFor[r] => q = r

LEMMA OnePending == IInv => OneEach
  BY PendingIsLive DEF OneEach, AskedFor, Live, IInv, QInv, ActiveMatchesQueue

LEMMA NothingAsked ==
    ASSUME IInv, UNCHANGED <<AskedFor, Outcomes>> PROVE Service!Grow
<1>1. DOMAIN AskedFor = DOMAIN Outcomes
  BY DEF AskedFor, Outcomes
<1>2. Service!Pending' = Service!Pending
  BY DEF Service!Pending
<1>. QED BY <1>1, <1>2, OnePending DEF Service!Grow, OneEach

\* An enqueue adds requests only for tails that have none, and leaves one
\* under way for each tail.
LEMMA EnqueueGrows ==
    ASSUME IInv, IInv', NEW S \in SUBSET Tails, NEW prio \in Prios, Enqueue(S, prio)
    PROVE  /\ Service!Grow
           /\ \A t \in S : active'[t] \in Service!Pending' /\ AskedFor'[active'[t]] = t
<1>1. TypeOK /\ TypeOK' /\ ActiveMatchesQueue'
  BY DEF IInv, QInv
<1>2. IInv' => (Service!Pending = Live /\ DOMAIN Outcomes = JobIds)'
  BY PendingIsLive, PTL
<1>3. IInv' => OneEach'
  BY OnePending, PTL
<1>4. Cardinality(Fresh(S)) \in Nat /\ seq \in Nat
  <2>1. Fresh(S) \subseteq Tails
    BY DEF Fresh
  <2>2. Cardinality(Fresh(S)) \in Nat
    BY <2>1, EngineAssumption, FS_Subset, FS_CardinalityType
  <2>. QED BY <1>1, <2>2 DEF TypeOK
<1>5. seq' = seq + Cardinality(Fresh(S))
  BY DEF Enqueue
<1>6. JobIds \subseteq JobIds'
  BY <1>4, <1>5 DEF JobIds
<1>7. ASSUME NEW j \in JobIds
      PROVE  AskedFor'[j] = AskedFor[j] /\ Outcomes'[j] = Outcomes[j]
  <2>1. /\ job'[j].tail = job[j].tail /\ job'[j].copy = job[j].copy
        /\ job'[j].state = job[j].state
    BY <1>1, EnqueueKeeps
  <2>2. Outcome(j)' = Outcome(j)
    BY <2>1 DEF Outcome, Settled
  <2>. QED BY <1>6, <2>1, <2>2 DEF AskedFor, Outcomes
<1>8. JobIds' \ JobIds \subseteq Live'
  <2>. SUFFICES ASSUME NEW j \in JobIds' \ JobIds PROVE job'[j].copy # "none"
    BY DEF Live
  <2>1. PICK tail \in [(seq + 1)..(seq + Cardinality(Fresh(S))) -> Fresh(S)] :
          \A i \in 1..(seq + Cardinality(Fresh(S))) :
            i \in (seq + 1)..(seq + Cardinality(Fresh(S))) => job'[i] = NewJob(tail[i], prio)
    BY DEF Enqueue
  <2>2. /\ j \in 1..(seq + Cardinality(Fresh(S)))
        /\ j \in (seq + 1)..(seq + Cardinality(Fresh(S)))
    BY <1>4, <1>5 DEF JobIds
  <2>3. \A t \in Fresh(S) : NewJob(t, prio).copy = "queued"
    BY DEF NewJob
  <2>. QED BY <2>1, <2>2, <2>3
<1>9. ASSUME NEW t \in S
      PROVE  active'[t] \in Service!Pending' /\ AskedFor'[active'[t]] = t
  <2>1. active'[t] \in Live' /\ job'[active'[t]].tail = t
    <3>1. active'[t] \in 1..MaxJobs /\ MaxJobs \in Nat
      BY <1>1, EnqueueType, Bounds
    <3>2. active'[t] # 0
      BY <3>1
    <3>. QED BY <1>1, <3>2 DEF ActiveMatchesQueue
  <2>. QED BY <1>2, <2>1 DEF AskedFor, Live
<1>10. DOMAIN AskedFor' = DOMAIN Outcomes' /\ DOMAIN Outcomes = JobIds /\ DOMAIN Outcomes' = JobIds'
  BY DEF AskedFor, Outcomes
<1>11. Service!Grow
  BY <1>2, <1>3, <1>6, <1>7, <1>8, <1>10 DEF Service!Grow, OneEach
<1>. QED BY <1>9, <1>11

\* A call that asks.
LEMMA AskSeen ==
    ASSUME NEW c \in Clients, Moves(c), UNCHANGED <<stop, store>>, Service!Grow,
           Replies[c] = "none", Wanted'[c] \in SUBSET Tails,
           NEW R \in SUBSET Service!Pending',
           \A t \in Wanted'[c] : store[t] # "absent" \/ \E r \in R : AskedFor'[r] = t,
           \A r \in R : AskedFor'[r] \in Wanted'[c],
           \/ Replies'[c] \in {"waits", "timed"} /\ Awaited'[c] = R
           \/ /\ Replies'[c] \in {"left", "yes"} /\ UNCHANGED Awaited
              /\ Replies'[c] = "yes" => R = {}
    PROVE  Service!Ask(c)
  BY OneCall DEF Service!Ask

\* Looking for the file answers at once, or is not seen.
LEMMA CheckSeen ==
    ASSUME IInv, NEW c \in Clients, Check(c) PROVE Unseen \/ Service!Ask(c)
<1>1. PICK q \in Requests :
        /\ cpc[c] = "idle"
        /\ call' = [call EXCEPT ![c] = [NoCall EXCEPT !.kind = q.kind, !.tails = q.tails,
                                                      !.prio = q.prio]]
        /\ ClientStep(c, IF Missing(q.tails) = {} THEN "ok" ELSE "checked")
        /\ UNCHANGED <<inflight, queue>>
  BY DEF Check
<1>2. /\ TypeOK /\ q.tails \in SUBSET Tails
      /\ UNCHANGED <<AskedFor, Outcomes>> /\ Service!Grow
  BY <1>1, QueueKept, NothingAsked, RequestFields DEF IInv
<1>3. /\ Moves(c) /\ UNCHANGED <<stop, store>>
      /\ cpc'[c] = IF Missing(q.tails) = {} THEN "ok" ELSE "checked"
      /\ call'[c] = [NoCall EXCEPT !.kind = q.kind, !.tails = q.tails, !.prio = q.prio]
  BY <1>1, <1>2, Stepping
<1>4. call'[c].tails = q.tails
  BY <1>3 DEF NoCall
<1>5. Replies[c] = "none" /\ Wanted[c] = {} /\ Awaited[c] = {}
  BY <1>1 DEF Replies, Wanted, Awaited, Reply
<1>6. Awaited'[c] = {}
  BY <1>3 DEF Awaited
<1>7. UNCHANGED Awaited
  <2>1. Awaited' = [Awaited EXCEPT ![c] = Awaited'[c]]
    BY <1>3, OneCall
  <2>. QED BY <1>5, <1>6, <2>1 DEF Awaited
<1>8. CASE Missing(q.tails) = {}
  <2>1. Wanted'[c] = q.tails /\ Replies'[c] \in {"left", "yes"}
    BY <1>3, <1>4, <1>8 DEF Wanted, Replies, Reply
  <2>2. \A t \in q.tails : store[t] # "absent"
    BY <1>8 DEF Missing
  <2>3. {} \in SUBSET Service!Pending'
    OBVIOUS
  <2>. QED BY <1>2, <1>3, <1>5, <1>7, <2>1, <2>2, <2>3, AskSeen
<1>9. CASE Missing(q.tails) # {}
  <2>1. Wanted'[c] = {} /\ Replies'[c] = "none"
    BY <1>3, <1>9 DEF Wanted, Replies, Reply
  <2>2. UNCHANGED Wanted
    BY <1>3, <1>5, <2>1 DEF Wanted, Moves
  <2>3. UNCHANGED Replies
    BY <1>3, <1>5, <2>1 DEF Replies, Moves
  <2>. QED BY <1>2, <1>3, <1>7, <2>2, <2>3 DEF Unseen, Service!vars
<1>. QED BY <1>8, <1>9

\* A call that is turned away.
LEMMA RefuseSeen ==
    ASSUME NEW c \in Clients, Moves(c), UNCHANGED <<stop, store>>,
           UNCHANGED <<AskedFor, Outcomes>>, UNCHANGED Awaited,
           Replies[c] = "none", Wanted'[c] \in SUBSET Tails, Replies'[c] = "no"
    PROVE  Service!Refuse(c)
  BY OneCall DEF Service!Refuse

\* What a call waits for does not change while it does not wait.
LEMMA NotWaiting ==
    ASSUME NEW c \in Clients, Moves(c), cpc[c] # "waiting", cpc'[c] # "waiting"
    PROVE  UNCHANGED Awaited
  BY DEF Awaited, Moves

LEMMA SubmitSeen ==
    ASSUME IInv, IInv', Calls, NEW c \in Clients, Submit(c) PROVE Service!Next
<1>1. /\ TypeOK /\ cpc[c] = "checked" /\ call[c].kind # "batch"
      /\ call[c].tails \in SUBSET Tails /\ call[c].prio \in Prios /\ call[c] \in Call
  BY DEF IInv, TypeOK, Call, Calls, Submit
<1>2. Replies[c] = "none"
  BY <1>1 DEF Replies, Reply
<1>3. CASE ~running
  <2>1. ClientStep(c, "fail") /\ UNCHANGED queue /\ call' = call
    BY <1>3 DEF Submit
  <2>2. Moves(c) /\ UNCHANGED <<stop, store>> /\ cpc'[c] = "fail" /\ call'[c] = call[c]
    BY <1>1, <2>1 DEF Moves, ClientStep, pool, TypeOK
  <2>3. /\ Wanted'[c] \in SUBSET Tails /\ Replies'[c] = "no" /\ UNCHANGED Awaited
        /\ UNCHANGED <<AskedFor, Outcomes>>
    BY <1>1, <2>1, <2>2, NotWaiting, QueueKept DEF Wanted, Replies, Reply
  <2>. QED BY <1>2, <2>2, <2>3, RefuseSeen DEF Service!Next
<1>4. CASE running
  <2>. DEFINE S == call[c].tails
              R == {active'[t] : t \in S}
  <2>1. /\ Enqueue(S, call[c].prio)
        /\ call' = [call EXCEPT ![c].jobs = R]
        /\ ClientStep(c, IF call[c].kind = "queue" THEN "ok" ELSE "waiting")
    BY <1>4 DEF Submit
  <2>2. /\ Moves(c) /\ UNCHANGED <<stop, store>>
        /\ cpc'[c] = IF call[c].kind = "queue" THEN "ok" ELSE "waiting"
        /\ call'[c] = [call[c] EXCEPT !.jobs = R]
    BY <1>1, <2>1 DEF Moves, ClientStep, pool, TypeOK
  <2>3. call'[c].tails = S /\ call'[c].kind = call[c].kind /\ call'[c].jobs = R
    BY <1>1, <2>2 DEF Call
  <2>4. /\ Service!Grow
        /\ \A t \in S : active'[t] \in Service!Pending' /\ AskedFor'[active'[t]] = t
    BY <1>1, <2>1, EnqueueGrows
  <2>5. /\ R \in SUBSET Service!Pending'
        /\ \A t \in S : \E r \in R : AskedFor'[r] = t
        /\ \A r \in R : AskedFor'[r] \in S
    BY <2>4
  <2>6. Wanted'[c] = S
    BY <2>2, <2>3 DEF Wanted
  <2>7. \/ Replies'[c] \in {"waits", "timed"} /\ Awaited'[c] = R
        \/ Replies'[c] = "left" /\ UNCHANGED Awaited
    <3>1. CASE call[c].kind = "queue"
      <4>1. cpc'[c] = "ok" /\ cpc[c] # "waiting"
        BY <1>1, <2>2, <3>1
      <4>. QED BY <2>2, <2>3, <3>1, <4>1, NotWaiting DEF Replies, Reply
    <3>2. CASE call[c].kind # "queue"
      <4>1. cpc'[c] = "waiting"
        BY <2>2, <3>2
      <4>. QED BY <2>3, <4>1 DEF Replies, Reply, Awaited
    <3>. QED BY <3>1, <3>2
  <2>8. Service!Ask(c)
    BY <1>1, <1>2, <2>2, <2>4, <2>5, <2>6, <2>7, AskSeen
  <2>. QED BY <2>8 DEF Service!Next
<1>. QED BY <1>3, <1>4 DEF Submit

LEMMA BatchSeen ==
    ASSUME IInv, IInv', NEW c \in Clients, Batch(c) PROVE Service!Next
<1>1. TypeOK /\ cpc[c] = "idle" /\ Replies[c] = "none"
  BY DEF IInv, Batch, Replies, Reply
<1>2. PICK q \in Requests : Batch(c)!2!(q)
  BY DEF Batch
<1>3. q.tails \in SUBSET Tails /\ q.prio \in Prios /\ Missing(q.tails) \in SUBSET Tails
  BY RequestFields DEF Missing
<1>4. CASE ~running /\ call' = [call EXCEPT ![c] = [NoCall EXCEPT !.kind = "batch",
                                                                 !.tails = q.tails]]
           /\ ClientStep(c, "fail") /\ UNCHANGED <<inflight, queue>>
  <2>1. /\ Moves(c) /\ UNCHANGED <<stop, store>> /\ cpc'[c] = "fail"
        /\ call'[c] = [NoCall EXCEPT !.kind = "batch", !.tails = q.tails]
    BY <1>1, <1>4, Stepping
  <2>2. call'[c].tails = q.tails
    BY <2>1 DEF NoCall
  <2>3. /\ Wanted'[c] \in SUBSET Tails /\ Replies'[c] = "no" /\ UNCHANGED Awaited
        /\ UNCHANGED <<AskedFor, Outcomes>>
    BY <1>1, <1>3, <1>4, <2>1, <2>2, NotWaiting, QueueKept DEF Wanted, Replies, Reply
  <2>. QED BY <1>1, <2>1, <2>3, RefuseSeen DEF Service!Next
<1>5. CASE /\ running /\ Enqueue(Missing(q.tails), q.prio)
           /\ call' = [call EXCEPT ![c] =
                        [NoCall EXCEPT !.kind = "batch", !.tails = q.tails, !.prio = q.prio,
                                       !.jobs = {active'[t] : t \in Missing(q.tails)}]]
           /\ ClientStep(c, IF Missing(q.tails) = {} THEN "ok" ELSE "waiting")
  <2>. DEFINE S == Missing(q.tails)
              R == {active'[t] : t \in S}
  <2>1. /\ Moves(c) /\ UNCHANGED <<stop, store>>
        /\ cpc'[c] = IF S = {} THEN "ok" ELSE "waiting"
        /\ call'[c] = [NoCall EXCEPT !.kind = "batch", !.tails = q.tails, !.prio = q.prio,
                                     !.jobs = R]
    BY <1>1, <1>5, Stepping
  <2>2. call'[c].tails = q.tails /\ call'[c].kind = "batch" /\ call'[c].jobs = R
    BY <2>1 DEF NoCall
  <2>3. /\ Service!Grow
        /\ \A t \in S : active'[t] \in Service!Pending' /\ AskedFor'[active'[t]] = t
    BY <1>3, <1>5, EnqueueGrows
  <2>4. /\ R \in SUBSET Service!Pending'
        /\ \A t \in q.tails : store[t] # "absent" \/ \E r \in R : AskedFor'[r] = t
        /\ \A r \in R : AskedFor'[r] \in q.tails
    BY <2>3 DEF Missing
  <2>5. Wanted'[c] = q.tails
    BY <2>1, <2>2 DEF Wanted
  <2>6. \/ Replies'[c] \in {"waits", "timed"} /\ Awaited'[c] = R
        \/ Replies'[c] = "yes" /\ UNCHANGED Awaited /\ R = {}
    <3>1. CASE S = {}
      <4>1. cpc'[c] = "ok" /\ cpc[c] # "waiting" /\ R = {}
        BY <1>1, <2>1, <3>1
      <4>. QED BY <2>1, <2>2, <4>1, NotWaiting DEF Replies, Reply
    <3>2. CASE S # {}
      <4>1. cpc'[c] = "waiting"
        BY <2>1, <3>2
      <4>. QED BY <2>2, <4>1 DEF Replies, Reply, Awaited
    <3>. QED BY <3>1, <3>2
  <2>7. Service!Ask(c)
    BY <1>1, <1>3, <2>1, <2>3, <2>4, <2>5, <2>6, AskSeen
  <2>. QED BY <2>7 DEF Service!Next
<1>. QED BY <1>2, <1>4, <1>5

\* A waiting call is answered: yes when all is done or the engine stops, no
\* when something failed, the engine stops, or the call has a timeout.
LEMMA TellSeen ==
    ASSUME NEW c \in Clients, Moves(c), UNCHANGED <<stop, store>>, UNCHANGED queue,
           cpc[c] = "waiting", call'[c].tails = call[c].tails,
           \/ /\ cpc'[c] = "ok" /\ call'[c].kind # "queue"
              /\ stop \/ \A j \in call[c].jobs : j \in JobIds /\ job[j].state = "done"
           \/ /\ cpc'[c] = "fail"
              /\ \/ stop \/ call[c].kind = "timed"
                 \/ \E j \in call[c].jobs : j \in JobIds /\ job[j].state = "failed"
    PROVE  Service!Tell(c)
<1>1. UNCHANGED <<AskedFor, Outcomes>>
  BY QueueKept
<1>2. Awaited[c] = call[c].jobs /\ Awaited'[c] = {}
  BY DEF Awaited
<1>3. UNCHANGED Wanted
  BY DEF Wanted, Moves
<1>4. /\ Replies[c] \in {"waits", "timed"}
      /\ call[c].kind = "timed" => Replies[c] = "timed"
      /\ cpc'[c] = "ok" => Replies'[c] = "yes"
      /\ cpc'[c] = "fail" => Replies'[c] = "no"
  BY DEF Replies, Reply
<1>5. \A j \in JobIds : job[j].state \in {"done", "failed"} => Outcomes[j] = job[j].state
  BY DEF Outcomes, Outcome, Settled
<1>6. Service!Yes(c) \/ Service!No(c)
  BY <1>2, <1>4, <1>5, OneCall DEF Service!Yes, Service!No
<1>7. Awaited' = [Awaited EXCEPT ![c] = {}]
  BY <1>2, OneCall
<1>. QED BY <1>1, <1>3, <1>6, <1>7 DEF Service!Tell

\* The local state of a call that has returned is gone.
LEMMA ToldFacts ==
    ASSUME TypeOK, NEW c \in Clients, NEW pc, Told(c, pc)
    PROVE  /\ Moves(c) /\ UNCHANGED <<stop, store>> /\ UNCHANGED queue /\ cpc'[c] = pc
           /\ call'[c].tails = call[c].tails /\ call'[c].kind = call[c].kind
           /\ call'[c].jobs = {}
<1>1. /\ ClientStep(c, pc) /\ UNCHANGED queue
      /\ call' = [call EXCEPT ![c] = [NoCall EXCEPT !.kind = call[c].kind,
                                                    !.tails = call[c].tails]]
  BY DEF Told
<1>2. /\ Moves(c) /\ UNCHANGED <<stop, store>> /\ cpc'[c] = pc
      /\ call'[c] = [NoCall EXCEPT !.kind = call[c].kind, !.tails = call[c].tails]
  BY <1>1, Stepping
<1>. QED BY <1>1, <1>2 DEF NoCall

LEMMA AnswerSeen ==
    ASSUME IInv, Calls, NEW c \in Clients,
           Wake(c) \/ Timeout(c) \/ BatchPoll(c) \/ BatchStop(c)
    PROVE  Unseen \/ Service!Next
<1>1. /\ TypeOK /\ cpc[c] = "waiting" /\ call[c].jobs \subseteq JobIds
      /\ call[c] \in Call /\ call[c].kind # "queue"
  BY DEF IInv, TypeOK, Calls, Wake, Timeout, BatchPoll, BatchStop
<1>2. CASE Wake(c)
  <2>1. PICK j \in call[c].jobs :
          /\ Settled(j) \/ stop
          /\ Told(c, IF job[j].state = "done" THEN "ok" ELSE "fail")
    BY <1>2 DEF Wake
  <2>2. call[c].jobs = {j}
    BY <1>1, <1>2 DEF Calls, Wake
  <2>3. /\ Moves(c) /\ UNCHANGED <<stop, store>> /\ UNCHANGED queue
        /\ cpc'[c] = IF job[j].state = "done" THEN "ok" ELSE "fail"
        /\ call'[c].tails = call[c].tails /\ call'[c].kind = call[c].kind
    BY <1>1, <2>1, ToldFacts
  <2>4. Service!Tell(c)
    BY <1>1, <2>1, <2>2, <2>3, TellSeen DEF Settled
  <2>. QED BY <2>4 DEF Service!Next
<1>3. CASE Timeout(c)
  <2>1. Told(c, "fail") /\ call[c].kind = "timed"
    BY <1>3 DEF Timeout
  <2>2. /\ Moves(c) /\ UNCHANGED <<stop, store>> /\ UNCHANGED queue
        /\ cpc'[c] = "fail" /\ call'[c].tails = call[c].tails
    BY <1>1, <2>1, ToldFacts
  <2>3. Service!Tell(c)
    BY <1>1, <2>1, <2>2, TellSeen
  <2>. QED BY <2>3 DEF Service!Next
<1>4. CASE BatchStop(c)
  <2>1. stop /\ Told(c, BatchResult(call[c].seen)) /\ BatchResult(call[c].seen) \in {"ok", "fail"}
    BY <1>4 DEF BatchStop, BatchResult
  <2>2. /\ Moves(c) /\ UNCHANGED <<stop, store>> /\ UNCHANGED queue
        /\ cpc'[c] = BatchResult(call[c].seen) /\ call'[c].tails = call[c].tails
        /\ call'[c].kind = call[c].kind
    BY <1>1, <2>1, ToldFacts
  <2>3. Service!Tell(c)
    BY <1>1, <2>1, <2>2, TellSeen
  <2>. QED BY <2>3 DEF Service!Next
<1>5. CASE BatchPoll(c)
  <2>. DEFINE seen == {j \in call[c].jobs : Settled(j)}
  <2>1. /\ UNCHANGED queue /\ call' = [call EXCEPT ![c].seen = seen]
        /\ ClientStep(c, IF seen = call[c].jobs THEN BatchResult(seen) ELSE "waiting")
    BY <1>5 DEF BatchPoll
  <2>2. /\ Moves(c) /\ UNCHANGED <<stop, store>>
        /\ cpc'[c] = IF seen = call[c].jobs THEN BatchResult(seen) ELSE "waiting"
        /\ call'[c] = [call[c] EXCEPT !.seen = seen]
    BY <1>1, <2>1 DEF Moves, ClientStep, pool, TypeOK
  <2>3. /\ call'[c].tails = call[c].tails /\ call'[c].kind = call[c].kind
        /\ call'[c].jobs = call[c].jobs
    BY <1>1, <2>2 DEF Call
  <2>4. CASE seen = call[c].jobs
    <3>1. \/ /\ cpc'[c] = "ok"
             /\ \A j \in call[c].jobs : j \in JobIds /\ job[j].state = "done"
          \/ /\ cpc'[c] = "fail"
             /\ \E j \in call[c].jobs : j \in JobIds /\ job[j].state = "failed"
      BY <1>1, <2>2, <2>4 DEF BatchResult, Settled
    <3>2. Service!Tell(c)
      BY <1>1, <2>1, <2>2, <2>3, <3>1, TellSeen
    <3>. QED BY <3>2 DEF Service!Next
  <2>5. CASE seen # call[c].jobs
    <3>1. cpc'[c] = cpc[c]
      BY <1>1, <2>2, <2>5
    <3>2. UNCHANGED Wanted /\ UNCHANGED Awaited /\ UNCHANGED Replies
      BY <2>2, <2>3, <3>1 DEF Moves, Wanted, Awaited, Replies
    <3>. QED BY <2>1, <2>2, <3>2, QueueKept DEF Unseen, Service!vars
  <2>. QED BY <2>4, <2>5
<1>. QED BY <1>2, <1>3, <1>4, <1>5

LEMMA ReturnSeen ==
    ASSUME IInv, NEW c \in Clients, Return(c) PROVE Service!Return(c)
<1>1. /\ TypeOK /\ cpc[c] \in {"ok", "fail"} /\ ClientStep(c, "idle") /\ UNCHANGED queue
      /\ call' = [call EXCEPT ![c] = NoCall]
  BY DEF IInv, Return
<1>2. Moves(c) /\ UNCHANGED <<stop, store>> /\ cpc'[c] = "idle"
  BY <1>1, Stepping
<1>3. /\ Wanted'[c] = {} /\ Replies'[c] = "none" /\ Replies[c] \in {"yes", "no", "left"}
      /\ UNCHANGED Awaited /\ UNCHANGED <<AskedFor, Outcomes>>
  BY <1>1, <1>2, NotWaiting, QueueKept DEF Wanted, Replies, Reply
<1>. QED BY <1>2, <1>3, OneCall DEF Service!Return

-----------------------------------------------------------------------------
(***************************************************************************)
(* Calls is kept.                                                          *)
(***************************************************************************)
LEMMA IdsKept == ASSUME IInv, [Next]_vars PROVE JobIds \subseteq JobIds'
<1>1. seq \in Nat
  BY DEF IInv, TypeOK
<1>2. ASSUME NEW S \in SUBSET Tails, NEW prio \in Prios, Enqueue(S, prio)
      PROVE  JobIds \subseteq JobIds'
  <2>1. seq' \in Nat /\ seq <= seq'
    BY <1>2, EnqueueType DEF IInv
  <2>. QED BY <1>1, <2>1 DEF JobIds
<1>3. CASE UNCHANGED seq
  BY <1>3 DEF JobIds
<1>4. ASSUME NEW c \in Clients, Submit(c) PROVE JobIds \subseteq JobIds'
  <2>1. call[c].tails \in SUBSET Tails /\ call[c].prio \in Prios
    BY DEF IInv, TypeOK, Call
  <2>. QED BY <1>2, <1>3, <1>4, <2>1 DEF Submit, queue
<1>5. ASSUME NEW c \in Clients, Batch(c) PROVE JobIds \subseteq JobIds'
  <2>1. PICK r \in Requests : Batch(c)!2!(r)
    BY <1>5 DEF Batch
  <2>2. Missing(r.tails) \in SUBSET Tails /\ r.prio \in Prios
    BY RequestFields DEF Missing
  <2>. QED BY <1>2, <1>3, <2>1, <2>2 DEF queue
<1>6. ASSUME NEW c \in Clients, Client(c) PROVE JobIds \subseteq JobIds'
  <2>1. CASE \/ Check(c) \/ Wake(c) \/ Timeout(c) \/ BatchPoll(c) \/ BatchStop(c)
             \/ Return(c)
    BY <1>3, <2>1 DEF Check, Wake, Timeout, BatchPoll, BatchStop, Return, Told, queue
  <2>. QED BY <1>4, <1>5, <1>6, <2>1 DEF Client
<1>7. ASSUME NEW w \in Workers, Worker(w) PROVE JobIds \subseteq JobIds'
  BY <1>3, <1>7 DEF Worker, TakeBundle, TakeJob, Exit, HttpBody, HttpBadSize, HttpMissing,
        HttpError, StoreOpen, StoreWrite, BundleBody, BundleBad, BundleSettle, Complete,
        Transferred, queue
<1>8. CASE Start \/ SetIngame \/ StopSignal \/ StopJoin \/ SetBundle \/ UNCHANGED vars
  BY <1>3, <1>8 DEF Start, SetIngame, StopSignal, StopJoin, SetBundle, vars, queue
<1>. QED BY <1>6, <1>7, <1>8 DEF Next

\* The jobs an enqueue names exist.
LEMMA NamedJobs ==
    ASSUME IInv, IInv', NEW S \in SUBSET Tails, NEW prio \in Prios, Enqueue(S, prio)
    PROVE  \A t \in S : active'[t] \in JobIds'
<1>1. IInv' => (Service!Pending = Live /\ DOMAIN Outcomes = JobIds)'
  BY PendingIsLive, PTL
<1>. QED BY <1>1, EnqueueGrows DEF Live

\* A call that does not look or wait, with no job, needs nothing more.
LEMMA CallsOthers ==
    ASSUME IInv, Calls, [Next]_vars, NEW c \in Clients, Moves(c), Calls!(c)'
    PROVE  Calls'
<1>1. \A d \in Clients \ {c} : Calls!(d)'
  BY IdsKept DEF Calls, Moves
<1>. QED BY <1>1 DEF Calls

LEMMA CallsClient ==
    ASSUME IInv, IInv', Calls, [Next]_vars, NEW c \in Clients, Client(c)
    PROVE  Calls'
<1>1. TypeOK /\ call[c] \in Call /\ call[c].jobs \subseteq JobIds'
  BY IdsKept DEF IInv, TypeOK, Calls
<1>2. CASE Check(c)
  <2>1. PICK q \in Requests :
          /\ q.kind # "batch"
          /\ call' = [call EXCEPT ![c] = [NoCall EXCEPT !.kind = q.kind, !.tails = q.tails,
                                                        !.prio = q.prio]]
          /\ ClientStep(c, IF Missing(q.tails) = {} THEN "ok" ELSE "checked")
    BY <1>2 DEF Check
  <2>2. /\ Moves(c) /\ cpc'[c] \in {"ok", "checked"}
        /\ call'[c] = [NoCall EXCEPT !.kind = q.kind, !.tails = q.tails, !.prio = q.prio]
    BY <1>1, <2>1, Stepping
  <2>3. call'[c].tails = q.tails /\ call'[c].kind = q.kind /\ call'[c].jobs = {}
    BY <2>2 DEF NoCall
  <2>4. \E t \in Tails : q.tails = {t}
    BY <2>1, EngineAssumption
  <2>5. Calls!(c)'
    BY <2>1, <2>2, <2>3, <2>4
  <2>. QED BY <2>2, <2>5, CallsOthers
<1>3. CASE Submit(c)
  <2>1. /\ call[c].tails \in SUBSET Tails /\ call[c].prio \in Prios /\ call[c].kind # "batch"
        /\ \E t \in Tails : call[c].tails = {t}
    BY <1>1, <1>3 DEF Call, Calls, Submit
  <2>2. CASE ~running
    <3>1. ClientStep(c, "fail") /\ call' = call
      BY <1>3, <2>2 DEF Submit
    <3>2. Moves(c) /\ cpc'[c] = "fail" /\ call'[c] = call[c]
      BY <1>1, <3>1 DEF Moves, ClientStep, TypeOK
    <3>3. Calls!(c)'
      BY <1>1, <3>2
    <3>. QED BY <3>2, <3>3, CallsOthers
  <2>3. CASE running
    <3>. DEFINE R == {active'[t] : t \in call[c].tails}
    <3>1. /\ Enqueue(call[c].tails, call[c].prio) /\ call' = [call EXCEPT ![c].jobs = R]
          /\ ClientStep(c, IF call[c].kind = "queue" THEN "ok" ELSE "waiting")
      BY <1>3, <2>3 DEF Submit
    <3>2. /\ Moves(c) /\ cpc'[c] = IF call[c].kind = "queue" THEN "ok" ELSE "waiting"
          /\ call'[c] = [call[c] EXCEPT !.jobs = R]
      BY <1>1, <3>1 DEF Moves, ClientStep, TypeOK
    <3>3. call'[c].kind = call[c].kind /\ call'[c].jobs = R
      BY <1>1, <3>2 DEF Call
    <3>4. R \subseteq JobIds' /\ \E j \in JobIds' : R = {j}
      BY <2>1, <3>1, NamedJobs
    <3>5. Calls!(c)'
      BY <3>2, <3>3, <3>4
    <3>. QED BY <3>2, <3>5, CallsOthers
  <2>. QED BY <2>2, <2>3
<1>4. CASE Batch(c)
  <2>1. PICK q \in Requests : Batch(c)!2!(q)
    BY <1>4 DEF Batch
  <2>2. Missing(q.tails) \in SUBSET Tails /\ q.prio \in Prios
    BY RequestFields DEF Missing
  <2>3. CASE ClientStep(c, "fail") /\ call' = [call EXCEPT ![c] =
                                        [NoCall EXCEPT !.kind = "batch", !.tails = q.tails]]
    <3>1. /\ Moves(c) /\ cpc'[c] = "fail"
          /\ call'[c] = [NoCall EXCEPT !.kind = "batch", !.tails = q.tails]
      BY <1>1, <2>3, Stepping
    <3>2. call'[c].jobs = {}
      BY <3>1 DEF NoCall
    <3>3. Calls!(c)'
      BY <3>1, <3>2
    <3>. QED BY <3>1, <3>3, CallsOthers
  <2>4. CASE /\ Enqueue(Missing(q.tails), q.prio)
             /\ call' = [call EXCEPT ![c] =
                  [NoCall EXCEPT !.kind = "batch", !.tails = q.tails, !.prio = q.prio,
                                 !.jobs = {active'[t] : t \in Missing(q.tails)}]]
             /\ ClientStep(c, IF Missing(q.tails) = {} THEN "ok" ELSE "waiting")
    <3>1. /\ Moves(c) /\ cpc'[c] \in {"ok", "waiting"}
          /\ call'[c] = [NoCall EXCEPT !.kind = "batch", !.tails = q.tails, !.prio = q.prio,
                                       !.jobs = {active'[t] : t \in Missing(q.tails)}]
      BY <1>1, <2>4, Stepping
    <3>2. call'[c].kind = "batch" /\ call'[c].jobs = {active'[t] : t \in Missing(q.tails)}
      BY <3>1 DEF NoCall
    <3>3. call'[c].jobs \subseteq JobIds'
      BY <2>2, <2>4, <3>2, NamedJobs
    <3>4. Calls!(c)'
      BY <3>1, <3>2, <3>3
    <3>. QED BY <3>1, <3>4, CallsOthers
  <2>. QED BY <2>1, <2>3, <2>4
<1>5. CASE Wake(c) \/ Timeout(c) \/ BatchStop(c)
  <2>1. Told(c, "ok") \/ Told(c, "fail")
    BY <1>5 DEF Wake, Timeout, BatchStop, BatchResult
  <2>2. Moves(c) /\ cpc'[c] \in {"ok", "fail"} /\ call'[c].jobs = {}
    BY <1>1, <2>1, ToldFacts
  <2>3. Calls!(c)'
    BY <2>2
  <2>. QED BY <2>2, <2>3, CallsOthers
<1>6. CASE BatchPoll(c)
  <2>. DEFINE seen == {j \in call[c].jobs : Settled(j)}
  <2>1. /\ call[c].kind = "batch" /\ call' = [call EXCEPT ![c].seen = seen]
        /\ ClientStep(c, IF seen = call[c].jobs THEN BatchResult(seen) ELSE "waiting")
    BY <1>6 DEF BatchPoll
  <2>2. /\ Moves(c) /\ cpc'[c] \in {"ok", "fail", "waiting"}
        /\ call'[c] = [call[c] EXCEPT !.seen = seen]
    BY <1>1, <2>1 DEF Moves, ClientStep, TypeOK, BatchResult
  <2>3. call'[c].kind = "batch" /\ call'[c].jobs = call[c].jobs
    BY <1>1, <2>1, <2>2 DEF Call
  <2>4. Calls!(c)'
    BY <1>1, <2>2, <2>3
  <2>. QED BY <2>2, <2>4, CallsOthers
<1>7. CASE Return(c)
  <2>1. Moves(c) /\ cpc'[c] = "idle" /\ call'[c] = NoCall
    BY <1>1, <1>7, Stepping DEF Return
  <2>2. Calls!(c)'
    BY <2>1 DEF NoCall
  <2>. QED BY <2>1, <2>2, CallsOthers
<1>. QED BY <1>2, <1>3, <1>4, <1>5, <1>6, <1>7 DEF Client

LEMMA CallsStep == ASSUME IInv, IInv', Calls, [Next]_vars PROVE Calls'
<1>1. CASE UNCHANGED client
  BY <1>1, IdsKept DEF client, Calls
<1>2. ASSUME NEW w \in Workers, Worker(w) PROVE UNCHANGED client
  BY <1>2 DEF Worker, TakeBundle, TakeJob, Exit, HttpBody, HttpBadSize, HttpMissing,
        HttpError, StoreOpen, StoreWrite, BundleBody, BundleBad, BundleSettle, Complete,
        Transferred, client
<1>3. CASE Start \/ SetIngame \/ StopSignal \/ StopJoin \/ SetBundle \/ UNCHANGED vars
  BY <1>1, <1>3 DEF Start, SetIngame, StopSignal, StopJoin, SetBundle, vars, client
<1>. QED BY <1>1, <1>2, <1>3, CallsClient DEF Next

-----------------------------------------------------------------------------

LEMMA ServiceInit == Init => Service!Init
<1>. SUFFICES ASSUME Init PROVE Service!Init
  OBVIOUS
<1>1. JobIds = {}
  BY DEF Init, JobIds
<1>2. DOMAIN Outcomes = {} /\ DOMAIN AskedFor = {}
  BY <1>1 DEF Outcomes, AskedFor
<1>3. /\ Wanted = [c \in Clients |-> {}] /\ Awaited = [c \in Clients |-> {}]
      /\ Replies = [c \in Clients |-> "none"]
  BY DEF Init, Wanted, Awaited, Replies, Reply
<1>. QED BY <1>2, <1>3 DEF Init, Service!Init

LEMMA ServiceStep ==
    ASSUME IInv, IInv', Calls, [Next]_vars PROVE [Service!Next]_(Service!vars)
<1>1. ASSUME NEW c \in Clients, Client(c) PROVE Unseen \/ Service!Next
  <2>1. CASE Check(c)
    BY <2>1, CheckSeen DEF Service!Next
  <2>2. CASE Return(c)
    BY <2>2, ReturnSeen DEF Service!Next
  <2>. QED BY <1>1, <2>1, <2>2, SubmitSeen, BatchSeen, AnswerSeen DEF Client
<1>2. CASE UNCHANGED vars
  <2>1. UNCHANGED <<stop, store, client>> /\ UNCHANGED queue
    BY <1>2 DEF vars, pool
  <2>. QED BY <2>1, QueueKept, Silent DEF Unseen
<1>3. Unseen \/ Service!Next
  BY <1>1, <1>2, WorkerSeen, PoolSeen DEF Next, Unseen
<1>. QED BY <1>3 DEF Unseen

\* The engine implements the service: every behaviour of FetchEngine is, under
\* the mapping, a behaviour of FetchService, for any number of workers, callers
\* and blobs, with bundles, failures, timeouts, stops and restarts.
THEOREM EngineImplementsService == Spec => ImplementsService
<1>1. Init => Calls
  BY DEF Init, Calls, NoCall
<1>2. IInv /\ IInv' /\ Calls /\ [Next]_vars => Calls'
  BY CallsStep
<1>3. IInv /\ IInv' /\ Calls /\ [Next]_vars => [Service!Next]_(Service!vars)
  BY ServiceStep
<1>. QED BY <1>1, <1>2, <1>3, ServiceInit, Invariance, PTL
       DEF Spec, ImplementsService, Service!Spec
=============================================================================
