----------------------------- MODULE ArenaProofs -----------------------------
(***************************************************************************)
(* What holds of the arena for every plan, budget and set of threads: each *)
(* claim has one loader, a granule in flight is absent, a sealed file can  *)
(* always be brought back from the store, the byte account is the resident *)
(* granules' sizes and stays within the budget, and what a caller is told  *)
(* to be readable is resident.                                             *)
(***************************************************************************)
EXTENDS Arena, Sums

\* The claims, thread by thread.
Claims ==
    /\ \A t \in Threads : Loads(t) => gran[t] \in inflight
    /\ \A g \in inflight : \E t \in Threads : Loads(t) /\ gran[t] = g
    /\ \A t, u \in Threads : Loads(t) /\ Loads(u) /\ gran[t] = gran[u] => t = u

\* What has a blob of its own is in the store once it is loaded.
Sourced(g) == g \in Ranged \cup stored

\* Bytes come from the store or from a range: when loaded, and as long as they
\* are resident.
FromStore ==
    /\ \A t \in Threads : At(t, "commit") /\ loaded[t] => Sourced(gran[t])
    /\ \A g \in resident : Sourced(g)

\* A reserved slot is never loaded.
NoHoles == inflight \cap Holes = {}

IInv == TypeOK /\ NoHoles /\ Claims /\ InflightIsAbsent /\ FromStore /\ SealedRecoverable

\* The invariants that the runs check follow from the inductive one.
LEMMA Consequences == IInv => OneLoader /\ InflightIsAbsent /\ SealedRecoverable
  BY DEF IInv, Claims, OneLoader, Loads

\* The arena opens with nothing claimed, resident or sealed.
LEMMA InvInit == Init => IInv
  BY ArenaAssumption DEF Init, IInv, NoHoles, TypeOK, Pc, Claims, Loads, InflightIsAbsent,
     FromStore, At, Sourced, SealedRecoverable

\* A thread's move outside the claims: neither it nor another gains or loses one.
LEMMA ThreadStep ==
  ASSUME IInv, NEW t \in Threads, Thread(t)
  PROVE  IInv'
<1> USE ArenaAssumption
<1>1. CASE Ensure(t)
  <2>1. PICK g \in Granules, wait \in BOOLEAN :
           /\ gran' = [gran EXCEPT ![t] = g]
           /\ block' = [block EXCEPT ![t] = wait]
           /\ newer' = IF g \in Holes THEN newer ELSE Touched(g)
           /\ \/ Ready(g) /\ Goto(t, "ok") /\ UNCHANGED inflight
              \/ ~Ready(g) /\ Free(g) /\ inflight' = inflight \cup {g} /\ Goto(t, "look")
              \/ /\ ~Ready(g) /\ ~Free(g)
                 /\ Goto(t, IF wait THEN "wait" ELSE "fail")
                 /\ UNCHANGED inflight
    BY <1>1 DEF Ensure
  <2>2. /\ At(t, "idle")
        /\ UNCHANGED <<resident, bytes, sealed, outside, online, loaded>>
    BY <1>1 DEF Ensure
  <2>3. newer' \in [Granules -> SUBSET Granules]
    BY <2>1 DEF IInv, TypeOK, Touched
  <2>4. TypeOK'
    BY <2>1, <2>2, <2>3 DEF IInv, TypeOK, Pc, Goto, outside
  <2>5. /\ pc' \in [Threads -> Pc] /\ gran' \in [Threads -> Granules]
        /\ \A u \in Threads \ {t} : pc'[u] = pc[u] /\ gran'[u] = gran[u]
        /\ gran'[t] = g
        /\ pc[t] = "idle"
        /\ pc'[t] \in {"ok", "look", "wait", "fail"}
    BY <2>1, <2>2, <2>4 DEF IInv, TypeOK, Goto, At
  <2>6. Claims'
    <3>1. CASE pc'[t] = "look"
      <4>1. /\ ~Ready(g) /\ g \notin inflight
            /\ inflight' = inflight \cup {g}
        BY <2>1, <3>1 DEF Goto, Free, IInv, TypeOK
      <4> QED BY <4>1, <3>1, <2>5 DEF IInv, Claims, Loads
    <3>2. CASE pc'[t] # "look"
      <4>1. inflight' = inflight
        BY <2>1, <3>2, <2>2 DEF Goto, IInv, TypeOK
      <4> QED BY <4>1, <3>2, <2>5 DEF IInv, Claims, Loads
    <3> QED BY <3>1, <3>2
  <2>7. InflightIsAbsent' /\ NoHoles'
    BY <2>1, <2>2 DEF IInv, InflightIsAbsent, NoHoles, Ready
  <2>8. FromStore' /\ SealedRecoverable'
    BY <2>2, <2>5 DEF IInv, FromStore, At, Sourced, SealedRecoverable, outside
  <2> QED BY <2>4, <2>6, <2>7, <2>8 DEF IInv
<1>2. CASE Wake(t)
  <2>1. newer' \in [Granules -> SUBSET Granules]
    BY <1>2 DEF Wake, IInv, TypeOK, Touched
  <2>2. /\ pc' = [pc EXCEPT ![t] = IF gran[t] \in resident THEN "ok" ELSE "fail"]
        /\ pc[t] = "wait"
        /\ UNCHANGED <<resident, inflight, sealed, stored, wanted, online,
                       gran, block, loaded>>
    BY <1>2 DEF Wake, Goto, At, outside
  <2> QED BY <2>1, <2>2 DEF IInv, NoHoles, TypeOK, Pc, Claims, Loads, InflightIsAbsent,
             FromStore, At, Sourced, SealedRecoverable
<1>3. CASE Look(t)
  <2>1. /\ pc[t] = "look"
        /\ UNCHANGED <<resident, inflight, newer, sealed, stored, online,
                       gran, block>>
    BY <1>3 DEF Look, At, cache
  <2>2. /\ pc' \in [Threads -> Pc]
        /\ \A u \in Threads \ {t} : pc'[u] = pc[u] /\ loaded'[u] = loaded[u]
        /\ pc'[t] \in {"fetch", "load", "commit"}
        /\ loaded' \in [Threads -> BOOLEAN]
        /\ pc'[t] = "commit" => gran[t] \in Ranged \ stored
    BY <1>3 DEF Look, IInv, TypeOK, Pc, Goto
  <2>3. \A u \in Threads : Loads(u)' <=> Loads(u)
    BY <2>1, <2>2 DEF Loads
  <2>4. wanted' \subseteq Granules \ Holes
    <3>1. gran[t] \in Granules \ Holes
      BY <2>1 DEF IInv, TypeOK, NoHoles, Claims, Loads
    <3>2. wanted' \in {wanted, wanted \cup {gran[t]}}
      BY <1>3 DEF Look
    <3> QED BY <3>1, <3>2 DEF IInv, TypeOK
  <2> QED BY <2>1, <2>2, <2>3, <2>4 DEF IInv, NoHoles, TypeOK, Claims, InflightIsAbsent,
             FromStore, At, Sourced, SealedRecoverable
<1>4. CASE Fetched(t)
  <2>1. /\ pc[t] = "fetch"
        /\ pc' = [pc EXCEPT ![t] = "load"]
        /\ UNCHANGED <<resident, inflight, newer, sealed, stored, wanted, online,
                       gran, block, loaded>>
    BY <1>4 DEF Fetched, Goto, At, cache, outside
  <2> QED BY <2>1 DEF IInv, NoHoles, TypeOK, Pc, Claims, Loads, InflightIsAbsent,
             FromStore, At, Sourced, SealedRecoverable
<1>5. CASE Load(t)
  <2>1. /\ pc[t] = "load"
        /\ pc' = [pc EXCEPT ![t] = "commit"]
        /\ UNCHANGED <<resident, inflight, newer, sealed, stored, wanted, online,
                       gran, block>>
    BY <1>5 DEF Load, Goto, At, cache, outside
  <2>2. /\ loaded' \in [Threads -> BOOLEAN]
        /\ \A u \in Threads \ {t} : loaded'[u] = loaded[u]
        /\ loaded'[t] => gran[t] \in stored
    BY <1>5 DEF Load, IInv, TypeOK
  <2>3. /\ pc' \in [Threads -> Pc]
        /\ \A u \in Threads \ {t} : pc'[u] = pc[u]
        /\ \A u \in Threads : Loads(u)' <=> Loads(u)
    BY <2>1 DEF IInv, TypeOK, Pc, Loads
  <2>4. TypeOK' /\ NoHoles' /\ Claims' /\ InflightIsAbsent'
    BY <2>1, <2>2, <2>3 DEF IInv, NoHoles, TypeOK, Claims, InflightIsAbsent
  <2>5. FromStore' /\ SealedRecoverable'
    BY <2>1, <2>2, <2>3 DEF IInv, FromStore, At, Sourced, SealedRecoverable
  <2> QED BY <2>4, <2>5 DEF IInv
<1>6. CASE Commit(t)
  <2>1. /\ pc[t] = "commit"
        /\ pc' \in [Threads -> Pc]
        /\ pc'[t] \in {"ok", "fail"}
        /\ \A u \in Threads \ {t} : pc'[u] = pc[u]
        /\ inflight' = inflight \ {gran[t]}
        /\ UNCHANGED <<sealed, stored, wanted, online, gran, block, loaded>>
    BY <1>6 DEF Commit, Unclaimed, Goto, At, outside, IInv, TypeOK, Pc
  <2>2. newer' \in [Granules -> SUBSET Granules]
    BY <1>6 DEF Commit, CommitOrder, Touched, IInv, TypeOK
  <2>3. /\ resident' \subseteq resident \cup {gran[t]}
        /\ gran[t] \in resident' => loaded[t] \/ gran[t] \in resident
    BY <1>6 DEF Commit
  <2>4. TypeOK'
    BY <2>1, <2>2, <2>3 DEF IInv, TypeOK
  <2>5. Claims'
    <3>1. \A u \in Threads : Loads(u)' <=> Loads(u) /\ u # t
      BY <2>1 DEF Loads
    <3>2. Loads(t)
      BY <2>1 DEF Loads
    <3> QED BY <2>1, <3>1, <3>2 DEF IInv, Claims
  <2>6. InflightIsAbsent' /\ NoHoles'
    BY <2>1, <2>3 DEF IInv, InflightIsAbsent, NoHoles
  <2>7. FromStore' /\ SealedRecoverable'
    BY <2>1, <2>3 DEF IInv, FromStore, At, Sourced, SealedRecoverable
  <2> QED BY <2>4, <2>5, <2>6, <2>7 DEF IInv
<1>7. CASE Read(t) \/ Return(t)
  <2>1. newer' \in [Granules -> SUBSET Granules]
    BY <1>7 DEF Read, Return, IInv, TypeOK, Touched, cache
  <2>2. /\ pc[t] \in {"ok", "fail"}
        /\ pc' = [pc EXCEPT ![t] = "idle"]
        /\ UNCHANGED <<resident, inflight, sealed, stored, wanted, online,
                       gran>>
        /\ block' = [block EXCEPT ![t] = FALSE]
        /\ loaded' = [loaded EXCEPT ![t] = FALSE]
    BY <1>7 DEF Read, Return, Leave, Goto, At, cache, outside
  <2> QED BY <2>1, <2>2 DEF IInv, NoHoles, TypeOK, Pc, Claims, Loads, InflightIsAbsent,
             FromStore, At, Sourced, SealedRecoverable
<1> QED BY <1>1, <1>2, <1>3, <1>4, <1>5, <1>6, <1>7 DEF Thread

\* A change of the world around the threads, or of the cache by an eviction.
LEMMA OtherStep ==
  ASSUME IInv,
         \/ \E g \in Granules : Prefetch(g) \/ Deliver(g) \/ Change(g)
         \/ \E target \in 0..MaxBytes : Evict(target)
         \/ SealCheck
  PROVE  IInv'
<1>1. ASSUME NEW g \in Granules, Prefetch(g) PROVE IInv'
  <2>1. UNCHANGED <<resident, inflight, newer, sealed, stored, online,
                    pc, gran, block, loaded>>
    BY <1>1 DEF Prefetch, cache, thread
  <2>2. wanted' \subseteq Granules \ Holes
    BY <1>1 DEF Prefetch, Blobless, IInv, TypeOK
  <2> QED BY <2>1, <2>2 DEF IInv, NoHoles, TypeOK, Claims, Loads, InflightIsAbsent,
             FromStore, At, Sourced, SealedRecoverable
<1>2. ASSUME NEW g \in Granules, Deliver(g) PROVE IInv'
  <2>1. UNCHANGED <<resident, inflight, newer, sealed, online,
                    pc, gran, block, loaded>>
    BY <1>2 DEF Deliver, cache, thread
  <2>2. /\ wanted' \subseteq Granules \ Holes
        /\ stored' \subseteq Granules \ Holes
        /\ stored \subseteq stored'
    BY <1>2 DEF Deliver, IInv, TypeOK
  <2> QED BY <2>1, <2>2 DEF IInv, NoHoles, TypeOK, Claims, Loads, InflightIsAbsent,
             FromStore, At, Sourced, SealedRecoverable
<1>3. ASSUME NEW g \in Granules, Change(g) PROVE IInv'
  <2>1. /\ \A t \in Threads : pc[t] = "idle"
        /\ resident' = resident \ {g}
        /\ sealed' = sealed \ {FileOf[g]}
        /\ stored' = stored \ {g}
        /\ UNCHANGED <<inflight, newer, wanted, online, pc, gran, block, loaded>>
    BY <1>3 DEF Change, Unsealed, At, thread
  <2>2. TypeOK' /\ Claims' /\ InflightIsAbsent' /\ NoHoles'
    BY <2>1 DEF IInv, NoHoles, TypeOK, Claims, Loads, InflightIsAbsent
  <2>3. FromStore' /\ SealedRecoverable'
    BY <2>1 DEF IInv, FromStore, At, Sourced, SealedRecoverable
  <2> QED BY <2>2, <2>3 DEF IInv
<1>4. ASSUME NEW target \in 0..MaxBytes, Evict(target) PROVE IInv'
  <2>1. /\ resident' \subseteq resident
        /\ UNCHANGED <<inflight, newer, sealed, stored, wanted, online,
                       pc, gran, block, loaded>>
    BY <1>4 DEF Evict, outside, thread
  <2> QED BY <2>1 DEF IInv, NoHoles, TypeOK, Claims, Loads, InflightIsAbsent,
             FromStore, At, Sourced, SealedRecoverable
<1>5. CASE SealCheck
  <2>1. /\ sealed' = {f \in Files : \A g \in Granules : FileOf[g] = f => Ready(g)}
        /\ UNCHANGED <<resident, inflight, newer, stored, wanted, online,
                       pc, gran, block, loaded>>
    BY <1>5 DEF SealCheck, cache, outside, thread
  <2>2. SealedRecoverable'
    BY <2>1 DEF IInv, FromStore, Sourced, Ready, SealedRecoverable
  <2> QED BY <2>1, <2>2 DEF IInv, NoHoles, TypeOK, Claims, Loads, InflightIsAbsent,
             FromStore, At, Sourced
<1> QED BY <1>1, <1>2, <1>3, <1>4, <1>5

\* The inductive invariant holds of every behaviour.
THEOREM ArenaInvariance == Spec => []IInv
<1>1. IInv /\ [Next]_vars => IInv'
  <2> SUFFICES ASSUME IInv, [Next]_vars PROVE IInv'
    OBVIOUS
  <2>1. CASE \E t \in Threads : Thread(t)
    BY <2>1, ThreadStep
  <2>2. CASE UNCHANGED vars
    BY <2>2 DEF vars, cache, outside, thread, IInv, NoHoles, TypeOK, Claims, Loads,
       InflightIsAbsent, FromStore, At, Sourced, SealedRecoverable
  <2> QED BY <2>1, <2>2, OtherStep DEF Next
<1> QED BY <1>1, InvInit, PTL DEF Spec

\* However the threads interleave, a granule that is being loaded has exactly
\* one loader, and every loader the claim of its granule.
THEOREM OneLoaderPerGranule == Spec => []OneLoader
  BY ArenaInvariance, Consequences, PTL

\* A granule in flight is not resident, so an eviction cannot drop it and a
\* commit cannot count its bytes twice.
THEOREM InflightIsNeverEvicted == Spec => []InflightIsAbsent
  BY ArenaInvariance, Consequences, PTL

\* A sealed file can be brought back from the blob store after any eviction.
THEOREM SealedStaysRecoverable == Spec => []SealedRecoverable
  BY ArenaInvariance, Consequences, PTL

-----------------------------------------------------------------------------
(***************************************************************************)
(* The byte account and the budget.  What evict_locked leaves fits because *)
(* the uses are ordered: whatever stays is the oldest of what stays, or    *)
(* was used after it, and the oldest was not a victim.                     *)
(***************************************************************************)
\* The order of the uses: nothing is used after itself, what is used after a
\* later use is used after the earlier one, and of two residents one was used
\* after the other.
Ordered(S, after) ==
    /\ \A g \in Granules : g \notin after[g]
    /\ \A g, h, k \in Granules : h \in after[g] /\ k \in after[h] => k \in after[g]
    /\ \A g, h \in S : g = h \/ h \in after[g] \/ g \in after[h]

BInv == Ordered(resident, newer) /\ BudgetKept

\* Total is a sum of sizes.
LEMMA TotalIsSum == ASSUME NEW S PROVE Total(S) = SumOf(Size, S)
  BY DEF Total, SumOf

\* What it sums are numbers, and the sets are finite.
LEMMA TotalFacts ==
  ASSUME NEW S \in SUBSET Granules
  PROVE  /\ IsFiniteSet(S)
         /\ \A g \in S : Size[g] \in Nat
         /\ Total(S) \in Nat
         /\ \A T \in SUBSET S : Total(S) = Total(T) + Total(S \ T) /\ Total(T) <= Total(S)
<1>1. IsFiniteSet(S) /\ \A g \in S : Size[g] \in Nat
  BY ArenaAssumption, FS_Subset
<1>2. ASSUME NEW T \in SUBSET S
      PROVE  Total(T) \in Nat
  <2>1. IsFiniteSet(T) /\ \A g \in T : Size[g] \in Nat
    BY <1>1, FS_Subset
  <2> QED BY <2>1, SumType, TotalIsSum
<1>3. ASSUME NEW T \in SUBSET S
      PROVE  Total(S) = Total(T) + Total(S \ T) /\ Total(T) <= Total(S)
  <2>1. Total(S) = Total(T) + Total(S \ T)
    BY <1>1, SumSplit, TotalIsSum
  <2>2. Total(T) \in Nat /\ Total(S \ T) \in Nat
    BY <1>2
  <2> QED BY <2>1, <2>2
<1> QED BY <1>1, <1>2, <1>3

\* The total of one granule, and of none.
LEMMA TotalOne == ASSUME NEW g \in Granules PROVE Total({g}) = Size[g]
<1>1. {g} = {} \cup {g} /\ IsFiniteSet({}) /\ Size[g] \in Nat /\ g \notin {}
  BY ArenaAssumption, FS_EmptySet
<1>2. SumOf(Size, {} \cup {g}) = Size[g] + SumOf(Size, {})
  BY <1>1, SumAdd
<1>3. SumOf(Size, {}) = 0
  BY SumEmpty
<1> QED BY <1>1, <1>2, <1>3, TotalIsSum

LEMMA TotalNone == Total({}) = 0
  BY SumEmpty, TotalIsSum

\* A nonempty set of residents has one that was used before all the others.
LEMMA Oldest ==
  ASSUME NEW R \in SUBSET Granules, NEW after, R # {}, Ordered(R, after)
  PROVE  \E g \in R : \A h \in R : h = g \/ h \in after[g]
<1> DEFINE Older(g) == {h \in R : g \in after[h]}
           F == {Older(g) : g \in R}
<1>1. IsFiniteSet(R) /\ F \subseteq SUBSET R /\ F # {}
  BY TotalFacts
<1>2. PICK T \in F : \A U \in F : U \subseteq T => U = T
  <2> HIDE DEF F
  <2> QED BY <1>1, Smallest
<1>3. PICK g \in R : T = Older(g)
  OBVIOUS
<1>4. ASSUME NEW h \in R, g \in after[h] PROVE FALSE
  <2>1. Older(h) \subseteq Older(g)
    BY <1>4 DEF Ordered
  <2>2. h \in Older(g) /\ h \notin Older(h)
    BY <1>4 DEF Ordered
  <2> QED BY <1>2, <1>3, <2>1, <2>2
<1> QED BY <1>4 DEF Ordered

\* evict_locked gets down to its target when nothing it looks at is busy.
LEMMA EvictionFits ==
  ASSUME NEW S \in SUBSET Granules, NEW busy, NEW after, NEW limit \in Nat,
         Ordered(S, after), S \cap busy = {}
  PROVE  Total(S \ Victims(S, busy, after, limit)) <= limit
<1> DEFINE R == S \ Victims(S, busy, after, limit)
<1>1. CASE R = {}
  BY <1>1, TotalNone
<1>2. CASE R # {}
  <2>1. R \in SUBSET Granules /\ R \subseteq S /\ Ordered(R, after)
    BY DEF Ordered
  <2>2. PICK g \in R : \A h \in R : h = g \/ h \in after[g]
    <3> HIDE DEF R
    <3> QED BY <1>2, <2>1, Oldest
  <2> DEFINE K == {h \in S : h = g \/ h \in after[g] \/ h \in busy}
  <2>3. g \in S \ busy /\ g \notin Victims(S, busy, after, limit)
    BY <2>2
  <2>4. ~(Total(K) > limit)
    BY <2>3 DEF Victims
  <2>5. R \in SUBSET K /\ K \in SUBSET Granules
    BY <2>1, <2>2
  <2> HIDE DEF R, K
  <2>6. Total(R) <= Total(K) /\ Total(R) \in Nat /\ Total(K) \in Nat
    BY <2>5, <2>1, TotalFacts
  <2> QED BY <2>4, <2>6 DEF R
<1> QED BY <1>1, <1>2

\* A use puts the granule last.
LEMMA TouchedOrders ==
  ASSUME NEW g \in Granules, NEW S \in SUBSET Granules, S \subseteq resident \cup {g},
         TypeOK, Ordered(resident, newer)
  PROVE  Ordered(S, Touched(g)) /\ Touched(g) \in [Granules -> SUBSET Granules]
<1>1. /\ newer \in [Granules -> SUBSET Granules]
      /\ \A h \in Granules : Touched(g)[h] = IF h = g THEN {} ELSE newer[h] \cup {g}
  BY DEF TypeOK, Touched
<1>2. Touched(g) \in [Granules -> SUBSET Granules]
  BY <1>1 DEF Touched
<1>3. \A h \in Granules : h \notin Touched(g)[h]
  <2>1. \A h \in Granules : h \notin newer[h]
    BY DEF Ordered
  <2>2. ASSUME NEW h \in Granules PROVE h \notin Touched(g)[h]
    <3>1. Touched(g)[h] = IF h = g THEN {} ELSE newer[h] \cup {g}
      BY <1>1
    <3> HIDE DEF Touched
    <3> QED BY <3>1, <2>1
  <2> QED BY <2>2
<1>4. ASSUME NEW h \in Granules, NEW i \in Granules, NEW k \in Granules,
             i \in Touched(g)[h], k \in Touched(g)[i]
      PROVE  k \in Touched(g)[h]
  <2>1. h # g /\ i # g
    BY <1>1, <1>4
  <2>2. CASE k = g
    BY <1>1, <2>1, <2>2
  <2>3. CASE k # g
    <3>1. i \in newer[h] /\ k \in newer[i]
      BY <1>1, <1>4, <2>1, <2>3
    <3> QED BY <3>1, <2>1, <1>1 DEF Ordered
  <2> QED BY <2>2, <2>3
<1>5. \A h, i \in S : h = i \/ i \in Touched(g)[h] \/ h \in Touched(g)[i]
  <2> SUFFICES ASSUME NEW h \in S, NEW i \in S, h # i
               PROVE  i \in Touched(g)[h] \/ h \in Touched(g)[i]
    OBVIOUS
  <2>1. CASE h = g \/ i = g
    BY <2>1, <1>1
  <2>2. CASE h # g /\ i # g
    <3>1. h \in resident /\ i \in resident
      BY <2>2
    <3> QED BY <3>1, <2>2, <1>1 DEF Ordered
  <2> QED BY <2>1, <2>2
<1> QED BY <1>2, <1>3, <1>4, <1>5 DEF Ordered

\* Dropping victims keeps the account, and the rest in order.
LEMMA Dropped ==
  ASSUME NEW S \in SUBSET Granules, NEW V \in SUBSET S, NEW after, Ordered(S, after)
  PROVE  /\ Total(S \ V) = Total(S) - Total(V) /\ Total(V) \in Nat
         /\ Total(S \ V) <= Total(S)
         /\ Ordered(S \ V, after)
<1>1. Total(S) = Total(V) + Total(S \ V) /\ Total(S \ V) <= Total(S)
  BY TotalFacts
<1>2. Total(V) \in Nat /\ Total(S \ V) \in Nat
  BY TotalFacts
<1> QED BY <1>1, <1>2 DEF Ordered

\* An arena that opens has nothing to account for.
LEMMA BudgetInit == Init => BInv
<1>1. SUFFICES ASSUME Init PROVE BInv
  OBVIOUS
<1>2. resident = {} /\ bytes = 0 /\ newer = [g \in Granules |-> {}]
  BY <1>1 DEF Init
<1> QED BY <1>2, TotalNone, ArenaAssumption DEF BInv, BudgetKept, Ordered

\* The commit: the account takes the granule in, once, and gives the victims
\* back.
LEMMA BudgetCommit ==
  ASSUME IInv, BInv, NEW t \in Threads, Commit(t)
  PROVE  BInv'
<1> DEFINE g == gran[t]
           S == resident \cup {g}
           V == Victims(S, Unclaimed(t), newer', MaxBytes)
<1>1. CASE loaded[t]
  <2>1. /\ newer' = Touched(g)
        /\ resident' = S \ V
        /\ bytes' = bytes + Size[g] - Total(V)
    BY <1>1 DEF Commit, CommitOrder
  <2>2. g \in Granules /\ g \in inflight /\ g \notin resident /\ S \in SUBSET Granules
    <3>1. pc[t] = "commit"
      BY DEF Commit, At
    <3> QED BY <3>1 DEF IInv, TypeOK, Claims, Loads, InflightIsAbsent
  <2>3. S \cap Unclaimed(t) = {}
    BY DEF IInv, InflightIsAbsent, Unclaimed
  <2> HIDE DEF g
  <2>4. Ordered(S, newer')
    BY <2>1, <2>2, TouchedOrders DEF IInv, BInv
  <2>5. V \in SUBSET S
    BY DEF Victims
  <2> HIDE DEF V
  <2>6. Total(S) = Size[g] + Total(resident) /\ Total(resident) \in Nat /\ Size[g] \in Nat
    <3>1. IsFiniteSet(resident) /\ \A h \in resident \cup {g} : Size[h] \in Nat
      BY <2>2, TotalFacts
    <3>2. SumOf(Size, resident \cup {g}) = Size[g] + SumOf(Size, resident)
      BY <3>1, <2>2, SumAdd
    <3>3. Total(resident) \in Nat
      BY <2>2, TotalFacts
    <3> QED BY <3>1, <3>2, <3>3, TotalIsSum
  <2>7. Total(S \ V) = Total(S) - Total(V) /\ Total(V) \in Nat /\ Ordered(S \ V, newer')
    BY <2>2, <2>4, <2>5, Dropped
  <2>8. bytes' = Total(resident')
    <3>1. bytes = Total(resident)
      BY DEF BInv, BudgetKept
    <3> QED BY <3>1, <2>1, <2>6, <2>7
  <2>9. Total(S \ V) <= MaxBytes
    BY <2>2, <2>3, <2>4, EvictionFits, ArenaAssumption DEF V
  <2>10. Total(resident)' = Total(resident')
    OBVIOUS
  <2> QED BY <2>1, <2>7, <2>8, <2>9, <2>10 DEF BInv, BudgetKept
<1>2. CASE ~loaded[t]
  <2>1. UNCHANGED <<resident, newer, bytes>>
    BY <1>2 DEF Commit
  <2> QED BY <2>1 DEF BInv, BudgetKept, Ordered
<1> QED BY <1>1, <1>2

\* A step that touches at most one granule, and neither loads nor drops.
LEMMA BudgetUse ==
  ASSUME TypeOK, BInv, UNCHANGED <<resident, bytes>>,
         newer' = newer \/ \E g \in Granules : newer' = Touched(g)
  PROVE  BInv'
<1>1. Ordered(resident, newer')
  <2>1. resident \in SUBSET Granules
    BY DEF TypeOK
  <2> QED BY <2>1, TouchedOrders DEF BInv
<1> QED BY <1>1 DEF BInv, BudgetKept, Ordered

\* Every step keeps the account and the budget.
LEMMA BudgetStep == IInv /\ BInv /\ [Next]_vars => BInv'
<1> SUFFICES ASSUME IInv, BInv, [Next]_vars PROVE BInv'
  OBVIOUS
<1> USE DEF IInv
<1>1. CASE UNCHANGED vars
  BY <1>1, BudgetUse DEF vars, cache
<1>2. ASSUME NEW t \in Threads, Thread(t) PROVE BInv'
  <2>1. gran[t] \in Granules
    BY DEF TypeOK
  <2>2. CASE Ensure(t)
    <3>1. UNCHANGED <<resident, bytes>> /\ (newer' = newer \/ \E g \in Granules : newer' = Touched(g))
      BY <2>2 DEF Ensure
    <3> QED BY <3>1, BudgetUse
  <2>3. CASE Wake(t) \/ Look(t) \/ Fetched(t) \/ Load(t) \/ Read(t) \/ Return(t)
    <3>1. UNCHANGED <<resident, bytes>> /\ (newer' = newer \/ newer' = Touched(gran[t]))
      BY <2>3 DEF Wake, Look, Fetched, Load, Read, Return, cache
    <3> QED BY <2>1, <3>1, BudgetUse
  <2>4. CASE Commit(t)
    BY <2>4, BudgetCommit
  <2> QED BY <1>2, <2>2, <2>3, <2>4 DEF Thread
<1>3. ASSUME NEW g \in Granules, Prefetch(g) \/ Deliver(g) PROVE BInv'
  BY <1>3, BudgetUse DEF Prefetch, Deliver, cache
<1>4. CASE SealCheck
  BY <1>4, BudgetUse DEF SealCheck, cache
<1>5. ASSUME NEW g \in Granules, Change(g) PROVE BInv'
  <2>1. /\ resident' = resident \ {g}
        /\ bytes' = IF g \in resident THEN bytes - Size[g] ELSE bytes
        /\ newer' = newer
    BY <1>5 DEF Change
  <2>2. CASE g \in resident
    <3>1. {g} \in SUBSET resident /\ resident \in SUBSET Granules
      BY <2>2 DEF TypeOK
    <3>2. /\ Total(resident \ {g}) = Total(resident) - Total({g})
          /\ Total(resident \ {g}) <= Total(resident)
          /\ Ordered(resident \ {g}, newer)
      BY <3>1, Dropped DEF BInv
    <3>3. Total(resident) \in Nat /\ Total(resident \ {g}) \in Nat /\ MaxBytes \in Nat
      BY <3>1, TotalFacts, ArenaAssumption
    <3>4. Total(resident)' = Total(resident \ {g})
      BY <2>1
    <3> QED BY <2>1, <2>2, <3>2, <3>3, <3>4, TotalOne DEF BInv, BudgetKept
  <2>3. CASE g \notin resident
    <3>1. resident' = resident
      BY <2>1, <2>3
    <3> QED BY <2>1, <2>3, <3>1, BudgetUse
  <2> QED BY <2>2, <2>3
<1>6. ASSUME NEW target \in 0..MaxBytes, Evict(target) PROVE BInv'
  <2> DEFINE V == Victims(resident, inflight, newer, target)
  <2>1. resident' = resident \ V /\ bytes' = bytes - Total(V) /\ newer' = newer
    BY <1>6 DEF Evict
  <2>2. V \in SUBSET resident /\ resident \in SUBSET Granules
    BY DEF TypeOK, Victims
  <2> HIDE DEF V
  <2>3. /\ Total(resident \ V) = Total(resident) - Total(V)
        /\ Total(resident \ V) <= Total(resident)
        /\ Ordered(resident \ V, newer)
    BY <2>2, Dropped DEF BInv
  <2>4. Total(resident) \in Nat /\ Total(resident \ V) \in Nat /\ MaxBytes \in Nat
    BY <2>2, TotalFacts, ArenaAssumption
  <2>5. Total(resident)' = Total(resident \ V)
    BY <2>1
  <2> QED BY <2>1, <2>3, <2>4, <2>5 DEF BInv, BudgetKept
<1> QED BY <1>1, <1>2, <1>3, <1>4, <1>5, <1>6 DEF Next

\* The byte account is exact and the budget holds in every reachable state:
\* no interleaving of loads, commits, evictions and updates counts a granule
\* twice, loses one, or leaves a commit over budget.
THEOREM BudgetIsKept == Spec => []BudgetKept
<1>1. BInv => BudgetKept
  BY DEF BInv
<1> QED BY <1>1, BudgetInit, BudgetStep, ArenaInvariance, PTL DEF Spec

\* Every reachable state of the arena is well typed.
THEOREM ArenaTypes == Spec => []TypeOK
<1>1. IInv => TypeOK
  BY DEF IInv
<1> QED BY <1>1, ArenaInvariance, PTL

\* What ensure() answers yes for is there at that moment, given that no single
\* granule is larger than the budget: the commit evicts others, never the
\* granule it was made for.
THEOREM EnsuredIsReadable ==
  ASSUME \A g \in Granules : Size[g] <= MaxBytes
  PROVE  Spec => EnsureMakesReadable
<1> DEFINE Readable(t) == gran'[t] \in Holes \cup resident'
<1>1. ASSUME IInv, [Next]_vars, NEW t \in Threads, pc[t] # "ok", pc'[t] = "ok"
      PROVE  Readable(t)
  <2>1. PICK u \in Threads : Thread(u)
    BY <1>1 DEF Next, Prefetch, Deliver, Change, Evict, SealCheck, vars, thread
  <2>2. t = u
    BY <2>1, <1>1 DEF Thread, Ensure, Wake, Look, Fetched, Load, Commit, Read, Return, Leave,
       Goto, IInv, TypeOK
  <2>3. CASE Ensure(t)
    BY <2>3, <1>1 DEF Ensure, Goto, Ready, IInv, TypeOK
  <2>4. CASE Wake(t)
    BY <2>4, <1>1 DEF Wake, Goto, IInv, TypeOK
  <2>5. CASE Commit(t)
    <3> DEFINE g == gran[t]
               S == resident \cup {g}
               V == Victims(S, Unclaimed(t), newer', MaxBytes)
    <3>1. /\ newer' = Touched(g) /\ resident' = S \ V /\ gran' = gran
      BY <2>5, <1>1 DEF Commit, CommitOrder, Goto, IInv, TypeOK
    <3>2. g \in Granules /\ newer'[g] = {}
      BY <3>1, <1>1 DEF Touched, IInv, TypeOK
    <3>3. S \cap Unclaimed(t) = {}
      BY <1>1 DEF IInv, InflightIsAbsent, Unclaimed
    <3>4. {h \in S : h = g \/ h \in newer'[g] \/ h \in Unclaimed(t)} = {g}
      BY <3>2, <3>3
    <3>5. ~(Total({g}) > MaxBytes)
      <4>1. Size[g] \in Nat /\ MaxBytes \in Nat /\ Size[g] <= MaxBytes
        BY <3>2, ArenaAssumption
      <4> QED BY <4>1, <3>2, TotalOne
    <3>6. g \notin V
      <4> HIDE DEF g, S
      <4> QED BY <3>4, <3>5 DEF Victims
    <3> QED BY <3>1, <3>6
  <2>6. CASE Look(t) \/ Fetched(t) \/ Load(t) \/ Read(t) \/ Return(t)
    BY <2>6, <1>1 DEF Look, Fetched, Load, Read, Return, Leave, Goto, At, IInv, TypeOK
  <2> QED BY <2>1, <2>2, <2>3, <2>4, <2>5, <2>6 DEF Thread
<1>2. IInv /\ [Next]_vars =>
        [\A t \in Threads : pc[t] # "ok" /\ pc'[t] = "ok" => Readable(t)]_vars
  BY <1>1
<1> QED BY <1>2, ArenaInvariance, PTL DEF Spec, EnsureMakesReadable
=============================================================================
