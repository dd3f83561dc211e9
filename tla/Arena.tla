-------------------------------- MODULE Arena --------------------------------
(***************************************************************************)
(* The granule-resident memory backend of the streaming VFS                *)
(* (xuocore/vfs_store_arena.cpp): a budgeted cache in which one granule is *)
(* one asset of the plan, loaded from the blob store on demand by the      *)
(* threads that need it and evicted least recently used first.             *)
(*                                                                         *)
(* One action is one critical section of m_mutex, or one step of a load,   *)
(* which runs outside it.  The condition variable is notified with         *)
(* notify_all, so a wait is its predicate used as a guard.                 *)
(***************************************************************************)
EXTENDS Integers, FiniteSets, FiniteSetsExt

CONSTANTS
    Threads,    \* threads that use the arena
    Granules,   \* the assets of the plan that are not streamable
    Files,      \* the files of the plan
    FileOf,     \* [Granules -> Files]
    Holes,      \* blockless entries of a pack: no bytes, trivially ready
    Ranged,     \* refined blocks: streamed by range, never a stored blob
    Size,       \* [Granules -> Nat] payload size
    MaxBytes    \* vfs_store_arena_params.max_bytes, in the unit of Size

ASSUME ArenaAssumption ==
    /\ IsFiniteSet(Granules)
    /\ FileOf \in [Granules -> Files]
    /\ Holes \subseteq Granules /\ Ranged \subseteq Granules
    /\ Size \in [Granules -> Nat]
    /\ MaxBytes \in Nat

VARIABLES
    resident,   \* the granules with their bytes in memory
    inflight,   \* the granules an ensure() is loading
    newer,      \* granule -> those touched since it was (last_access)
    bytes,      \* m_bytes_resident
    sealed,     \* m_sealed: the files complete at the last seal_check()
    stored,     \* the granules whose blob is in the store
    wanted,     \* the granules whose blob the fetch engine was asked for
    online,     \* vfs_fetch_started()
    pc,         \* where each thread is
    gran,       \* the granule it ensures
    block,      \* whether it is prepared to wait
    loaded      \* whether its load succeeded

cache == <<resident, inflight, newer, bytes>>
outside == <<stored, wanted>>
thread == <<pc, gran, block, loaded>>
vars == <<cache, sealed, outside, online, thread>>

Pc == {"idle", "wait", "look", "fetch", "load", "commit", "ok", "fail"}

\* (Of bytes, BudgetKept below says what it is.)
TypeOK ==
    /\ resident \subseteq Granules /\ inflight \subseteq Granules
    /\ newer \in [Granules -> SUBSET Granules]
    /\ sealed \subseteq Files
    /\ stored \subseteq Granules \ Holes /\ wanted \subseteq Granules \ Holes
    /\ online \in BOOLEAN
    /\ pc \in [Threads -> Pc]
    /\ gran \in [Threads -> Granules]
    /\ block \in [Threads -> BOOLEAN] /\ loaded \in [Threads -> BOOLEAN]

Total(S) == MapThenSumSet(LAMBDA g : Size[g], S)

-----------------------------------------------------------------------------
\* An arena opened on a plan; some blobs may be in the store already.
Init ==
    /\ resident = {} /\ inflight = {} /\ bytes = 0 /\ sealed = {}
    /\ newer = [g \in Granules |-> {}]
    /\ stored \in SUBSET (Granules \ (Holes \cup Ranged)) /\ wanted = {}
    /\ online \in BOOLEAN
    /\ pc = [t \in Threads |-> "idle"]
    /\ gran \in [Threads -> Granules]
    /\ block = [t \in Threads |-> FALSE] /\ loaded = [t \in Threads |-> FALSE]

\* last_access = ++m_clock, as the order it puts the granules in.
Touched(g) == [h \in Granules |-> IF h = g THEN {} ELSE newer[h] \cup {g}]

\* (mutation: the last victim stays)
AllButLast(S, busy, after, target) ==
    {g \in S \ busy : Total({h \in S : h \in after[g] \/ h \in busy}) > target}

\* What evict_locked drops of the resident granules S to get down to target,
\* least recently used first and passing over the busy ones: a granule goes
\* when it, those used after it and the busy ones exceed the target.
Victims(S, busy, after, target) ==
    {g \in S \ busy :
        Total({h \in S : h = g \/ h \in after[g] \/ h \in busy}) > target}

-----------------------------------------------------------------------------
(***************************************************************************)
(* ensure()                                                                *)
(***************************************************************************)
At(t, here) == pc[t] = here
Goto(t, there) == pc' = [pc EXCEPT ![t] = there]

\* Whether there is nothing to load.
Ready(g) == g \in Holes \cup resident

\* (mutation: a granule that another thread loads is loaded again)
FreeAlways(g) == TRUE

\* Whether nobody loads the granule already.
Free(g) == g \notin inflight

\* The look under the lock: ready, being loaded by another thread, or ours to
\* load.  Any of them counts as a use.
Ensure(t) ==
    /\ At(t, "idle")
    /\ \E g \in Granules, wait \in BOOLEAN :
       /\ gran' = [gran EXCEPT ![t] = g]
       /\ block' = [block EXCEPT ![t] = wait]
       /\ newer' = IF g \in Holes THEN newer ELSE Touched(g)
       /\ \/ /\ Ready(g)
             /\ Goto(t, "ok") /\ UNCHANGED inflight
          \/ /\ ~Ready(g) /\ Free(g)
             /\ inflight' = inflight \cup {g}
             /\ Goto(t, "look")
          \/ /\ ~Ready(g) /\ ~Free(g)
             /\ Goto(t, IF wait THEN "wait" ELSE "fail")
             /\ UNCHANGED inflight
    /\ UNCHANGED <<resident, bytes, sealed, outside, online, loaded>>

\* The loader is done; what it loaded may be evicted again by now.
Wake(t) ==
    /\ At(t, "wait") /\ gran[t] \notin inflight
    /\ newer' = Touched(gran[t])
    /\ Goto(t, IF gran[t] \in resident THEN "ok" ELSE "fail")
    /\ UNCHANGED <<resident, inflight, bytes, sealed, outside, online,
                   gran, block, loaded>>

\* Outside the lock: a refined block streams from the range source, if the
\* caller waits; any other blob is asked of the fetch engine when missing.
Look(t) ==
    /\ At(t, "look")
    /\ \/ /\ gran[t] \in Ranged \ stored
          /\ \E got \in BOOLEAN :
             /\ got => block[t] /\ online
             /\ loaded' = [loaded EXCEPT ![t] = got]
          /\ Goto(t, "commit")
          /\ UNCHANGED wanted
       \/ /\ gran[t] \notin Ranged \ stored
          /\ wanted' = IF gran[t] \notin stored /\ online
                       THEN wanted \cup {gran[t]} ELSE wanted
          /\ Goto(t, IF gran[t] \notin stored /\ online /\ block[t]
                     THEN "fetch" ELSE "load")
          /\ UNCHANGED loaded
    /\ UNCHANGED <<cache, sealed, stored, online, gran, block>>

\* vfs_fetch_blob_to_store returns: stored, failed or timed out.
Fetched(t) ==
    /\ At(t, "fetch")
    /\ Goto(t, "load")
    /\ UNCHANGED <<cache, sealed, outside, online, gran, block, loaded>>

\* vfs_store_asset_payload; a blob in the store may turn out to be bad.
Load(t) ==
    /\ At(t, "load")
    /\ \E good \in BOOLEAN :
       /\ good => gran[t] \in stored
       /\ loaded' = [loaded EXCEPT ![t] = good]
    /\ Goto(t, "commit")
    /\ UNCHANGED <<cache, sealed, outside, online, gran, block>>

\* (mutation: the commit does not count as a use)
TouchedBefore(g) == newer

\* The order after a commit.
CommitOrder(g) == Touched(g)

\* (mutation: a failed load keeps its claim)
ClaimsLeft(t) == IF loaded[t] THEN inflight \ {gran[t]} ELSE inflight

\* The claims that are left when a load ends.
Unclaimed(t) == inflight \ {gran[t]}

\* Back under the lock: the claim ends, the bytes go in, the budget is met.
Commit(t) ==
    /\ At(t, "commit")
    /\ inflight' = Unclaimed(t)
    /\ \/ /\ loaded[t]
          /\ newer' = CommitOrder(gran[t])
          /\ LET S       == resident \cup {gran[t]}
                 victims == Victims(S, Unclaimed(t), newer', MaxBytes) IN
             /\ resident' = S \ victims
             /\ bytes' = bytes + Size[gran[t]] - Total(victims)
          /\ Goto(t, "ok")
       \/ /\ ~loaded[t]
          /\ Goto(t, "fail")
          /\ UNCHANGED <<resident, newer, bytes>>
    /\ UNCHANGED <<sealed, outside, online, gran, block, loaded>>

\* The locals of ensure() are gone when it returns.
Leave(t) ==
    /\ Goto(t, "idle")
    /\ block' = [block EXCEPT ![t] = FALSE]
    /\ loaded' = [loaded EXCEPT ![t] = FALSE]

\* The caller looks at its answer and reads the bytes, or it does not.
Read(t) ==
    /\ At(t, "ok")
    /\ newer' = IF gran[t] \in resident THEN Touched(gran[t]) ELSE newer
    /\ Leave(t)
    /\ UNCHANGED <<resident, inflight, bytes, sealed, outside, online, gran>>

Return(t) ==
    /\ pc[t] \in {"ok", "fail"}
    /\ Leave(t)
    /\ UNCHANGED <<cache, sealed, outside, online, gran>>

Thread(t) ==
    \/ Ensure(t) \/ Wake(t) \/ Look(t) \/ Fetched(t) \/ Load(t) \/ Commit(t)
    \/ Read(t) \/ Return(t)

-----------------------------------------------------------------------------
(***************************************************************************)
(* The other operations.                                                   *)
(***************************************************************************)
\* (mutation: a reserved slot is prefetched)
StreamedOnly(g) == g \in Ranged

\* Granules that are never a blob of their own.
Blobless(g) == g \in Holes \cup Ranged

\* prefetch(): the engine is asked for the blob, the arena stays as it is.
Prefetch(g) ==
    /\ online /\ ~Blobless(g) /\ g \notin stored
    /\ wanted' = wanted \cup {g}
    /\ UNCHANGED <<cache, sealed, stored, online, thread>>

\* The fetch engine finishes a request (external).
Deliver(g) ==
    /\ g \in wanted
    /\ wanted' = wanted \ {g}
    /\ stored' \in {stored, stored \cup {g}}
    /\ UNCHANGED <<cache, sealed, online, thread>>

\* evict()
Evict(target) ==
    LET victims == Victims(resident, inflight, newer, target) IN
    /\ resident' = resident \ victims
    /\ bytes' = bytes - Total(victims)
    /\ UNCHANGED <<inflight, newer, sealed, outside, online, thread>>

\* seal_check(): a file is sealed when all of it is ready at this moment.
SealCheck ==
    /\ sealed' = {f \in Files : \A g \in Granules : FileOf[g] = f => Ready(g)}
    /\ UNCHANGED <<cache, outside, online, thread>>

\* (mutation: the mark outlives the change)
SealedStill(g) == sealed

\* The marks that are left when a granule is invalidated.
Unsealed(g) == sealed \ {FileOf[g]}

\* An update changes an asset: invalidate() drops the granule, and then its
\* blob is deleted.  The update runs at boot, before the arena has users.
Change(g) ==
    /\ g \notin Holes
    /\ \A t \in Threads : At(t, "idle")
    /\ resident' = resident \ {g}
    /\ bytes' = IF g \in resident THEN bytes - Size[g] ELSE bytes
    /\ sealed' = Unsealed(g)
    /\ stored' = stored \ {g}
    /\ UNCHANGED <<inflight, newer, wanted, online, thread>>

Next ==
    \/ \E t \in Threads : Thread(t)
    \/ \E g \in Granules : Prefetch(g) \/ Deliver(g) \/ Change(g)
    \/ \E target \in 0..MaxBytes : Evict(target)
    \/ SealCheck

Spec == Init /\ [][Next]_vars

\* A thread inside ensure() goes on; nobody has to call it, and a fetch is
\* bounded by its timeout.
Fairness ==
    \A t \in Threads :
        WF_vars(Wake(t) \/ Look(t) \/ Fetched(t) \/ Load(t) \/ Commit(t))

FairSpec == Spec /\ Fairness

-----------------------------------------------------------------------------
(***************************************************************************)
(* Properties.                                                             *)
(***************************************************************************)
Loads(t) == pc[t] \in {"look", "fetch", "load", "commit"}

\* The byte account is the size of what is resident, and fits the budget.
BudgetKept == bytes = Total(resident) /\ bytes <= MaxBytes

\* A granule in flight has exactly one thread loading it.
OneLoader ==
    /\ inflight = {gran[t] : t \in {u \in Threads : Loads(u)}}
    /\ \A t, u \in Threads : Loads(t) /\ Loads(u) /\ gran[t] = gran[u] => t = u

\* "A granule with an in-flight ensure is never evicted": it is not resident
\* while it loads, so a commit never finds bytes it would count twice.
InflightIsAbsent == inflight \cap resident = {}

\* "Bytes are always recoverable from the store": a file that was sealed has
\* every blob of its granules in the store, evicted or not.
SealedRecoverable ==
    \A g \in Granules \ (Holes \cup Ranged) : FileOf[g] \in sealed => g \in stored

\* ensure() "makes the asset's bytes readable": when it answers true the
\* granule is there, however many others were used while it loaded.
EnsureMakesReadable ==
    [][\A t \in Threads :
         pc[t] # "ok" /\ pc'[t] = "ok" => gran'[t] \in Holes \cup resident']_vars

\* Every claim on a granule ends.
ClaimsEnd == \A g \in Granules : g \in inflight ~> g \notin inflight
=============================================================================
