--------------------------------- MODULE Trap ---------------------------------
(***************************************************************************)
(* One page-guarded mapping of a managed pack (xuocore/vfs_trap.cpp): the  *)
(* pages with bytes that are not there yet are protected, the first access *)
(* faults, and the faulting thread resolves the covering blocks in three   *)
(* phases: claim under trap_lock, fetch and write with no trap lock held,  *)
(* commit and flip under trap_lock.  What cannot be fetched is served from *)
(* a stub payload.                                                         *)
(*                                                                         *)
(* The file is mapped shared, so its bytes are what a store writer or a    *)
(* stub fill put down last.  One action is one critical section of         *)
(* trap_lock or of the boot state mutex, or one step between two; a stub   *)
(* fill alone takes several, because it unguards pages on the way, and who *)
(* reads needs no lock.                                                    *)
(***************************************************************************)
EXTENDS Integers, FiniteSets, FiniteSetsExt

CONSTANTS
    Threads,        \* threads that read, or ensure a range
    NumPages,
    NumBlocks,      \* the blocks of the pack that are not reserved slots
    On,             \* block -> the pages it overlaps
    Stubbable,      \* blocks whose planned span can hold a stub payload
    Record,         \* block -> the pages its record in the entry table lies on; none
                    \* when it has no record, or not within the table
    Ranged,         \* blocks streamed by range, never a stored blob
    Batch,          \* VFS_TRAP_BATCH
    MaxFailures,    \* bound: how often mprotect fails
    Ranges,         \* the page ranges that the game ensures before it reads
    Listed          \* the sweep list: what the background materializes as well

Pages == 1..NumPages
Blocks == 1..NumBlocks

ASSUME TrapAssumption ==
    /\ NumPages \in Nat \ {0} /\ NumBlocks \in Nat \ {0}
    /\ On \in [Blocks -> (SUBSET Pages) \ {{}}]
    /\ Record \in [Blocks -> SUBSET Pages]
    /\ Stubbable \subseteq Blocks /\ Ranged \subseteq Blocks
    /\ Batch \in Nat \ {0} /\ MaxFailures \in Nat
    /\ Ranges \subseteq (SUBSET Pages) \ {{}}
    /\ Listed \subseteq Blocks
    /\ IsFiniteSet(Threads)

VARIABLES
    state,      \* block -> absent, inflight or present, as the trap sees it
    attempt,    \* block -> the epoch of the last failed attempt
    stubbed,    \* the blocks that were served from a stub
    reported,   \* those of which the backend was told
    page,       \* page -> none, real, zeroed or stubbed
    pending,    \* page -> how many of its blocks are not present
    guarded,    \* the pages the operating system protects
    stuck,      \* the pages whose fill never landed
    epoch,      \* resolve_epoch
    failures,   \* mprotect failures so far
    real,       \* the slices of the file with real bytes: <<block, page>>
    stub,       \* the slices with stub bytes
    entry,      \* block -> its record in the entry table
    db,         \* block -> its state byte
    sweep,      \* the block the sweep is writing, 0: none
    pc,         \* where each thread is
    call        \* what it resolves

blocks == <<state, attempt, stubbed, reported>>
cover == <<page, pending, guarded, stuck, failures>>
file == <<real, stub, entry>>
disk == <<file, db, sweep>>
vars == <<blocks, cover, epoch, disk, pc, call>>

\* No attempt is of epoch 0; one per thread, and one more, are in use at most.
Epochs == 0..(Cardinality(Threads) + 2)

Call == [span: SUBSET Pages,      \* the pages to make readable
         fault: BOOLEAN,          \* whether an access faulted on them
         mine: Epochs,            \* its epoch
         claim: SUBSET Blocks,    \* the blocks it still has to resolve
         lost: SUBSET Blocks,     \* those it failed to (any_failed: not empty)
         waited: BOOLEAN,         \* whether others have some in flight
         patch: SUBSET Blocks,    \* the stubbed blocks whose record it has to patch
         report: SUBSET Blocks]   \* the stubbed blocks it has to tell of
NoCall == [span |-> {}, fault |-> FALSE, mine |-> 0, claim |-> {},
           lost |-> {}, waited |-> FALSE, patch |-> {}, report |-> {}]

Pc == {"idle", "fault", "start", "epoch", "claim", "check", "wait", "asleep",
       "ensure", "entry", "landed", "missing", "fill", "filling", "patch",
       "close", "report", "hook", "return", "chained"}

\* Inside a fill, with trap_lock.
Filling == {"filling", "patch", "close"}
Locked(S) == \E t \in S : pc[t] \in Filling

Of(b) == {b} \X On[b]
Slices == UNION {Of(b) : b \in Blocks}
Covering(S) == {b \in Blocks : On[b] \cap S # {}}
Absent(p) == {b \in Blocks : p \in On[b] /\ state[b] # "present"}
Covered(S) == \A p \in S : page[p] # "none"

TypeOK ==
    /\ state \in [Blocks -> {"absent", "inflight", "present"}]
    /\ attempt \in [Blocks -> Epochs]
    /\ stubbed \subseteq Blocks /\ reported \subseteq stubbed
    /\ page \in [Pages -> {"none", "real", "zeroed", "stubbed"}]
    /\ pending \in [Pages -> 0..NumBlocks]
    /\ guarded \subseteq Pages /\ stuck \subseteq Pages
    /\ epoch \in Epochs /\ failures \in 0..MaxFailures
    /\ real \subseteq Slices /\ stub \subseteq Slices
    /\ entry \in [Blocks -> {"none", "real", "stub"}]
    /\ db \in [Blocks -> {"pending", "fetched", "stubbed", "failed"}]
    /\ sweep \in 0..NumBlocks
    /\ pc \in [Threads -> Pc] /\ call \in [Threads -> Call]

-----------------------------------------------------------------------------
(***************************************************************************)
(* vfs_trap_map: blocks are present as the entry table says, and the pages *)
(* with others are protected.  (A pack with all of them is sealed: it maps *)
(* readable and never faults.)                                             *)
(***************************************************************************)
Init ==
    /\ \E have \in (SUBSET Blocks) \ {Blocks} :
       /\ state = [b \in Blocks |-> IF b \in have THEN "present" ELSE "absent"]
       /\ entry = [b \in Blocks |-> IF b \in have THEN "real" ELSE "none"]
       /\ db = [b \in Blocks |-> IF b \in have THEN "fetched" ELSE "pending"]
       /\ real = UNION {Of(b) : b \in have}
    /\ stub = {} /\ sweep = 0
    /\ attempt = [b \in Blocks |-> 0] /\ epoch = 0
    /\ stubbed = {} /\ reported = {}
    /\ pending = [p \in Pages |-> Cardinality(Absent(p))]
    /\ page = [p \in Pages |-> IF Absent(p) = {} THEN "real" ELSE "none"]
    /\ guarded = {p \in Pages : Absent(p) # {}}
    /\ stuck = {} /\ failures = 0
    /\ pc = [t \in Threads |-> "idle"] /\ call = [t \in Threads |-> NoCall]

At(t, here) == pc[t] = here

\* It takes trap_lock there.
Enters(t, here) == At(t, here) /\ ~Locked(Threads \ {t})
Goto(t, there) == pc' = [pc EXCEPT ![t] = there]

-----------------------------------------------------------------------------
(***************************************************************************)
(* Entering a resolution.                                                  *)
(***************************************************************************)
\* An access touches a protected page.
Touch(t) ==
    /\ At(t, "idle")
    /\ \E p \in guarded :
          call' = [call EXCEPT ![t].span = {p}, ![t].fault = TRUE]
    /\ Goto(t, "fault")
    /\ UNCHANGED <<blocks, cover, epoch, disk>>

\* The handler: the page is resolved, a stuck one goes to the next handler.
Handle(t) ==
    /\ Enters(t, "fault")
    /\ Goto(t, IF call[t].span \subseteq stuck THEN "chained" ELSE "start")
    /\ UNCHANGED <<blocks, cover, epoch, disk, call>>

\* vfs_trap_resolve_range: the game makes a range readable before it reads.
Resolve(t) ==
    /\ Enters(t, "idle")
    /\ \E S \in Ranges : call' = [call EXCEPT ![t].span = S]
    /\ Goto(t, "start")
    /\ UNCHANGED <<blocks, cover, epoch, disk>>

\* The epochs that somebody can still compare with.
InUse == {call[t].mine : t \in Threads}
            \cup (IF \E t \in Threads : At(t, "epoch") THEN {epoch} ELSE {})

\* resolve_epoch++.  Epochs are only compared for equality: a step takes one
\* that is not in use, and attempts of which nobody knows the epoch are as old
\* as those of epoch 0.
Begin(t) ==
    /\ Enters(t, "start")
    /\ \E e \in Epochs \ (InUse \cup {0}) :
       /\ \A d \in Epochs \ (InUse \cup {0}) : e <= d
       /\ epoch' = e
    /\ attempt' = [b \in Blocks |-> IF attempt[b] \in InUse THEN attempt[b] ELSE 0]
    /\ call' = [call EXCEPT ![t].lost = {}]
    /\ Goto(t, "epoch")
    /\ UNCHANGED <<state, stubbed, reported, cover, disk>>

\* The epoch is read back after the lock is released.
ReadEpoch(t) ==
    /\ At(t, "epoch")
    /\ call' = [call EXCEPT ![t].mine = epoch]
    /\ Goto(t, "claim")
    /\ UNCHANGED <<blocks, cover, epoch, disk>>

-----------------------------------------------------------------------------
(***************************************************************************)
(* Phase 1: claim                                                          *)
(***************************************************************************)
\* (mutation: a block that another thread resolves is claimed as well)
ClaimableTwice(t) ==
    {b \in Covering(call[t].span) :
        state[b] # "present" /\ attempt[b] # call[t].mine}

\* (mutation: a block that failed is claimed over and over)
ClaimableAgain(t) == {b \in Covering(call[t].span) : state[b] = "absent"}

\* Nobody resolves them, and this call has not failed to.
Claimable(t) ==
    {b \in Covering(call[t].span) :
        state[b] = "absent" /\ attempt[b] # call[t].mine}

\* The first ones of the blocks S, up to a batch.
First(S) == {b \in S : Cardinality({c \in S : c < b}) < Batch}

\* trap_claim
Claim(t) ==
    /\ Enters(t, "claim")
    /\ LET first == First(Claimable(t)) IN
       /\ state' = [b \in Blocks |-> IF b \in first THEN "inflight" ELSE state[b]]
       /\ call' = [call EXCEPT
             ![t].claim = first,
             ![t].waited = /\ first = {}
                           /\ \E b \in Covering(call[t].span) : state[b] = "inflight"]
       /\ Goto(t, IF first = {} THEN "check" ELSE "ensure")
    /\ UNCHANGED <<attempt, stubbed, reported, cover, epoch, disk>>

\* (mutation: a failure is not served from a stub)
AfterQuiet(t) == "return"

\* Where a resolution goes when there is nothing left to claim.
After(t) == IF call[t].lost # {} THEN "fill" ELSE "return"

\* Nothing to claim: the range is covered, given up, or in flight elsewhere.
Check(t) ==
    /\ Enters(t, "check")
    /\ Goto(t, IF Covered(call[t].span) \/ ~call[t].waited
               THEN After(t) ELSE "wait")
    /\ call' = [call EXCEPT ![t].waited = FALSE]
    /\ UNCHANGED <<blocks, cover, epoch, disk>>

\* The lock was released after the look, and the wait has no predicate.
Doze(t) ==
    /\ Enters(t, "wait")
    /\ Goto(t, "asleep")
    /\ UNCHANGED <<blocks, cover, epoch, disk, call>>

\* The wait expires, and with it the deadline: one more look, and out.
Expire(t) ==
    /\ Enters(t, "asleep")
    /\ Goto(t, IF Claimable(t) # {} THEN "claim" ELSE After(t))
    /\ UNCHANGED <<blocks, cover, epoch, disk, call>>

-----------------------------------------------------------------------------
(***************************************************************************)
(* Phase 2: fetch and write.  The store writer holds the state mutex over  *)
(* the block's bytes, its table entry and its state byte.                  *)
(***************************************************************************)
Block(t) == Min(call[t].claim)

\* The state mutex is free.
Free == sweep = 0 /\ \A t \in Threads : pc[t] # "entry"

Write(b) ==
    /\ real' = real \cup Of(b) /\ stub' = stub \ Of(b)

\* A streamed block is always written, another unless it is there already.
Writes(b) == b \in Ranged \/ db[b] # "fetched"

\* Nothing to write: no network, no answer in time, a missing or bad blob.
Miss(t) ==
    /\ At(t, "ensure")
    /\ Goto(t, "missing")
    /\ UNCHANGED <<blocks, cover, epoch, disk, call>>

\* The payload does not fit its plan.
Spoil(t) ==
    /\ At(t, "ensure") /\ Free /\ Writes(Block(t))
    /\ db' = [db EXCEPT ![Block(t)] = "failed"]
    /\ Goto(t, "missing")
    /\ UNCHANGED <<blocks, cover, epoch, file, sweep, call>>

Find(t) ==
    /\ At(t, "ensure") /\ Free /\ ~Writes(Block(t))
    /\ Goto(t, "landed")
    /\ UNCHANGED <<blocks, cover, epoch, disk, call>>

WriteBlock(t) ==
    /\ At(t, "ensure") /\ Free /\ Writes(Block(t))
    /\ Write(Block(t))
    /\ Goto(t, "entry")
    /\ UNCHANGED <<blocks, cover, epoch, entry, db, sweep, call>>

WriteEntry(t) ==
    /\ At(t, "entry")
    /\ entry' = [entry EXCEPT ![Block(t)] = "real"]
    /\ db' = [db EXCEPT ![Block(t)] = "fetched"]
    /\ Goto(t, "landed")
    /\ UNCHANGED <<blocks, cover, epoch, real, stub, sweep, call>>

\* The background sweep writes the same way, and claims nothing.  (A streamed
\* block that is fetched after the sweep's look is written a second time, with
\* the same bytes: left out.)
SweepBlock(b) ==
    /\ Free /\ db[b] # "fetched"
    /\ Write(b)
    /\ sweep' = b
    /\ UNCHANGED <<blocks, cover, epoch, entry, db, pc, call>>

SweepEntry ==
    /\ sweep # 0
    /\ entry' = [entry EXCEPT ![sweep] = "real"]
    /\ db' = [db EXCEPT ![sweep] = "fetched"]
    /\ sweep' = 0
    /\ UNCHANGED <<blocks, cover, epoch, real, stub, pc, call>>

-----------------------------------------------------------------------------
(***************************************************************************)
(* Phase 3: commit and flip                                                *)
(***************************************************************************)
\* The calls to mprotect that fail, of those for the pages S.
MayFail(S) == {bad \in SUBSET S : Cardinality(bad) + failures <= MaxFailures}

\* (mutation: a page is readable as soon as one of its blocks is)
FlipsAll(b) == {p \in On[b] : page[p] # "real"}

\* trap_flip_pages: the pages of b that have all their blocks now.
Flips(b) == {p \in On[b] : pending'[p] = 0 /\ page[p] # "real"}

\* trap_mark_present
Counted(b) == [p \in Pages |-> IF p \in On[b] /\ pending[p] > 0
                               THEN pending[p] - 1 ELSE pending[p]]

\* The pages that are marked, of those to flip.
Marked(S, bad) == S \ bad

\* The thread goes on and wakes those that wait for a commit.
Woken(t, there) ==
    [u \in Threads |-> IF u = t THEN there
                       ELSE IF pc[u] = "asleep" THEN "claim" ELSE pc[u]]

Committed(t) ==
    /\ call' = [call EXCEPT
          ![t].claim = @ \ {Block(t)},
          ![t].lost = IF At(t, "missing") THEN @ \cup {Block(t)} ELSE @]
    /\ pc' = Woken(t, IF call[t].claim = {Block(t)} THEN "claim" ELSE "ensure")

Commit(t) ==
    /\ Enters(t, "landed")
    /\ LET b == Block(t) IN
       /\ state' = [state EXCEPT ![b] = "present"]
       /\ pending' = Counted(b)
       /\ \E bad \in MayFail(Flips(b)) :
          LET good == Marked(Flips(b), bad) IN
          /\ page' = [p \in Pages |-> IF p \in good THEN "real" ELSE page[p]]
          /\ stuck' = stuck \ good
          /\ guarded' = guarded \ (Flips(b) \ bad)
          /\ failures' = failures + Cardinality(bad)
    /\ Committed(t)
    /\ UNCHANGED <<attempt, stubbed, reported, epoch, disk>>

GiveUp(t) ==
    /\ Enters(t, "missing")
    /\ state' = [state EXCEPT ![Block(t)] = "absent"]
    /\ attempt' = [attempt EXCEPT ![Block(t)] = call[t].mine]
    /\ Committed(t)
    /\ UNCHANGED <<stubbed, reported, cover, epoch, disk>>

-----------------------------------------------------------------------------
(***************************************************************************)
(* What could not be resolved is served from a stub.  trap_stub_fill holds *)
(* trap_lock for the whole range, page by page.                            *)
(***************************************************************************)
\* (mutation: present blocks are filled as well)
UnfilledAll(p) == {b \in Blocks : p \in On[b]} \ stubbed

\* The blocks on page p that a fill finds absent and not stubbed before.
Unfilled(p) == Absent(p) \ stubbed

\* The protected pages of the range.
Todo(t) == {p \in call[t].span : page[p] = "none"}

\* A block is filled on the first page of it that becomes writable, and flagged.
Serve(p) ==
    LET slices == (Unfilled(p) \cap Stubbable) \X {p} IN
    /\ real' = real \ slices /\ stub' = stub \cup slices
    /\ stubbed' = stubbed \cup Unfilled(p)
    /\ guarded' = guarded \ {p}

\* The page is readable again.  (It is marked before its blocks' records are
\* patched here: the lock is held, and a patch tells it from other pages.)
FillPage(t, p) ==
    LET served == Unfilled(p) \cap Stubbable
        patch == {b \in First(served) : Record[b] # {}} IN
    /\ Serve(p)
    /\ page' = [page EXCEPT ![p] = IF served = {} THEN "zeroed" ELSE "stubbed"]
    /\ call' = [call EXCEPT ![t].patch = patch]
    /\ Goto(t, IF patch = {} THEN "filling" ELSE "patch")
    /\ UNCHANGED <<stuck, failures>>

\* Not at once, or never: the next attempt finds the blocks flagged, so it
\* patches no record, and counts no byte.
FillSlow(t, p) ==
    /\ failures < MaxFailures /\ failures' = failures + 1
    /\ Serve(p)
    /\ page' = [page EXCEPT ![p] = "zeroed"]
    /\ \E wedged \in SUBSET {p} : stuck' = stuck \cup wedged
    /\ Goto(t, "filling")
    /\ UNCHANGED call

\* It never became writable, and stays protected.
FillShut(t, p) ==
    /\ failures < MaxFailures /\ failures' = failures + 1
    /\ page' = [page EXCEPT ![p] = "zeroed"]
    /\ stuck' = stuck \cup {p}
    /\ Goto(t, "filling")
    /\ UNCHANGED <<stubbed, guarded, real, stub, call>>

Fill(t) ==
    /\ Enters(t, "fill") \/ At(t, "filling")
    /\ Todo(t) # {}
    /\ LET p == Min(Todo(t)) IN
       FillPage(t, p) \/ FillSlow(t, p) \/ FillShut(t, p)
    /\ UNCHANGED <<state, attempt, reported, pending, epoch, entry, db, sweep>>

FillEnd(t) ==
    /\ Enters(t, "fill") \/ At(t, "filling")
    /\ Todo(t) = {}
    /\ Goto(t, "report")
    /\ UNCHANGED <<blocks, cover, epoch, disk, call>>

\* trap_stub_patch_entry, of the next block: its record is to advertise the
\* stub's span only.
Patching(t) == Min(call[t].patch)

NextPatch(t) ==
    /\ call' = [call EXCEPT ![t].patch = @ \ {Patching(t)}]
    /\ Goto(t, IF call[t].patch = {Patching(t)} THEN "filling" ELSE "patch")

\* The pages of the record are opened, and it is written ...
PatchOpen(t) ==
    /\ At(t, "patch")
    /\ guarded' = guarded \ Record[Patching(t)]
    /\ entry' = [entry EXCEPT ![Patching(t)] = "stub"]
    /\ Goto(t, "close")
    /\ UNCHANGED <<failures, call>>

\* ... or one does not open: the record is left, and so are the pages before.
PatchFail(t) ==
    /\ At(t, "patch")
    /\ failures < MaxFailures /\ failures' = failures + 1
    /\ \E k \in Record[Patching(t)] :
          guarded' = guarded \ {q \in Record[Patching(t)] : q < k}
    /\ NextPatch(t)
    /\ UNCHANGED entry

\* (mutation: the guard of a page of the table is not restored)
UnguardedNone(b) == {}

\* The pages of the record of b that lack bytes still.
Unguarded(b) == {p \in Pages : p \in Record[b] /\ page[p] = "none"}

\* They get their guard back, and nobody looks whether they do; the others
\* become readable.
PatchClose(t) ==
    /\ At(t, "close")
    /\ \E bad \in MayFail(Unguarded(Patching(t))) :
       /\ guarded' = guarded \cup (Unguarded(Patching(t)) \ bad)
       /\ failures' = failures + Cardinality(bad)
    /\ NextPatch(t)
    /\ UNCHANGED entry

\* Marks and bytes stay as they are.
Patch(t) ==
    /\ PatchOpen(t) \/ PatchFail(t) \/ PatchClose(t)
    /\ UNCHANGED <<blocks, page, pending, stuck, epoch, real, stub, db, sweep>>

\* (mutation: blocks that were not stubbed are reported)
UntoldAll(t) == Covering(call[t].span) \ reported

\* (mutation: a block that starts before the range is passed over)
UntoldInside(t) ==
    {b \in Covering(call[t].span) \ reported :
        b \in stubbed /\ Min(On[b]) \in call[t].span}

\* The stubbed blocks of the range that nobody reported yet.
Untold(t) == {b \in Covering(call[t].span) \ reported : b \in stubbed}

\* trap_report_stubs takes what was not reported yet (its batches are not told
\* apart here) ...
Report(t) ==
    /\ Enters(t, "report")
    /\ reported' = reported \cup Untold(t)
    /\ call' = [call EXCEPT ![t].report = Untold(t)]
    /\ Goto(t, IF Untold(t) = {} THEN "return" ELSE "hook")
    /\ UNCHANGED <<state, attempt, stubbed, cover, epoch, disk>>

\* vfs_trap_asset_stubbed: a heal that raced the report wins.
Mark(b) == IF db[b] = "fetched" THEN db ELSE [db EXCEPT ![b] = "stubbed"]

\* ... and tells the backend of each, with no trap lock held.
Hook(t) ==
    /\ At(t, "hook") /\ Free
    /\ LET b == Min(call[t].report) IN
       /\ db' = Mark(b)
       /\ call' = [call EXCEPT ![t].report = @ \ {b}]
       /\ Goto(t, IF call[t].report = {b} THEN "return" ELSE "hook")
    /\ UNCHANGED <<blocks, cover, epoch, file, sweep>>

\* Back to the caller; a faulting instruction runs again, and faults again when
\* its page is still protected.
Return(t) ==
    /\ Enters(t, "return")
    /\ \/ /\ call[t].fault /\ call[t].span \subseteq guarded
          /\ Goto(t, "fault") /\ UNCHANGED call
       \/ /\ ~(call[t].fault /\ call[t].span \subseteq guarded)
          /\ Goto(t, "idle") /\ call' = [call EXCEPT ![t] = NoCall]
    /\ UNCHANGED <<blocks, cover, epoch, disk>>

Thread(t) ==
    \/ Handle(t) \/ Begin(t) \/ ReadEpoch(t) \/ Claim(t) \/ Check(t) \/ Doze(t)
    \/ Expire(t) \/ Miss(t) \/ Spoil(t) \/ Find(t) \/ WriteBlock(t)
    \/ WriteEntry(t) \/ Commit(t) \/ GiveUp(t) \/ Fill(t) \/ FillEnd(t)
    \/ Patch(t) \/ Report(t) \/ Hook(t) \/ Return(t)

Next ==
    \/ \E t \in Threads : Touch(t) \/ Resolve(t) \/ Thread(t)
    \/ \E b \in Listed : SweepBlock(b)
    \/ SweepEntry

Spec == Init /\ [][Next]_vars

\* A thread inside a resolution goes on (fetches and waits are bounded), and so
\* does the sweep inside a write.  Nobody has to read.
Fairness == WF_vars(SweepEntry) /\ \A t \in Threads : WF_vars(Thread(t))

FairSpec == Spec /\ Fairness

-----------------------------------------------------------------------------
(***************************************************************************)
(* Properties.                                                             *)
(***************************************************************************)
Resolving == {"ensure", "entry", "landed", "missing"}

\* A block in flight has exactly one thread that resolves it, so it is fetched
\* once however many threads fault on it, and never stays claimed.
OneResolver ==
    /\ \A b \in Blocks : state[b] = "inflight" <=>
          \E t \in Threads : pc[t] \in Resolving /\ b \in call[t].claim
    /\ \A t, u \in Threads :
          t # u /\ pc[t] \in Resolving /\ pc[u] \in Resolving
             => call[t].claim \cap call[u].claim = {}

\* The count that decides when a page flips is the number of its blocks that
\* are not present, and "a page is kept protected until every block overlapping
\* it is present", or marked as degraded, and no longer than that, unless an
\* mprotect failed: a fault on it always has something to resolve.
WholePages ==
    \A p \in Pages :
        /\ pending[p] = Cardinality(Absent(p))
        /\ page[p] = "real" => Absent(p) = {}
        /\ page[p] = "none" /\ failures = 0 => Absent(p) # {}

\* A fill preserves present blocks.
PresentBytesKept ==
    [][\A b \in Blocks : state[b] = "present" =>
         \A s \in Of(b) : s \in real => s \in real']_vars

\* Every stub ends up in the state DB: one that it does not know of is about to
\* be reported, by a thread that fills its range or has.
NoSilentStub ==
    \A b \in stubbed : db[b] = "pending" =>
        \E t \in Threads :
            \/ /\ pc[t] \in Filling \cup {"report"}
               /\ b \in Covering(call[t].span)
            \/ At(t, "hook") /\ b \in call[t].report

\* The real mark means "materialized bytes".
RealMarkIsReal ==
    \A p \in Pages : page[p] = "real" =>
        \A b \in Blocks : p \in On[b] => <<b, p>> \in real

\* A table entry that reads as materialized has its bytes: "a stub patch must
\* never read as the real thing".
EntryIsReal == \A b \in Blocks : entry[b] = "real" => Of(b) \subseteq real

\* The pages that a fill has open, to patch a record on them; and those of which
\* a failed call may have left the guard off.
Opened == UNION {Record[Patching(t)] : t \in {u \in Threads : At(u, "close")}}
Bared == IF failures = 0 THEN {} ELSE UNION {Record[b] : b \in stubbed}

\* What the pages are marked and what the operating system protects agree: a
\* page with bytes that are not there yet is guarded, but for one that carries
\* the record of a stubbed block as well.  The code has two exceptions there:
\* such a page is open to every reader while the record is written, and it stays
\* open when an mprotect of the patch failed, because nobody looks at its result
\* (vfs_trap.cpp:503, 514).  "The block would silently read sparse zeros" then.
GuardsMatchMarks ==
    \A p \in Pages :
        /\ page[p] = "none" => p \in guarded \cup Opened \cup Bared
        /\ p \in guarded => page[p] = "none" \/ p \in stuck

\* The trap, the file, its table and the operating system tell one story of a
\* page, whichever download, write or mprotect failed on the way there (but for
\* those of a patch: see GuardsMatchMarks).
MarksAreTrue == RealMarkIsReal /\ EntryIsReal /\ GuardsMatchMarks

\* A resolution that returns has made "every covering byte readable", unless an
\* mprotect failed.
ResolveCovers ==
    [][\A t \in Threads : At(t, "return") /\ pc'[t] # "return" /\ failures = 0
         => Covered(call[t].span)]_vars

\* A fault ends: the access goes through, or the process dies of a stuck page.
\* (A page that did not flip and is not stuck faults for ever.)
FaultsEnd ==
    \A t \in Threads :
        At(t, "fault") ~> \/ pc[t] \in {"idle", "chained"}
                         \/ (failures > 0 /\ call[t].span \cap stuck = {})
=============================================================================
