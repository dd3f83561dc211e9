# A verification model of CrossUO

CrossUO is a client for Ultima Online. Its core library, `xuocore`, holds a *streaming virtual file
system*: the game starts before its gigabytes of data are installed, the data files are sparse, and
what is read first is downloaded first. That part of the program is concurrent, persistent and
restartable, and it is most of what these TLA+ modules model, check with TLC and prove with TLAPS. The
client on top of it is a single-threaded user interface with two concurrent seams that are modelled as
well: the *script runtime* of the assistant, whose scripts run on threads of their own and marshal
each call to the main thread, and the *walker*, which walks ahead of the game server.

Source lines below are those of `src/xuocore` unless another path is given.

## 1. The system

| Part | Files | State it keeps | Operations | What makes it correct |
|---|---|---|---|---|
| Fetch engine | `vfs_fetch.*` | the queue `s_queue`, the dedup map `s_active`, the worker pool, the byte budget `s_buffered`, the sweep lane, bundle slots, statistics | blocking request, batch, forgotten request, worker loop, gather and settlement of a bundle, in-game demotion, start, stop, idle | one transfer per tail; every request settles once and for good; *done* means stored; accounts neither leak nor underflow; demand is never starved by sweeps; every caller returns |
| Transport | `vfs_transport.*`, `http.*` | none of its own | get, range, bundle | its outcomes are the engine's environment |
| Arena store | `vfs_store_arena.*` | granules (resident, in flight, age), the resident byte count, sealed files | ensure (load outside the lock), wait, evict, invalidate, seal | one loader per granule; the budget; least recently used order; a sealed file is always recoverable |
| Sparse store | `vfs_store.*` | packs: an entry table and blocks; loose files | prepare, write block, patch entry, invalidate, verify | data before pointer; a stub never reads as real |
| State DB | `vfs_state.*` | `plan.bin`, `state.bin`, `journal.log` | save, load, journal mark, replay, reconcile, fold | nothing claimed that is not on disk; nothing fetched is lost; convergence |
| Trap | `vfs_trap.*`, `vfs_stub.*` | mappings; per block absent / in flight / present; per page a mark, a count of absent blocks, its protection | map, unmap, fault, resolve, claim, wait, commit, flip, stub fill, report | one resolver per block; a page turns readable only when whole; stubs are reported; faults end |
| Boot, update, sweep, shutdown | `vfs.cpp` | `s_plan`, `s_states`, `s_journal`, the background thread | plan refresh and diff, apply diff, reconcile, tiers, convergence, sweep, fold, shutdown | an update refetches exactly what changed; a kill at any step is repaired by the next boot |
| Web lanes | `vfs.cpp` (stream files, block LRU), parts of `vfs_fetch.cpp` | registry of stream files, chunk bitmaps, LRU | chunk jobs, promotion, parking | web build only |
| Plan and manifest | `vfs_manifest.*`, `mft.*`, `vfs_source_*` | the plan | build, subset, refine, layout, diff | pure functions; the indexes of the diff fit the plan it is applied to |
| Script runtime | `src/src/Assistant/script/commandqueue.*`, `scripthandle.*`, `engine.cpp`, `apiscript.cpp`; `ui/assistantui.cpp` | the queue, its retired nodes and its shutdown flag; a handle and a thread per script; stop and pause flags | marshaled call, wait, abandon, drain, shut; play, stop, pause, tick, join | nodes freed once; a dropped call never reads as a result; a stopped script stops; no handle goes before its thread; nobody waits for ever |
| Walker | `src/src/Walker/Walker.cpp`, `PathFinder.cpp`, `GameObjects/GameCharacter.cpp`, packet handlers | the window of unconfirmed steps, the queue of steps to animate, sequence numbers, failure flags | walk, animate, confirm, deny, update, resend | window and animation agree; the client ends where the server has it; a failed walk resumes |
| Client | the rest of `src/src` | the game world, network, gumps, rendering | packet handlers, user interface | game logic |

How they meet: a **fault** (or the game's explicit ensure) makes the trap claim blocks under
`trap_lock`, call the backend with no trap lock, and commit. The backend of `vfs.cpp` asks the **fetch
engine** for the blob and waits, then takes the **boot state mutex** and lets the **sparse store**
write the block, patch the entry, mark the **journal** and the state byte. The **sweep** does the same
from the background thread without a claim. The **fold** writes `state.bin` and empties the journal
under the same mutex. The **arena** replaces sparse store and trap on systems without page traps.
Scripts meet the client in one place: a **worker** pushes a node and waits, the **main thread** drains
a few nodes per frame, executes them and completes them; it also starts, stops, joins and deletes the
workers, from the user interface, from a command that it executes, and when the game is left.

The hard behaviours are: requests that are shared and requeued while a worker still holds them;
claims released and retaken around a download; page states, protections and counts that must agree
although `mprotect` may fail; stub fills racing real writes; a process killed between any two writes;
an update applied half; a script's call that is given up, dropped, executed and refused at the same
time; a main thread that joins a worker which waits for the main thread; answers of the game server
that cross requests. `PROJECT.json` lists each of these hazards at its line with the properties
that watch it, and those that none watches yet, with the reason.

## 2. The modules

### `FetchEngine` - the download engine

One action is one critical section of `s_mutex`, or one effect outside of it (an HTTP attempt, the
creation of a store file, its completion). `copy` in a job record is the node in `s_queue` and `state`
the shared `vfs_fetch_job`: the code keeps both, and several hazards come from their difference. A
worker goes idle -> `TakeBundle` or `TakeJob` -> transfer (`HttpBody`, `HttpBadSize`, `HttpMissing`,
`HttpError`) -> `StoreOpen`, `StoreWrite` -> `BundleSettle` for a rider -> `Complete`. A client goes
`Check` (looks at the store, no lock) -> `Submit` -> `Wake`, `Timeout`, or `BatchPoll`. Workers are
notified with `notify_all`, so a wait is its predicate as a guard. Not modelled: jobs of stream files
and manifests, the parking of workers in the web build.

`FetchEngineInv` states the inductive invariant and proves it, `FetchEngineProofs` draws the conclusions,
adds the invariant of the accounts, and proves the refinement.

### `FetchService` - what the engine promises

The abstract specification: requests for tails, each pending, then done, failed or abandoned; a store;
callers that ask, wait, and are told yes or no. It has no workers, priorities, bundles, budgets or
queue. `FetchEngine` implements it (`ImplementsService`): a request is a job, its result the job's
state (abandoned when a stop took it out of the queue unsettled), the answers are read off the place of
each call. So a bundle that settles all its members is one `Deliver`, one that fails is a stutter, a
retry and a requeue are stutters, and every write to the store is a `Write` for a pending request.

### `Arena` - the memory store

`ensure` in its two sections with the load between them, waiters, `evict`, `invalidate`, `seal`, and
blobs that come and go. The age of a granule is abstracted to the order of use (`newer`), which is
all that eviction looks at.

### `Trap` - page faults

One mapping of a pack. A byte is abstracted to a *slice* `<<block, page>>`, which is real, stub or
zero in the file that everybody shares (the mapping is `MAP_SHARED`). A thread walks the loop of
`trap_resolve_range` with one action per critical section: `Begin`, `ReadEpoch` (after the unlock, as
in the code), `Claim`, `Check`, `Doze`, `Expire`, the backend's `Miss`, `Spoil`, `Find`,
`WriteBlock`, `WriteEntry`, then `Commit` or `GiveUp`, the stub fill, `Report`, `Hook`, `Mark`, `Return`.
The fill holds the lock for its whole range (`Filling`, `Locked`: no other action that takes the lock,
`Enters`, happens meanwhile) but is not one step, because readers need no lock and find what is unguarded
on the way. It goes page by page (`FillPage`; `FillSlow` and `FillShut` when an `mprotect` of the page
fails) and after each page record by record: `PatchOpen` opens the pages of the entry table that the record
of a stubbed block lies on (`Record`) and writes it, `PatchFail` returns at one that does not open,
`PatchClose` gives the guard back to those that lack bytes, without a look at the result.
`SweepBlock` and `SweepEntry` are the background sweep, which goes over the blocks of `Listed`. Not
modelled: loose-file mappings (but that a file without a table patches no record), trap-off mode.

### `TrapMapping` - the end of a mapping

Extends `Trap` with the life of the mapping: a resolution pins it when it starts (`Starts`, from
`trap_pin`), and holds the pin until its thread is idle or back at its instruction. `Unmap` frees it,
or waits for the pins (`UnmapGrace`, then `UnmapFree`) and leaves a zombie at the deadline
(`UnmapZombie`). `ShutdownBegin` removes the handler, `ShutdownEnd` forgets what is idle and makes a
zombie of the rest. A fault on what is not registered, or without the handler, is `Foreign` and goes
to the handler before. `vfs_trap_map` is the initial state, because nobody knows the address
before it returns. The grace is taken to be long enough for the last thread's instruction to
run again; `Quiet` says that no other fault waits for the lock in it (section 3). Not modelled: several
mappings, two threads that unmap.

### `StateDB` - boots, kills, updates

One pack over its life: what is on disk (`planbin`, `statebin`, `journal`, the pack's `layout`,
`entry` table and `block`s, the `blob` store) and what a running process has in memory. `Boot` loads
or rebuilds the plan; `Load` (what `state.bin` says), `Replay` (one record of the journal) until
`ReplayDone`, `Reset` / `Invalidate` / `DropBlob` for each changed asset, `Reconcile`
and `Prepare` follow in the order of the code; a session downloads, writes a block in its three steps
(`WriteBlock`, `WriteEntry`, `WriteMark`), serves and marks stubs, and folds. A file that is saved
over itself is two actions: truncated, then written. `Crash` is a kill between any two steps.
An update changes the payload or the size of an asset; the metadata checksum that the entry also
carries does not cover the payload and is left out. `had` is a history variable: what the last
session had fetched, less what an update changed.

### `ScriptQueue` and `ScriptRuntime` - scripts

`ScriptQueue` holds the state and the actions of `commandqueue.cpp`. A node is an *address* that the
heap may give out again, because the code looks for nodes by address; a call is the command record on
the worker's side. One action is one critical section of `s_QueueMutex` or of a node's mutex:
`ExecBegin`, `ExecPush` / `ExecPushFull` (drops the oldest) / `ExecRefused`, `ExecDone`, `ExecAbandon`,
`ExecScan`, `ExecRead` on the worker, `DrainPop` ... `DrainEnd` and `Shutdown` on the main thread.
`ScriptRuntime` extends it with the threads (`RunEngine`, from `Begin` to `Exit`), the handles, and the
main thread: a frame drains and ticks, the user or a command plays, stops and pauses scripts, leaving
the game shuts the queue and stops everything. `End` is `Terminate` and `Join` of a set of scripts, with
the deletion of a handle when `~CScriptHandle` runs them. Three things that C++ leaves undefined can
happen (`DoubleDelete`, `NodeStolen`, `EngineGone`, section 3): `Broken` says that one has, the program
then takes no step, and the properties of the queue speak of the runs before. `late` and `ran` are
history variables. Not modelled: what the commands do to the game, the pool of parsed scripts, the
console; the nodes' condition variables are guards, for each wait has a predicate.

### `Walker` - the step protocol

The client's window (`slot`, `count`, `current`, `sequence`), its queue of steps to animate, the
packets under way and the server. `Walk`, `Animate`, `ConfirmWalk`, `Reset` and `Receive` are the
client's; the server is external and modelled as the client takes it to be: answers in order, any step
may be denied, sequence 0 after a denial or an update. The world is a ring of cells. Not modelled: the
fast-walk keys, the throttle between steps (any time may pass), the path search, denials without a
position, steps of other mobiles, and a step that `CGameWorld::UpdateGameObject` (`GameWorld.cpp:1045`)
queues past the window when a packet about objects names the player's own serial.

### Composition

`StateDB` takes the download as a step and the trap as a set of assets that it has as present;
`Trap` takes the materializer as its two writes. The interleavings inside a download are
`FetchEngine`'s, those inside a fault `Trap`'s.

## 3. The runs

`MC*.tla` name the instances, each `.cfg` is one run.

| Run | Checks | Instance |
|---|---|---|
| `FetchBundle` | types, queue and dedup map, exclusive transfers, owners, the three accounts and idle, headroom for demand | 2 workers, 1 client, 2 tails (one needs most of the budget), 3 requests (a batch of sweeps, a forgotten sweep, demand), bundling |
| `FetchLive` | the engine implements `FetchService`, every request leaves the queue, every call returns | weak fairness, 2 requests, stop, demotion and timeouts |
| `ArenaCache` | types, byte account and budget, one loader, recoverability, ensure makes readable, every claim ends | 2 threads, 3 granules of sizes 2, 1, 2 and a reserved slot in two files, budget 3 |
| `TrapPair` | one resolver, exact counts and whole pages, present bytes kept, no silent stub, no deadlock | 2 threads, 2 pages, 2 blocks, one of them on both pages, on the sweep list and large enough for a stub, the entry table on the first page; faults, and ensures of one page |
| `TrapLive` | types, marks, entries and protections are true, pins hold, a resolution covers its range, faults end | 1 thread and one that unmaps and shuts down, the same pages, blocks and table, faults and ensured ranges, `mprotect` fails up to twice, one block can be stubbed and the other is swept, weak fairness |
| `StateCrash` | types, what is fetched is real, what is advertised was written, nothing is lost, everything is fetched in the end but for stubs and failed downloads | 2 assets, one streamed; 3 versions, an update in place and one of a size; 2 kills, a stub, a miss; the write of `state.bin` and the application of an update spared |
| `ScriptPair` | types, nodes accounted for and waiters served, a result was executed, a stop holds, handles outlive threads | 2 scripts of 2 calls, 3 addresses, a queue of 1, 3 operations of the user or of a command |
| `ScriptLive` | every call returns, every join returns | 1 script, weak fairness |
| `Walker` | types, the window matches the steps and stays in bounds, in sync when quiet, a failed walk resumes | a window of 3, numbers up to 3, 5 steps, 1 teleport or resend, 4 cells |

**Why the bounds are enough.** Two workers, threads or clients are the fewest with a race, and two
tails the fewest that make a bundle; the third request of `FetchBundle` lets a tail come back after
it settled, and its forgotten sweep lets the one client meet a request that is still running. Two pages and two blocks, one straddling, are the fewest with a page of two blocks and a
block of two pages; with the table on the first page, the block that is on both has its record on a page
that another block's bytes may be missing from. Two assets are the fewest where an update changes one and must keep the other.
Two kills let the second one hit the recovery from the first. A queue of one makes the second script's
call drop the first one's, and a third address lets one be given out again while a waiter still looks
for it. Numbers up to 3 wrap within five steps of a window of three, and an update that comes while it
is full throws all of it away. The bounds are constants
(`MaxJobs`, `MaxStarts`, `MaxFailures`, `MaxCrashes`, `MaxStubs`, `MaxMisses`, `MaxCalls`, `MaxOps`,
`MaxRequests`, `MaxOthers`) and each only cuts
off how often the environment acts. Threads are declared symmetric
only in `TrapPair`, and addresses in `ScriptPair`, which have no liveness. `CHECK_DEADLOCK FALSE` stands where the system may stop for good: an
engine that was stopped, a game whose pages are all readable, a process chained to its old fault handler, a client whose user does nothing
more, an undefined step.

**Fairness.** Engine: weak fairness of every worker, of every waiting call and of the join; no request
is ever promised, and no timeout. Arena: a thread inside `ensure` goes on. Trap: weak fairness of
every thread inside a resolution or a fault, of the sweep's second write, and of an unmap and a shutdown, whose waits are bounded;
nobody has to fault, to ensure or to unmap. Scripts: weak
fairness of the main loop and of each worker that has something to do; a script may run for ever, but
notices a stop (its interrupt handler). Walker: packets are answered and handled, steps are animated;
nobody has to walk. State DB: weak
fairness of boot, fold and write, which run to completion on their thread; strong fairness of the
sweep on each listed asset, because a fold interrupts it again and again but runs on the same thread
between two chunks, and because some session has to last long enough. No fairness of faults.

### Where code and documentation disagree

Each of these runs checks one statement of a comment or header and TLC finds it violated. The code
lines and the quoted text are under `findings` in `PROJECT.json`.

| Run | What happens |
|---|---|
| `FetchRiderRace` | the flag that should protect a requeued rider (`vfs_fetch.cpp:76-80`) is consumed by another worker that overtakes |
| `TrapStubRace` | a stub fill lands on a block that another thread just wrote |
| `StateUpdateCrash` | a kill after the new plan is saved keeps the old block as fetched |

The models also show the following, each with the instance named. No run is kept for them; they are
the reason why some property is stated with a restriction or some run spares a step.

* *Engine.* A gather takes sweeps while a demand request is queued (`vfs_fetch.cpp:344` against
  `vfs_fetch.h:45-46`), and takes a lane slot past the cap (591, against 124-125): `HeadroomKept` speaks
  of the times without a bundle. With two workers the demotion leaves one, and its lane of one lets
  a sweep take it (875, against `vfs_fetch.h:78-79`): hence `target > 1`. "Already in the store" (1045)
  is answered for a file that another worker is filling, and an answer of another size purges
  a blob that was stored meanwhile (268). Requests abandoned by a stop are never given back (938), so
  with `MaxStarts = 2` the engine is not idle again: hence `starts = 1` in `AccountsExact`.
* *Arena.* A granule larger than the budget is evicted by its own commit (`vfs_store_arena.cpp:242`,
  against `vfs_store_arena.h:58-60`): `EnsureMakesReadable` fails with `MaxBytes = 1`.
* *Trap.* With a block of `Stubbable` in `Listed` and one thread `EntryIsReal` and `RealMarkIsReal` fail: the sweep patches an
  entry over a stub that was filled after its block bytes (`vfs.cpp:3537`), which is why
  `TrapLive` sweeps a block that is too small to hold a stub. With two threads
  `ResolveCovers` fails: two resolutions read one epoch (`vfs_trap.cpp:735`), or one overwrites the
  other's, which then claims a failed block again (780, against 115-116). A wait may begin after the
  commit it waits for (760) and lasts until the deadline. The second page of a stubbed block gets zeros
  (572). With `Quiet = FALSE` `PinsHold` fails: a thread whose fault waits for the lock pins the mapping
  in the grace of an unmap, which frees it without another look (1330-1339, against 381-383, "so a
  resolver can never run against a freed mapping"). A zombie that is idle by the time of the
  shutdown is erased from the registry (1092-1095, against 135-138, "never unmapped or erased again"), so
  an unmap that follows frees it. A resolution that outlives the wait of the shutdown
  goes on after the states are cleared and the journal is closed (`vfs.cpp:4640`, against 4624-4625). A page whose flip failed is flipped by nobody (418), and a thread that touches it faults for
  ever: hence the restrictions in `ResolveCovers` and `FaultsEnd`. A page of the entry table may carry bytes
  of an absent block as well, and the record patch of a stub opens it (`vfs_trap.cpp:499-504`). While it is
  open, any thread reads zeros there without a fault, and it stays open when the `mprotect` at 514 fails,
  whose result nobody looks at (508-511: "restore its guard, or the patch would leave those bytes readable
  and the block would silently read sparse zeros instead of healing on demand"). The early return at 503
  leaves the pages before it open too; where the table precedes the blocks, as in a planned pack, a page
  before another one of the table carries no block, but the model is for any layout. So `GuardsMatchMarks`
  fails without `Opened` (with no failure, eleven steps) and without `Bared` (with one, twelve steps), and
  speaks of the other pages only.
* *State DB.* After an update of a size `FetchedIsReal` fails without a kill: the states are
  reconciled (`vfs.cpp:4270`) before the pack is made anew; hence `SizesKept`. It fails as well when an update changes a
  streamed asset in place (`Ranged = {2}`, no kill): the difference is taken before the rebuilt plan is refined
  (`vfs.cpp:3262`, 3270), so a stored block never meets itself in it, is never reset, and the old content stays
  fetched (against 3282-3285); hence only the asset that is not streamed changes in `ThreePlans`. With `SaveAtomic = FALSE` `NothingLost` fails:
  after a kill inside the write of `state.bin` the journal is emptied too (`vfs_state.cpp:235`,
  `vfs.cpp:4223-4232`). After a reboot a stub of full length passes the presence check of the trap
  (`vfs_trap.cpp:814`) and no fault heals it, which is why `Converges` leaves stubs out.

* *Scripts.* The queue that is shut when the game is left (`AssistantWindow.cpp:675`,
  `assistantui.cpp:360`) is never opened again, although the client goes on: after the next login every
  call of every script is refused (`commandqueue.h:219-220`: "the client never calls this - a fresh
  process starts fresh"). A call that is abandoned while the main thread executes it has its record
  written to after `ScriptQueue_Exec` returned (`commandqueue.cpp:77`, against `commandqueue.h:29-30`, "the
  queue never touches it after Exec returns"). The last reclaim of a drain holds no lock (270): beside a
  worker's reclaim a node is deleted twice (`DoubleDelete`). A waiter that gives up looks for its node by
  address (222-228) and, when the drain has freed it and another call got the address, takes that one's
  (`NodeStolen`). `Terminate` uses an engine pointer that it loaded before the worker left
  (`scripthandle.cpp:117-124`, `EngineGone`); so does `SetPaused` (102-105), which the model takes as one step,
  because no run goes on past such a use. With `Stuck = {s1}` `JoinReturns` fails: a native call that never
  returns holds the main thread, because `g_Ticks` is moved by the main thread only (`Main.cpp:917`), so
  the bound of `Join` never passes (`scripthandle.h:55`, "the caller never blocks forever"); the same fact
  is what `HandleOutlivesThread` rests on. A pause before the engine is published is lost.
* *Walker.* When a denial or a teleport throws away a step 0 that is still under way, its confirmation
  is taken for the next step 0, and client and server part without notice: hence `crossed` in `InSync`.
  A bad confirmation empties the window but not the steps (`Walker.cpp:112-117`), whose animation then
  takes the count below zero until the update comes: hence `~failed` in `WindowMatchesSteps`.

## 4. What is proved

For every value of the constants that satisfies the assumption of the module (a finite set of
integer tails, positive limits; no bound on workers, clients, threads, pages, blocks, granules, assets,
versions, kills, requests, scripts, calls or steps). A theorem that needs more than that says so in an
`ASSUME` of its own; each of those is listed below with the reason.

| Module | Theorems |
|---|---|
| `FetchEngineInv` | `Invariance` |
| `FetchEngineProofs` | `TypeCorrect`, `QueueAgrees`, `TransfersAreExclusive`, `NoOrphanedMark`, `DoneOnlyStored`, `ResultsAreFinal`, `AccountsAreExact`, `HeadroomHolds`, and `EngineImplementsService`, the refinement |
| `ArenaProofs` | `ArenaInvariance`, `ArenaTypes`, `OneLoaderPerGranule`, `InflightIsNeverEvicted`, `SealedStaysRecoverable`, `BudgetIsKept`, `EnsuredIsReadable` |
| `TrapProofs` | of a mapping on its own: `TrapInvariance`, `TrapTypes`, `OneResolverHolds`, `WholePagesHold`, `StubsAreTold`, `PresentBytesStay`; while it is unmapped or the trap shut down: `MappingInvariance`, `MappingTypes`, `MarksTrue`, `GuardsAgree`, `ResolutionCovers`, `PinInvariance`, `NoResolverOnFreed` |
| `StateDBProofs` | `StateTypes`, `WrittenFirst`, `FetchedReal`, `NothingIsLost` |
| `ScriptRuntimeProofs` | `HandleInvariance`, `HandleNeverDangles`, `QueueInvariance`, `NodesAreAccounted`, `ResultsAreReal`, `StoppedIsStopped`, `ScriptTypes` |
| `WalkerProofs` | `WalkerTypes`, `WindowMatches`, `PlayerInSync` |
| `Sums` | no theorem of its own: the lemmas on sums over finite sets that the accounts of the engine and of the arena rest on |

**The assumptions on constants.** None of them is about the size of an instance.

| Assumption | Theorems | Why |
|---|---|---|
| no granule is larger than the budget | `EnsuredIsReadable` | a larger one is evicted by its own commit (section 3) |
| `Unraced`: no stub fill runs beside another writer of its block, which is so with one thread and no such block on the sweep list, or when no block can be stubbed, for any number of threads | `MarksTrue` | `TrapStubRace` is the race. What it says of the guards (`GuardsMatchMarks`) has the two exceptions of section 3, and needs no `Unraced`: `GuardsAgree` |
| `Alone`: one thread | `ResolutionCovers` | two resolutions may read one epoch (section 3) |
| `Quiet`: no other fault waits for the lock in the grace of an unmap | `PinInvariance`, `NoResolverOnFreed` | section 3 |
| `UpdateAtomic`: no kill inside the application of an update | `FetchedReal`, `NothingIsLost` | `StateUpdateCrash` |
| `SaveAtomic`: no kill inside the write of `state.bin` | `NothingIsLost` | section 3 |
| `Frozen`: updates leave the streamed assets alone; `Distinct`: each two versions differ in one of the others | `FetchedReal`, `NothingIsLost` | the difference of two plans cannot see a streamed asset (section 3), so an update that is not `Distinct` looks like none |

### The arguments

*The engine* (`IInv` in `FetchEngineInv`). That no two workers transfer one tail is not
inductive: it rests on who holds which job. `Hands` says a busy worker holds a job of the queue,
`Holding` that such a job is marked running unless it is a rider's that was requeued, `Sharing` that
two workers hold the same job only when one is a rider that the other overtook, `Requeued` what the
flag of such a rider stands for, `Owned` that each running job has a worker or a bundle behind it,
`Slots` and `SlotsApart` that the members of bundles under way are apart. `Written` ties the results
to the store: a worker that is about to answer *ok* has written, and a settled job has left the queue.
The proof has one lemma per action and part of the invariant (`Type...`, `Q...`, `W...`); `JobSteps`
reduces the two action properties to the five ways in which a job changes.

*The accounts* (`AInv` in `FetchEngineProofs`). The bytes are a sum over the workers, so a step of one
worker changes one term (`Sums`). The count of requests is the number of jobs without a result, over all
sessions; in the first one, before a stop abandons any, those are the queue's (`FirstSession`). The slots
of the sweep lane are the hard account: a rider that was requeued is completed twice, by its own worker
and by the one that took it again, and its slot must be given back once. `Tickets` names the workers that
hold one, `Rides` says that the mark of a ride stands for the one worker of the bundle, from the gather to
the first completion of the job, whoever that comes from, so the slot is given back with the mark
(`LoneRider`, `OneRider`). `HeadroomHolds` follows: were every active worker in the lane after a step that
takes a sweep, the lane would have more tickets than slots, because its size leaves one worker out
(`LaneSize`).

*The refinement.* The mapping takes each action of the engine to a step of the service or a stutter.
Most of them change no mapped state, which is shown once (the steps that leave jobs,
store and calls alone, and those that change fields of a job which its outcome does not look at). The
others are matched one by one: `Submit` and `Batch` to `Ask`, a completion and a settlement to `Deliver`
or `Fail`, the writes of a worker to `Write`, `StopJoin` to `Abandon`. Two facts about reachable states
carry the argument: the engine's invariant (a pending request is in the queue, one for a tail, and a
worker that answers *ok* has a whole blob), and that a call waits only for jobs that exist.

*The arena.* Each claim has its loading thread (`Claims`), what is in flight is absent,
a load that succeeded has its blob in the store (`FromStore`), so a file can only be sealed over
blobs that exist, and `invalidate` withdraws the seal before the blob goes. That an eviction reaches the
budget rests on the uses being ordered (`Ordered`): what stays is the newest, and if it did not fit, the
oldest of it would have been a victim.

*The trap* (`TrapInv`). A thread that resolves holds a claim, and claims are of blocks that were absent;
hence one resolver for a block, and a commit finds its block absent on each of its pages. So the counts
are exact and the pages that reach zero are those that the commit flips (`PagesInv`). A stub that nobody
reported is in the range of a thread that is about to report, one that was reported is on its way to the
state DB (`StubsTold`). `BytesHeld` is what `MarksTrue` needs: whatever the trap, the state DB or the entry
table call there is in the file, and a block that a stub may fill is advertised only once it is present
or about to be. The guards rest on what a patch may open: whoever patches, holds the lock, and the blocks
that it has to patch are flagged as stubbed (`Flagged`), so a page is open to one patch at a time, which
closes it (`Opened`), or an `mprotect` failed, and then it is among those that stubbed blocks have
records on (`Bared`). `LostKnown` says of a thread alone that what its resolution attempted and does not have
it has lost, so the fill covers it. All of this is proved of the steps that the trap and the mapping
share, so it holds of both specifications.

*The pins* (`PinInv`). That no mapping goes under a resolution is not inductive: an unmap
frees after its grace without a look at the pins, so there must be none in the grace either. A
resolution that goes on was pinned before its step (`ResolutionIsPinned`), so the set of pins grows only
where one starts, and that needs a registered mapping outside of a grace.

*The state DB* (`StateInv`, `Remembered`). `WrittenFirst` needs one fact beside itself: while an entry is
patched, its block is there. The other two are about what the *disk* says, because that is all a kill
leaves. `Claim` says that the replay of the journal over the saved states makes an asset fetched, `Blank`
that it makes it pending; the loop of the replay is followed record by record (`Read`). `Versioned` ties
the plan on disk to the one in use and the difference to both, `Folded` what a fold has written so far,
`Laid` and `Blobs` the pack and the store to the plan. `Real` then says that what the states or the disk
claim is in the pack as planned, as long as the sizes are kept, and `Remembered` the converse for what a
session fetched: the disk claims it, or has nothing to say of it and the pack proves it, which is what the
reconciliation looks at.

*The handles* (`HInv`). That a deleted handle has no thread rests on the join before it, which
could give up: `ClockStands` says that it never does, for the clock does not move while the main thread
ends scripts, `DeleteJoins` that whatever is to be deleted is terminated and joined first, `JoinedIsGone`
that a joined handle has no thread.

*The command queue* (`QInv`, `SInv`). `Placed`: every allocated node is in the queue, retired or in the
drain's hand, once. `Stages`: what a node's place says of the call that it is of. `Results`: what a
record tells; a waiter whose node was freed and given out again is the case that makes this hard, so
`Results` speaks of a waiter's node only while it is its own (`Mine`), and the invariant holds also of
the runs that such an address breaks (`Broken`). `Stopping` counts, for a script that is to stop, what it still has under way.

*The walker* (`WalkerInv`, `PlaceInv`). `Tidy` keeps the counters in the array also while a walk has
failed, `Aligned` says that the window's unanimated part is the queue of steps. `Placing`: either
something is under way that will place the player anew, or the requests under way lead, cell by cell, from
the server's cell to where the player is going. `LastReset` says that the last answer that places the
player tells the server's cell, unless the server has taken a step 0 since, whose confirmation comes
after it.

### What is only model-checked

* Liveness and fairness (`JobsSettle`, `CallsReturn`, `ClaimsEnd`, `FaultsEnd`, `Converges`, `JoinReturns`,
  `WalkResumes` and the scripts' calls): the prover has no rules for `WF` and `SF` beyond propositional
  temporal logic, and none for `ENABLED`.
* That no thread waits for ever in the trap (the deadlock check of `TrapPair`).
* The three disagreements of section 3, which are counterexamples.

Every invariant, and every action property, of a passing run has a theorem.

## 5. The plan

1. *Done*: the engine, its accounts and its service, the arena, the trap and the end of its mapping, the
   state DB, the script runtime and the walker, with their runs and their proofs.
2. An abstract specification of the arena (a map of readable granules) and of the command queue (calls that
   are executed at most once), with their refinement proofs.
3. `FetchedReal` and `NothingIsLost` over updates of a size, when only what follows the new pack is said to
   be fetched.
4. Several mappings in the trap, among them loose files, and a shutdown of the boot beside them.
5. `PlanUpdate`: diff and subset over plans of several files, whose indexes the exclusion of a pack shifts
   (the part that refinement has in it is in `StateDB.Changed`).
6. The web lanes of the engine (chunk jobs, pace gate, parking) and the stream-file registry.

Not planned: file formats, rendering, gumps, the packet handlers, vendored code under `deps` and
`external`.
