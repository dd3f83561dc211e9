------------------------------- MODULE StateDB -------------------------------
(***************************************************************************)
(* The persisted state of one pack over boots, crashes and updates         *)
(* (xuocore/vfs_state.cpp and the boot of xuocore/vfs.cpp).                *)
(*                                                                         *)
(* On disk: plan.bin, state.bin, journal.log, the pack (its entry table    *)
(* and its blocks) and the blob store.  In memory: one state byte per      *)
(* asset.  A boot loads the plan or rebuilds it, loads and replays the     *)
(* states, applies the difference of the plans, reconciles the states with *)
(* the pack and prepares the pack; a session then writes blocks, serves    *)
(* stubs and folds.  The process may be killed between any two steps that  *)
(* reach the disk; what was written and flushed before stays.              *)
(***************************************************************************)
EXTENDS Integers, Sequences, FiniteSets, FiniteSetsExt

CONSTANTS
    Plans,          \* version -> the assets of the pack: <<[data, size], ...>>
    Ranged,         \* the assets that are streamed by range, never stored
    SaveAtomic,     \* whether a kill spares the write of state.bin
    UpdateAtomic,   \* ... and an update, from the new plan to the last reset
    MaxCrashes,     \* bound: how often the process is killed
    MaxStubs,       \* bound: how often a stub is served
    MaxMisses       \* bound: how often a download fails

Versions == DOMAIN Plans
Assets == DOMAIN Plans[1]

ASSUME StateDBAssumption ==
    /\ Plans \in Seq(Seq([data : Nat \ {0}, size : Nat \ {0}])) /\ Plans # <<>>
    /\ \A v \in Versions : DOMAIN Plans[v] = Assets /\ Assets # {}
    /\ Ranged \subseteq Assets
    /\ SaveAtomic \in BOOLEAN /\ UpdateAtomic \in BOOLEAN
    /\ MaxCrashes \in Nat /\ MaxStubs \in Nat /\ MaxMisses \in Nat

VARIABLES
    product,    \* the version that the server has
    planbin,    \* the version in plan.bin, 0: none that can be read
    statebin,   \* the states in state.bin, None or Torn
    journal,    \* journal.log
    layout,     \* the sizes that the pack was created for, <<>>: no pack
    entry,      \* asset -> the shape its table entry advertises, Hole: none
    block,      \* asset -> the data in its block, 0: zeros, Stub
    blob,       \* asset -> its stored blob, NoBlob
    pc,         \* where the boot or the session is
    plan,       \* the version in use
    diff,       \* the assets that the update still has to reset
    read,       \* how many records of the journal the replay has applied
    states,     \* asset -> its state byte
    writer,     \* the asset being written, 0: none
    todo,       \* the sweep list
    mapped,     \* the assets that the trap has as present
    untold,     \* the assets with a stub that is not marked yet
    after,      \* where a fold goes on
    had,        \* history: what was fetched when the last session ended
    counts      \* crashes, stubs and misses so far

server == <<product, counts>>
db == <<planbin, statebin, journal>>
pack == <<layout, entry, block>>
store == <<pack, blob>>
session == <<states, writer, todo, mapped, untold>>
boot == <<pc, plan, diff, read, after>>
vars == <<server, db, store, session, boot, had>>

None == <<>>
Torn == <<"torn">>
Hole == <<>>
Stub == -1
NoBlob == [data |-> 0, size |-> 0]

State == {"pending", "fetched", "stubbed", "failed"}
Record == {"F", "B", "R"} \X Assets
Sizes(v) == [i \in Assets |-> Plans[v][i].size]

\* What the entry of asset i says in a pack of plan v: its offset, which the
\* sizes before it make, and its size.
Shape(v, i) == SubSeq(Sizes(v), 1, i)
Planned(i) == Plans[plan][i]

Pc == {"off", "rebuild", "saving", "load", "replay", "diff", "invalidate", "unblob",
       "reconcile", "prepare", "run", "entry", "mark", "fold", "folding", "rotate"}

\* The process is past the load of the states.
Loaded == pc \in {"run", "entry", "mark"} \/ (pc \in {"fold", "folding", "rotate"} /\ after # "replay")

TypeOK ==
    /\ product \in Versions /\ planbin \in Versions \cup {0}
    /\ statebin \in [Assets -> State] \cup {None, Torn}
    /\ journal \in Seq(Record)
    /\ layout \in {Sizes(v) : v \in Versions} \cup {<<>>}
    /\ \A i \in Assets :
          /\ entry[i] \in {Shape(v, i) : v \in Versions} \cup {Hole}
          /\ block[i] \in {Plans[v][i].data : v \in Versions} \cup {0, Stub}
          /\ blob[i] \in {Plans[v][i] : v \in Versions} \cup {NoBlob}
    /\ pc \in Pc /\ after \in {"replay", "run", "off"} /\ plan \in Versions
    /\ diff \subseteq Assets /\ read \in 0..Len(journal) /\ states \in [Assets -> State]
    /\ writer \in Assets \cup {0} /\ (writer # 0 <=> pc \in {"entry", "mark"})
    /\ todo \subseteq Assets /\ mapped \subseteq Assets /\ untold \subseteq Assets
    /\ had \subseteq Assets
    /\ counts \in [crashes: 0..MaxCrashes, stubs: 0..MaxStubs, misses: 0..MaxMisses]

-----------------------------------------------------------------------------
Pending == [i \in Assets |-> "pending"]

\* A machine that never ran the program.
Init ==
    /\ product = 1 /\ counts = [crashes |-> 0, stubs |-> 0, misses |-> 0]
    /\ planbin = 0 /\ statebin = None /\ journal = <<>>
    /\ layout = <<>> /\ entry = [i \in Assets |-> Hole] /\ block = [i \in Assets |-> 0]
    /\ blob = [i \in Assets |-> NoBlob]
    /\ pc = "off" /\ plan = 1 /\ diff = {} /\ read = 0 /\ after = "run"
    /\ states = Pending /\ writer = 0 /\ todo = {} /\ mapped = {} /\ untold = {}
    /\ had = {}

Goto(there) == pc' = there

\* Once in the life of a plan the server publishes the next one.
Publish ==
    /\ pc = "off" /\ product + 1 \in Versions
    /\ product' = product + 1
    /\ UNCHANGED <<counts, db, store, session, boot, had>>

-----------------------------------------------------------------------------
(***************************************************************************)
(* vfs_boot_plan                                                           *)
(***************************************************************************)
\* vfs_plan_diff: without a plan that can be read there is nothing to compare,
\* and a streamed block is not found: the stored plan has it as a block of its
\* pack, the rebuilt one is not refined yet and has the file as one loose asset.
Changed(old) ==
    {i \in Assets \ Ranged : old # 0 /\ Plans[old][i] # Plans[product][i]}

Boot ==
    /\ pc = "off"
    /\ \/ /\ planbin = product                  \* the stored plan is current
          /\ plan' = planbin /\ diff' = {} /\ Goto("load") /\ UNCHANGED had
       \/ /\ planbin # product                  \* it is rebuilt
          /\ plan' = product /\ diff' = Changed(planbin) /\ Goto("rebuild")
          /\ had' = IF planbin = 0 THEN {} ELSE {i \in had : Plans[planbin][i] = Plans[product][i]}
       \/ /\ planbin \notin {0, product}        \* the refresh fails
          /\ plan' = planbin /\ diff' = {} /\ Goto("load") /\ UNCHANGED had
    /\ UNCHANGED <<server, db, store, session, read, after>>

\* vfs_plan_save truncates the file and writes it.
TruncatePlan ==
    /\ pc = "rebuild"
    /\ planbin' = 0
    /\ Goto("saving")
    /\ UNCHANGED <<server, statebin, journal, store, session, plan, diff, read, after, had>>

SavePlan ==
    /\ pc = "saving"
    /\ planbin' = plan
    /\ Goto("load")
    /\ UNCHANGED <<server, statebin, journal, store, session, plan, diff, read, after, had>>

-----------------------------------------------------------------------------
(***************************************************************************)
(* The state block of vfs_boot.                                            *)
(***************************************************************************)
\* (mutation: the tag of a record is taken for the state)
AppliedRaw(s, r) == [s EXCEPT ![r[2]] = r[1]]

\* (mutation: a stub is never healed by the replay)
AppliedOnce(s, r) ==
    [s EXCEPT ![r[2]] = CASE r[1] = "F" -> IF @ = "stubbed" THEN @ ELSE "fetched"
                          [] r[1] = "B" -> IF @ = "fetched" THEN @ ELSE "stubbed"
                          [] r[1] = "R" -> "pending"]

\* One record of vfs_state_apply_journal.
Applied(s, r) ==
    [s EXCEPT ![r[2]] = CASE r[1] = "F" -> "fetched"
                          [] r[1] = "B" -> IF @ = "fetched" THEN @ ELSE "stubbed"
                          [] r[1] = "R" -> "pending"]

\* What state.bin has to say.
Saved == IF statebin \in {None, Torn} THEN Pending ELSE statebin

\* vfs_state_load; a file that cannot be used is replaced at once, and the journal
\* emptied, before the replay.
Load ==
    /\ pc = "load"
    /\ states' = Saved
    /\ Goto(IF statebin = Torn THEN "fold" ELSE "replay")
    /\ after' = "replay"
    /\ UNCHANGED <<server, db, store, writer, todo, mapped, untold, plan, diff, read, had>>

\* vfs_journal_replay and vfs_state_apply_journal, record by record.
Replay ==
    /\ pc = "replay" /\ read < Len(journal)
    /\ states' = Applied(states, journal[read + 1])
    /\ read' = read + 1
    /\ UNCHANGED <<server, db, store, writer, todo, mapped, untold, pc, plan, diff, after, had>>

ReplayDone ==
    /\ pc = "replay" /\ read = Len(journal)
    /\ read' = 0
    /\ Goto("diff")
    /\ UNCHANGED <<server, db, store, session, plan, diff, after, had>>

\* vfs_boot_apply_diff, asset by asset: the mark, the hole, the blob.
Reset ==
    /\ pc = "diff" /\ diff # {}
    /\ states' = [states EXCEPT ![Min(diff)] = "pending"]
    /\ journal' = Append(journal, <<"R", Min(diff)>>)
    /\ Goto("invalidate")
    /\ UNCHANGED <<server, planbin, statebin, store, writer, todo, mapped, untold,
                   plan, diff, read, after, had>>

Invalidate ==
    /\ pc = "invalidate"
    /\ entry' = [entry EXCEPT ![Min(diff)] = Hole]
    /\ Goto("unblob")
    /\ UNCHANGED <<server, db, layout, block, blob, session, plan, diff, read, after, had>>

\* (mutation: the blob of the old version stays in the store)
KeptBlob(i) == blob

\* fs_del
Deleted(i) == [blob EXCEPT ![i] = NoBlob]

DropBlob ==
    /\ pc = "unblob"
    /\ blob' = Deleted(Min(diff))
    /\ diff' = diff \ {Min(diff)}
    /\ Goto("diff")
    /\ UNCHANGED <<server, db, pack, session, plan, read, after, had>>

DiffDone ==
    /\ pc = "diff" /\ diff = {}
    /\ Goto("reconcile")
    /\ UNCHANGED <<server, db, store, session, plan, diff, read, after, had>>

Advertised(i) == entry[i] = Shape(plan, i)

\* The content check: the stored head is that of the blob, which is there and of
\* the planned size.
Proven(i) ==
    Advertised(i) /\ blob[i].size = Planned(i).size /\ block[i] = blob[i].data

\* vfs_state_reconcile for a pack.
Reconcile ==
    /\ pc = "reconcile"
    /\ states' = [i \in Assets |->
          IF states[i] = "fetched" /\ ~Advertised(i) THEN "pending"
          ELSE IF states[i] = "pending" /\ Proven(i) THEN "fetched"
          ELSE states[i]]
    /\ Goto("prepare")
    /\ UNCHANGED <<server, db, store, writer, todo, mapped, untold, plan, diff, read, after, had>>

\* (mutation: what the sweep has to fetch is what never was tried)
ListedFresh == {i \in Assets : states[i] = "pending" /\ blob[i] = NoBlob}

\* The sweep list of the boot.
Listed == {i \in Assets : states[i] \notin {"fetched", "stubbed"}}

\* (mutation: a pack that is made anew keeps its table)
TableKept == entry

\* The entry table of a pack that is made anew.
TableAnew == [i \in Assets |-> Hole]

\* vfs_store_prepare: a pack that was made for other sizes is made anew, without
\* a block.  The trap then maps it and has as present what the table advertises.
Prepare ==
    /\ pc = "prepare"
    /\ LET anew == layout # Sizes(plan) IN
       /\ layout' = Sizes(plan)
       /\ entry' = IF anew THEN TableAnew ELSE entry
       /\ block' = IF anew THEN [i \in Assets |-> 0] ELSE block
       /\ mapped' = {i \in Assets : entry'[i] = Shape(plan, i)}
    /\ todo' = Listed
    /\ Goto("run")
    /\ UNCHANGED <<server, db, blob, states, writer, untold, plan, diff, read, after, had>>

-----------------------------------------------------------------------------
(***************************************************************************)
(* The session.  The writer holds the state mutex over block, entry and    *)
(* mark.                                                                   *)
(***************************************************************************)
\* The sweep and a fault want an asset.
Swept(i) == i \in todo /\ states[i] \notin {"fetched", "stubbed"}
Wanted(i) == Swept(i) \/ i \notin mapped

\* After a failed refresh the server cannot be reached either.
Online == plan = product

Download(i) ==
    /\ pc = "run" /\ Wanted(i) /\ Online /\ i \notin Ranged /\ blob[i] = NoBlob
    /\ blob' = [blob EXCEPT ![i] = Plans[product][i]]
    /\ UNCHANGED <<server, db, pack, session, boot, had>>

\* A download that fails is not tried again by the sweep of this session.
MissDownload(i) ==
    /\ pc = "run" /\ Swept(i) /\ blob[i] = NoBlob
    /\ counts.misses < MaxMisses
    /\ counts' = [counts EXCEPT !.misses = @ + 1]
    /\ todo' = todo \ {i}
    /\ UNCHANGED <<product, db, store, states, writer, mapped, untold, boot, had>>

\* The bytes to write: the answer to a range request, or the stored blob.
Bytes(i) == IF i \in Ranged THEN Plans[product][i] ELSE blob[i]

\* (vfs_converge_from_store writes whatever is in the store, wanted or not.)
WriteBlock(i) ==
    /\ pc = "run" /\ states[i] # "fetched"
    /\ IF i \in Ranged THEN Wanted(i) /\ Online ELSE blob[i] # NoBlob
    /\ \/ /\ Bytes(i).size = Planned(i).size
          /\ block' = [block EXCEPT ![i] = Bytes(i).data]
          /\ writer' = i /\ Goto("entry") /\ UNCHANGED states
       \/ /\ Bytes(i).size # Planned(i).size
          /\ states' = [states EXCEPT ![i] = "failed"]
          /\ UNCHANGED <<block, writer, pc>>
    /\ UNCHANGED <<server, db, layout, entry, blob, todo, mapped, untold, plan, diff, read, after, had>>

WriteEntry ==
    /\ pc = "entry"
    /\ entry' = [entry EXCEPT ![writer] = Shape(plan, writer)]
    /\ Goto("mark")
    /\ UNCHANGED <<server, db, layout, block, blob, session, plan, diff, read, after, had>>

WriteMark ==
    /\ pc = "mark"
    /\ states' = [states EXCEPT ![writer] = "fetched"]
    /\ journal' = Append(journal, <<"F", writer>>)
    /\ writer' = 0
    /\ Goto("run")
    /\ UNCHANGED <<server, planbin, statebin, store, todo, mapped, untold, plan, diff, read, after, had>>

\* A fault on an asset that the states have as fetched finds nothing to do.
Find(i) ==
    /\ pc = "run" /\ i \notin mapped /\ states[i] = "fetched"
    /\ mapped' = mapped \cup {i}
    /\ UNCHANGED <<server, db, store, states, writer, todo, untold, boot, had>>

\* A fault that cannot be resolved: stub bytes, and an entry that advertises
\* min(stored, ul) bytes of them, which is what the plan has.  No state mutex; its
\* race with a writer is the subject of Trap.
ServeStub(i) ==
    /\ pc \in {"run", "fold", "folding", "rotate"} /\ Loaded
    /\ i \notin mapped /\ states[i] # "fetched" /\ block[i] # Stub
    /\ counts.stubs < MaxStubs
    /\ counts' = [counts EXCEPT !.stubs = @ + 1]
    /\ block' = [block EXCEPT ![i] = Stub]
    /\ entry' = [entry EXCEPT ![i] = Shape(plan, i)]
    /\ untold' = untold \cup {i}
    /\ UNCHANGED <<product, db, layout, blob, states, writer, todo, mapped, boot, had>>

\* vfs_trap_asset_stubbed
MarkStub(i) ==
    /\ pc = "run" /\ i \in untold
    /\ untold' = untold \ {i}
    /\ IF states[i] = "fetched" THEN UNCHANGED <<states, journal>>
       ELSE /\ states' = [states EXCEPT ![i] = "stubbed"]
            /\ journal' = Append(journal, <<"B", i>>)
    /\ UNCHANGED <<server, planbin, statebin, store, writer, todo, mapped, boot, had>>

-----------------------------------------------------------------------------
(***************************************************************************)
(* vfs_state_close: the fold, and the end of a session.                    *)
(***************************************************************************)
Fold ==
    /\ pc = "run"
    /\ after' \in {"run", "off"}
    /\ after' = "off" => untold = {}
    /\ Goto("fold")
    /\ UNCHANGED <<server, db, store, session, plan, diff, read, had>>

TruncateStates ==
    /\ pc = "fold"
    /\ statebin' = Torn
    /\ Goto("folding")
    /\ UNCHANGED <<server, planbin, journal, store, session, plan, diff, read, after, had>>

SaveStates ==
    /\ pc = "folding"
    /\ statebin' = states
    /\ Goto("rotate")
    /\ UNCHANGED <<server, planbin, journal, store, session, plan, diff, read, after, had>>

Fetched == {i \in Assets : states[i] = "fetched"}

\* What is left of a session when the process is gone.
Gone ==
    /\ pc' = "off" /\ diff' = {} /\ writer' = 0 /\ todo' = {} /\ mapped' = {} /\ untold' = {}
    /\ states' = Pending /\ read' = 0 /\ after' = "run" /\ plan' = plan
    /\ had' = IF Loaded THEN Fetched ELSE had

Rotate ==
    /\ pc = "rotate"
    /\ journal' = <<>>
    /\ IF after = "off" THEN Gone
       ELSE Goto(after) /\ UNCHANGED <<session, plan, diff, read, after, had>>
    /\ UNCHANGED <<server, planbin, statebin, store>>

Crash ==
    /\ pc # "off" /\ counts.crashes < MaxCrashes
    /\ SaveAtomic => pc # "folding"
    /\ UpdateAtomic => diff = {}
    /\ counts' = [counts EXCEPT !.crashes = @ + 1]
    /\ Gone
    /\ UNCHANGED <<product, db, store>>

Session ==
    \/ \E i \in Assets :
          Download(i) \/ MissDownload(i) \/ WriteBlock(i) \/ Find(i) \/ ServeStub(i) \/ MarkStub(i)
    \/ WriteEntry \/ WriteMark

Booting ==
    \/ TruncatePlan \/ SavePlan \/ Load \/ Replay \/ ReplayDone \/ Reset \/ Invalidate \/ DropBlob \/ DiffDone
    \/ Reconcile \/ Prepare

Folding == TruncateStates \/ SaveStates \/ Rotate

Next == Publish \/ Boot \/ Booting \/ Session \/ Fold \/ Folding \/ Crash

Spec == Init /\ [][Next]_vars

\* A boot that is started goes on, and so do a fold and a write.  The sweep gets to
\* each asset: it is the thread that folds, between two of its chunks, and some
\* session lasts long enough.  Nothing is asked of the faults.
Fairness ==
    /\ WF_vars(Boot) /\ WF_vars(Booting) /\ WF_vars(Folding) /\ WF_vars(WriteEntry \/ WriteMark)
    /\ \A i \in Assets : SF_vars(Swept(i) /\ (Download(i) \/ WriteBlock(i)))

FairSpec == Spec /\ Fairness

-----------------------------------------------------------------------------
(***************************************************************************)
(* Properties.                                                             *)
(***************************************************************************)
\* No update has changed a size yet, so the pack was never made anew.
SizesKept == \A v \in 1..plan : Sizes(v) = Sizes(1)

\* What the states have as fetched is in the pack, as planned: "the on-disk
\* files are the source of truth".  (A pack that is made anew loses its blocks
\* after the states were compared with it.)
FetchedIsReal ==
    Loaded /\ SizesKept =>
        \A i \in Fetched : Advertised(i) /\ block[i] = Planned(i).data

\* What the entry table advertises has been written, whatever step a kill came
\* after: "write the block data first, then patch the entry", a reader never finds
\* the zeros of a sparse file in an asset that it has as present.
WrittenBeforeAdvertised == \A i \in Assets : entry[i] # Hole => block[i] # 0

\* No boot loses what a session had fetched (and the update did not change): "a
\* crash mid-rotation loses nothing", "only what actually changed re-fetches".
NothingLost ==
    [][pc = "reconcile" /\ pc' # "off" /\ SizesKept => had \subseteq Fetched']_vars

\* The pack converges: while the server answers, everything is fetched for
\* good in the end, but for the stubs, which are left to their next fault, and
\* for a download that failed, which is left to the next session.
Converges ==
    <>[](Loaded /\ Online => \A i \in Assets :
            \/ states[i] \in {"fetched", "stubbed"}
            \/ counts.misses > 0 /\ i \notin todo)
=============================================================================
