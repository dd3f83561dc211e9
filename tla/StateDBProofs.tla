----------------------------- MODULE StateDBProofs -----------------------------
(***************************************************************************)
(* Proofs about StateDB, for all plans, kills, updates and faults.         *)
(*                                                                         *)
(* Two theorems ask nothing of the constants: StateTypes and WrittenFirst. *)
(* The two on what survives, FetchedReal and NothingIsLost, are about what *)
(* the disk says of an asset: Claim, that the replay of the journal over   *)
(* the saved states makes it fetched, and Blank, that it makes it pending. *)
(* StateInv ties the claims to the pack (Real), NeverTorn and Remembered   *)
(* tie what was fetched to the claims.                                     *)
(*                                                                         *)
(* They assume what a run shows the code to need: that a kill spares an    *)
(* update (UpdateAtomic; StateUpdateCrash is the run without it) and the   *)
(* write of state.bin (SaveAtomic, for NothingIsLost alone), that the      *)
(* streamed assets stay as they are (Frozen: no difference is computed for *)
(* them), and that a new version differs in one of the others (Distinct).  *)
(***************************************************************************)
EXTENDS StateDB, TLAPS, FiniteSetTheorems, SequenceTheorems, WellFoundedInduction

-----------------------------------------------------------------------------
(***************************************************************************)
(* The constants and the operators                                         *)
(***************************************************************************)

\* Min returns an element.  (The initial segments of the elements are finite
\* sets, and inclusion is well-founded on those.)
LEMMA MinIn ==
    ASSUME NEW S, S \subseteq Nat, S # {}
    PROVE  Min(S) \in S
<1> DEFINE I == {1..n : n \in S}
<1>1. I \subseteq FiniteSubsetsOf(Nat) /\ I # {}
  <2>1. \A n \in S : 1..n \in SUBSET Nat /\ IsFiniteSet(1..n)
    BY FS_Interval
  <2> QED BY <2>1 DEF FiniteSubsetsOf
<1>2. PICK i \in I : \A j \in I : <<j, i>> \notin StrictSubsetOrdering(Nat)
  <2> HIDE DEF I
  <2> QED BY <1>1, FS_StrictSubsetOrderingWellFounded, WFMin
<1>3. PICK n \in S : i = 1..n
  BY <1>2
<1>4. ASSUME NEW m \in S, m < n PROVE FALSE
  <2>1. 1..m \subseteq 1..n /\ n \in 1..n /\ n \notin 1..m
    BY <1>4
  <2>2. <<1..m, 1..n>> \in StrictSubsetOrdering(Nat)
    BY <2>1 DEF StrictSubsetOrdering
  <2> QED BY <2>2, <1>2, <1>3
<1>5. \A m \in S : n <= m
  BY <1>4
<1> QED BY <1>5 DEF Min

LEMMA PlanFacts ==
    /\ 1 \in Versions /\ Versions \subseteq Nat \ {0}
    /\ \A v \in Versions : \A u \in 1..v : u \in Versions
    /\ Assets \subseteq Nat \ {0} /\ Assets # {}
    /\ \A v \in Versions, i \in Assets :
          Plans[v][i] \in [data : Nat \ {0}, size : Nat \ {0}]
<1> DEFINE A == [data : Nat \ {0}, size : Nat \ {0}]
<1>1. /\ Plans \in Seq(Seq(A)) /\ Plans # <<>>
      /\ \A v \in Versions : DOMAIN Plans[v] = Assets
      /\ Versions # {} => Assets # {}
  BY StateDBAssumption
<1> HIDE DEF A
<1>2. Versions = 1..Len(Plans) /\ Len(Plans) \in Nat \ {0}
  BY <1>1, EmptySeq, LenProperties DEF Versions
<1>3. \A v \in Versions : Plans[v] \in Seq(A)
  BY <1>1, <1>2, ElementOfSeq
<1>4. \A v \in Versions : Plans[v] \in [Assets -> A]
  BY <1>1, <1>3, LenProperties
<1>5. Assets = 1..Len(Plans[1]) /\ Len(Plans[1]) \in Nat
  BY <1>2, <1>3, LenProperties DEF Assets
<1>6. /\ 1 \in Versions /\ Versions \subseteq Nat \ {0} /\ Assets # {}
      /\ \A v \in Versions : \A u \in 1..v : u \in Versions
  BY <1>1, <1>2
<1>7. Assets \subseteq Nat \ {0}
  BY <1>5
<1>8. \A v \in Versions, i \in Assets : Plans[v][i] \in A
  BY <1>4
<1> QED BY <1>6, <1>7, <1>8 DEF A

\* A plan has sizes, and an asset of it a shape.
LEMMA ShapeFacts ==
    /\ \A v \in Versions : Sizes(v) # <<>>
    /\ \A v \in Versions, i \in Assets : Shape(v, i) # Hole
    /\ \A u, v, i : Sizes(u) = Sizes(v) => Shape(u, i) = Shape(v, i)
<1>1. PICK n \in Nat : Assets = 1..n
  <2>1. Plans[1] \in Seq([data : Nat \ {0}, size : Nat \ {0}])
    BY PlanFacts, StateDBAssumption DEF Versions
  <2> QED BY <2>1 DEF Assets
<1>2. ASSUME NEW v \in Versions
      PROVE  Sizes(v) \in Seq(Nat) /\ Len(Sizes(v)) = n /\ n # 0
  <2>1. Sizes(v) \in [1..n -> Nat]
    BY <1>1, PlanFacts DEF Sizes
  <2>2. n # 0
    BY <1>1, PlanFacts
  <2> QED BY <2>1, <2>2
<1>3. \A v \in Versions : Sizes(v) # <<>>
  BY <1>2
<1>4. ASSUME NEW v \in Versions, NEW i \in Assets PROVE Shape(v, i) # Hole
  <2>1. i \in 1..n
    BY <1>1
  <2>2. \A j \in 1..i : Sizes(v)[j] \in Nat
    BY <1>2, <2>1, ElementOfSeq
  <2>3. Len(SubSeq(Sizes(v), 1, i)) = i
    BY <2>1, <2>2, SubSeqProperties
  <2>4. Len(Hole) = 0 /\ i # 0
    BY <2>1 DEF Hole
  <2> QED BY <2>3, <2>4 DEF Shape
<1>5. \A u, v, i : Sizes(u) = Sizes(v) => Shape(u, i) = Shape(v, i)
  BY DEF Shape
<1> QED BY <1>3, <1>4, <1>5

LEMMA StatesAreNoFile ==
    \A s \in [Assets -> State] : s # None /\ s # Torn
<1> SUFFICES ASSUME NEW s \in [Assets -> State] PROVE s # None /\ s # Torn
  OBVIOUS
<1>1. PICK i \in Assets : TRUE
  BY PlanFacts
<1>2. s # None
  <2>1. DOMAIN s # {}
    BY <1>1
  <2> QED BY <2>1 DEF None
<1>3. s # Torn
  <2>1. SUFFICES ASSUME s = Torn PROVE FALSE
    OBVIOUS
  <2>2. i \in DOMAIN s /\ s[i] \in State
    BY <1>1
  <2>3. i = 1
    BY <2>1, <2>2 DEF Torn
  <2>4. s[1] = "torn"
    BY <2>1 DEF Torn
  <2> QED BY <2>2, <2>3, <2>4 DEF State
<1> QED BY <1>2, <1>3

-----------------------------------------------------------------------------
(***************************************************************************)
(* Types                                                                   *)
(***************************************************************************)
\* The entries and the blocks are functions; TypeOK says what they map to.
TypeInv ==
    /\ TypeOK
    /\ entry = [i \in Assets |-> entry[i]]
    /\ block = [i \in Assets |-> block[i]]
    /\ blob = [i \in Assets |-> blob[i]]
    /\ pc # "replay" => read = 0
    /\ pc \in {"invalidate", "unblob"} => diff # {}

LEMMA TypeInit == Init => TypeInv
<1> SUFFICES ASSUME Init PROVE TypeInv
  OBVIOUS
<1>1. <<>> \in Seq(Record) /\ Len(<<>>) = 0
  OBVIOUS
<1>2. [crashes |-> 0, stubs |-> 0, misses |-> 0]
         \in [crashes: 0..MaxCrashes, stubs: 0..MaxStubs, misses: 0..MaxMisses]
  BY StateDBAssumption
<1>3. Pending \in [Assets -> State]
  BY DEF Pending, State
<1>4. 0 \notin Assets
  BY PlanFacts
<1> QED BY <1>1, <1>2, <1>3, <1>4, PlanFacts DEF Init, TypeInv, TypeOK, Pc

\* The mark of asset i goes to the end of the journal.
LEMMA Journalled ==
    ASSUME TypeInv, NEW r \in Record, journal' = Append(journal, r)
    PROVE  /\ journal' \in Seq(Record) /\ Len(journal') = Len(journal) + 1
           /\ \A k \in 1..Len(journal) : journal'[k] = journal[k]
           /\ journal'[Len(journal) + 1] = r /\ Len(journal) \in Nat
BY DEF TypeInv, TypeOK

LEMMA FirstChanged ==
    ASSUME TypeInv, diff # {}
    PROVE  Min(diff) \in diff /\ Min(diff) \in Assets
<1>1. diff \subseteq Assets /\ diff \subseteq Nat
  BY PlanFacts DEF TypeInv, TypeOK
<1> QED BY <1>1, MinIn

\* The types by what they are of.
PackOK ==
    /\ layout \in {Sizes(v) : v \in Versions} \cup {<<>>}
    /\ entry = [i \in Assets |-> entry[i]]
    /\ block = [i \in Assets |-> block[i]]
    /\ blob = [i \in Assets |-> blob[i]]
    /\ \A i \in Assets :
          /\ entry[i] \in {Shape(v, i) : v \in Versions} \cup {Hole}
          /\ block[i] \in {Plans[v][i].data : v \in Versions} \cup {0, Stub}
          /\ blob[i] \in {Plans[v][i] : v \in Versions} \cup {NoBlob}

DbOK ==
    /\ product \in Versions /\ planbin \in Versions \cup {0}
    /\ statebin \in [Assets -> State] \cup {None, Torn}
    /\ journal \in Seq(Record) /\ read \in 0..Len(journal)
    /\ states \in [Assets -> State] /\ had \subseteq Assets
    /\ pc # "replay" => read = 0

RunOK ==
    /\ pc \in Pc /\ after \in {"replay", "run", "off"} /\ plan \in Versions
    /\ diff \subseteq Assets
    /\ writer \in Assets \cup {0} /\ (writer # 0 <=> pc \in {"entry", "mark"})
    /\ todo \subseteq Assets /\ mapped \subseteq Assets /\ untold \subseteq Assets
    /\ counts \in [crashes: 0..MaxCrashes, stubs: 0..MaxStubs, misses: 0..MaxMisses]
    /\ pc \in {"invalidate", "unblob"} => diff # {}

LEMMA TypeParts == TypeInv <=> PackOK /\ DbOK /\ RunOK
BY DEF TypeInv, TypeOK, PackOK, DbOK, RunOK

LEMMA TypePartsNext == TypeInv' <=> PackOK' /\ DbOK' /\ RunOK'
BY DEF TypeInv, TypeOK, PackOK, DbOK, RunOK

\* What is written is a block of some version.
LEMMA BytesOf ==
    ASSUME TypeInv, NEW i \in Assets, i \in Ranged \/ blob[i] # NoBlob
    PROVE  \E v \in Versions : Bytes(i) = Plans[v][i]
BY TypeParts DEF Bytes, PackOK, DbOK

\* The steps that leave the pack alone.
PackApart ==
    \/ Publish \/ Boot \/ TruncatePlan \/ SavePlan \/ Load \/ Replay \/ ReplayDone \/ Reset
    \/ DiffDone \/ Reconcile \/ WriteMark \/ Fold \/ TruncateStates \/ SaveStates \/ Rotate
    \/ Crash \/ \E i \in Assets : MissDownload(i) \/ Find(i) \/ MarkStub(i)

LEMMA PackKept == PackApart => UNCHANGED <<layout, entry, block, blob>>
BY DEF PackApart, Publish, Boot, TruncatePlan, SavePlan, Load, Replay, ReplayDone, Reset,
       DiffDone, Reconcile, WriteMark, Fold, TruncateStates, SaveStates, Rotate, Crash,
       MissDownload, Find, MarkStub, store, pack

LEMMA PackStep == TypeInv /\ [Next]_vars => PackOK'
<1> SUFFICES ASSUME TypeInv, [Next]_vars PROVE PackOK'
  OBVIOUS
<1>0. PackOK /\ DbOK /\ RunOK
  BY TypeParts
<1>1. CASE PackApart \/ UNCHANGED vars
  <2>1. UNCHANGED <<layout, entry, block, blob>>
    BY <1>1, PackKept DEF vars, store, pack
  <2> QED BY <1>0, <2>1 DEF PackOK
<1>2. CASE Invalidate
  <2>1. UNCHANGED <<layout, block, blob>> /\ entry' = [entry EXCEPT ![Min(diff)] = Hole]
    BY <1>2 DEF Invalidate
  <2>2. \A i \in Assets : entry'[i] \in {entry[i], Hole}
    BY <1>0, <2>1 DEF PackOK
  <2>3. entry' = [i \in Assets |-> entry'[i]]
    BY <1>0, <2>1 DEF PackOK
  <2> QED BY <1>0, <2>1, <2>2, <2>3 DEF PackOK
<1>3. CASE DropBlob
  <2>1. UNCHANGED <<layout, entry, block>> /\ blob' = [blob EXCEPT ![Min(diff)] = NoBlob]
    BY <1>3 DEF DropBlob, Deleted, pack
  <2>2. \A i \in Assets : blob'[i] \in {blob[i], NoBlob}
    BY <1>0, <2>1 DEF PackOK
  <2>3. blob' = [i \in Assets |-> blob'[i]]
    BY <1>0, <2>1 DEF PackOK
  <2> QED BY <1>0, <2>1, <2>2, <2>3 DEF PackOK
<1>4. CASE Prepare
  <2>1. /\ layout' = Sizes(plan) /\ blob' = blob
        /\ entry' \in {entry, [i \in Assets |-> Hole]}
        /\ block' \in {block, [i \in Assets |-> 0]}
    BY <1>4 DEF Prepare, TableAnew
  <2>2. /\ \A i \in Assets : entry'[i] \in {entry[i], Hole} /\ block'[i] \in {block[i], 0}
        /\ entry' = [i \in Assets |-> entry'[i]] /\ block' = [i \in Assets |-> block'[i]]
    BY <1>0, <2>1 DEF PackOK
  <2>3. \A i \in Assets :
          /\ entry'[i] \in {Shape(v, i) : v \in Versions} \cup {Hole}
          /\ block'[i] \in {Plans[v][i].data : v \in Versions} \cup {0, Stub}
          /\ blob'[i] \in {Plans[v][i] : v \in Versions} \cup {NoBlob}
    BY <1>0, <2>1, <2>2 DEF PackOK
  <2>4. layout' \in {Sizes(v) : v \in Versions} \cup {<<>>}
    BY <1>0, <2>1 DEF RunOK
  <2>5. blob' = [i \in Assets |-> blob'[i]]
    BY <1>0, <2>1 DEF PackOK
  <2> QED BY <2>2, <2>3, <2>4, <2>5 DEF PackOK
<1>5. ASSUME NEW i \in Assets, Download(i) PROVE PackOK'
  <2>1. UNCHANGED <<layout, entry, block>> /\ blob' = [blob EXCEPT ![i] = Plans[product][i]]
    BY <1>5 DEF Download, pack
  <2>2. \A j \in Assets : blob'[j] \in {blob[j], Plans[product][j]}
    BY <1>0, <2>1 DEF PackOK
  <2>3. blob' = [j \in Assets |-> blob'[j]]
    BY <1>0, <2>1 DEF PackOK
  <2> QED BY <1>0, <2>1, <2>2, <2>3 DEF PackOK, DbOK
<1>6. ASSUME NEW i \in Assets, WriteBlock(i) PROVE PackOK'
  <2>1. UNCHANGED <<layout, entry, blob>>
    BY <1>6 DEF WriteBlock
  <2>2. PICK v \in Versions : Bytes(i) = Plans[v][i]
    BY <1>6, BytesOf DEF WriteBlock
  <2>3. block' = block \/ block' = [block EXCEPT ![i] = Plans[v][i].data]
    BY <1>6, <2>2 DEF WriteBlock
  <2>4. \A j \in Assets : block'[j] \in {block[j], Plans[v][j].data}
    BY <1>0, <2>3 DEF PackOK
  <2>5. block' = [j \in Assets |-> block'[j]]
    BY <1>0, <2>3 DEF PackOK
  <2> QED BY <1>0, <2>1, <2>4, <2>5 DEF PackOK
<1>7. CASE WriteEntry
  <2>1. /\ UNCHANGED <<layout, block, blob>>
        /\ entry' = [entry EXCEPT ![writer] = Shape(plan, writer)]
    BY <1>7 DEF WriteEntry
  <2>2. \A j \in Assets : entry'[j] \in {entry[j], Shape(plan, j)}
    BY <1>0, <2>1 DEF PackOK
  <2>3. entry' = [j \in Assets |-> entry'[j]]
    BY <1>0, <2>1 DEF PackOK
  <2> QED BY <1>0, <2>1, <2>2, <2>3 DEF PackOK, RunOK
<1>8. ASSUME NEW i \in Assets, ServeStub(i) PROVE PackOK'
  <2>1. /\ UNCHANGED <<layout, blob>> /\ block' = [block EXCEPT ![i] = Stub]
        /\ entry' = [entry EXCEPT ![i] = Shape(plan, i)]
    BY <1>8 DEF ServeStub
  <2>2. \A j \in Assets : entry'[j] \in {entry[j], Shape(plan, j)}
    BY <1>0, <2>1 DEF PackOK
  <2>3. \A j \in Assets : block'[j] \in {block[j], Stub}
    BY <1>0, <2>1 DEF PackOK
  <2>4. entry' = [j \in Assets |-> entry'[j]] /\ block' = [j \in Assets |-> block'[j]]
    BY <1>0, <2>1 DEF PackOK
  <2> QED BY <1>0, <2>1, <2>2, <2>3, <2>4 DEF PackOK, RunOK
<1> QED BY <1>1, <1>2, <1>3, <1>4, <1>5, <1>6, <1>7, <1>8
        DEF Next, Booting, Session, Folding, PackApart

LEMMA DbStep == TypeInv /\ [Next]_vars => DbOK'
<1> SUFFICES ASSUME TypeInv, [Next]_vars PROVE DbOK'
  OBVIOUS
<1>0. DbOK /\ RunOK
  BY TypeParts
<1>a. Pending \in [Assets -> State]
  BY DEF Pending, State
<1>b. <<>> \in Seq(Record) /\ Len(<<>>) = 0 /\ Len(journal) \in Nat
  BY <1>0 DEF DbOK
<1>c. Fetched \subseteq Assets
  BY DEF Fetched
<1>1. CASE UNCHANGED vars \/ DiffDone \/ Prepare \/ WriteEntry \/ Fold \/ Invalidate \/ DropBlob
           \/ \E i \in Assets : Download(i) \/ MissDownload(i) \/ Find(i) \/ ServeStub(i)
  <2>1. UNCHANGED <<product, planbin, statebin, journal, read, states, had>>
    BY <1>1 DEF vars, server, db, boot, session, DiffDone, Prepare, WriteEntry, Fold, Invalidate,
       DropBlob, Download, MissDownload, Find, ServeStub
  <2>2. pc = "replay" <=> pc' = "replay"
    BY <1>1 DEF vars, boot, DiffDone, Prepare, WriteEntry, Fold, Invalidate, Goto,
       DropBlob, Download, MissDownload, Find, ServeStub
  <2> QED BY <1>0, <2>1, <2>2 DEF DbOK
<1>2. CASE Publish
  <2>1. product' \in Versions /\ UNCHANGED <<planbin, statebin, journal, read, states, had, pc>>
    BY <1>2 DEF Publish, db, session, boot
  <2> QED BY <1>0, <2>1 DEF DbOK
<1>3. CASE Boot
  <2>1. /\ UNCHANGED <<product, planbin, statebin, journal, read, states>>
        /\ pc = "off" /\ pc' \in {"load", "rebuild"} /\ had' \subseteq had
    BY <1>3 DEF Boot, server, db, session, Goto
  <2> QED BY <1>0, <2>1 DEF DbOK
<1>4. CASE TruncatePlan \/ SavePlan
  <2>1. /\ UNCHANGED <<product, statebin, journal, read, states, had>>
        /\ planbin' \in {0, plan} /\ pc # "replay" /\ pc' # "replay"
    BY <1>4 DEF TruncatePlan, SavePlan, server, session, Goto
  <2> QED BY <1>0, <2>1 DEF DbOK, RunOK
<1>5. CASE Load
  <2>1. Saved \in [Assets -> State]
    BY <1>0, <1>a DEF Saved, DbOK
  <2> QED BY <1>0, <1>5, <2>1 DEF DbOK, Load, server, db
<1>6. CASE Replay
  <2>1. read + 1 \in 1..Len(journal)
    BY <1>0, <1>6, <1>b DEF DbOK, Replay
  <2>2. Applied(states, journal[read + 1]) \in [Assets -> State]
    <3>1. journal[read + 1] \in Record
      BY <1>0, <2>1, ElementOfSeq DEF DbOK
    <3>2. PICK c \in {"F", "B", "R"}, i \in Assets : journal[read + 1] = <<c, i>>
      BY <3>1 DEF Record
    <3>3. Applied(states, <<c, i>>) =
            [states EXCEPT ![i] = IF c = "F" THEN "fetched"
                                  ELSE IF c = "R" THEN "pending"
                                  ELSE IF states[i] = "fetched" THEN states[i] ELSE "stubbed"]
      BY <3>2 DEF Applied
    <3>4. Applied(states, <<c, i>>) \in [Assets -> State]
      BY <1>0, <3>2, <3>3 DEF State, DbOK
    <3> QED BY <3>2, <3>4
  <2> QED BY <1>0, <1>6, <2>1, <2>2 DEF Replay, DbOK, server, db
<1>7. CASE ReplayDone
  BY <1>0, <1>7, <1>b DEF ReplayDone, DbOK, server, db, session, Goto
<1>8. CASE Reset
  <2>1. Min(diff) \in Assets /\ <<"R", Min(diff)>> \in Record
    BY <1>8, FirstChanged DEF Reset, Record
  <2>2. journal' \in Seq(Record) /\ Len(journal') = Len(journal) + 1
    BY <1>8, <2>1, Journalled DEF Reset
  <2>3. states' \in [Assets -> State]
    BY <1>0, <1>8, <2>1 DEF Reset, DbOK, State
  <2>4. UNCHANGED <<product, planbin, statebin, read, had>> /\ pc = "diff" /\ pc' = "invalidate"
    BY <1>8 DEF Reset, server, Goto
  <2> QED BY <1>0, <1>b, <2>2, <2>3, <2>4 DEF DbOK
<1>9. CASE Reconcile
  <2>1. states' \in [Assets -> State]
    BY <1>0, <1>9 DEF Reconcile, DbOK, State
  <2> QED BY <1>0, <1>9, <2>1 DEF Reconcile, DbOK, server, db, Goto
<1>10. ASSUME NEW i \in Assets, WriteBlock(i) PROVE DbOK'
  <2>1. states' \in [Assets -> State]
    BY <1>0, <1>10 DEF WriteBlock, DbOK, State
  <2>2. UNCHANGED <<product, planbin, statebin, journal, read, had>> /\ pc = "run"
        /\ pc' \in {"run", "entry"}
    BY <1>10 DEF WriteBlock, server, db, Goto
  <2> QED BY <1>0, <2>1, <2>2 DEF DbOK
<1>11. CASE WriteMark
  <2>1. writer \in Assets /\ <<"F", writer>> \in Record
    BY <1>0, <1>11 DEF RunOK, WriteMark, Record
  <2>2. journal' \in Seq(Record) /\ Len(journal') = Len(journal) + 1
    BY <1>11, <2>1, Journalled DEF WriteMark
  <2>3. states' \in [Assets -> State]
    BY <1>0, <1>11, <2>1 DEF WriteMark, DbOK, State
  <2>4. UNCHANGED <<product, planbin, statebin, read, had>> /\ pc = "mark" /\ pc' = "run"
    BY <1>11 DEF WriteMark, server, Goto
  <2> QED BY <1>0, <1>b, <2>2, <2>3, <2>4 DEF DbOK
<1>12. ASSUME NEW i \in Assets, MarkStub(i) PROVE DbOK'
  <2>1. UNCHANGED <<product, planbin, statebin, read, had, pc>> /\ pc = "run"
    BY <1>12 DEF MarkStub, server, boot
  <2>2. CASE UNCHANGED <<states, journal>>
    BY <1>0, <2>1, <2>2 DEF DbOK
  <2>3. CASE /\ states' = [states EXCEPT ![i] = "stubbed"]
             /\ journal' = Append(journal, <<"B", i>>)
    <3>1. journal' \in Seq(Record) /\ Len(journal') = Len(journal) + 1
      BY <2>3, Journalled DEF Record
    <3>2. states' \in [Assets -> State]
      BY <1>0, <2>3 DEF DbOK, State
    <3> QED BY <1>0, <1>b, <2>1, <3>1, <3>2 DEF DbOK
  <2> QED BY <1>12, <2>2, <2>3 DEF MarkStub
<1>13. CASE TruncateStates \/ SaveStates
  <2>1. /\ UNCHANGED <<product, planbin, journal, read, states, had>>
        /\ statebin' \in {Torn, states} /\ pc # "replay" /\ pc' # "replay"
    BY <1>13 DEF TruncateStates, SaveStates, server, session, Goto
  <2> QED BY <1>0, <2>1 DEF DbOK
<1>14. CASE Rotate \/ Crash
  <2>1. /\ UNCHANGED <<product, planbin, statebin>>
        /\ journal' \in {journal, <<>>}
    BY <1>14 DEF Rotate, Crash, server, db
  <2>2. /\ read' = 0 /\ states' \in {states, Pending} /\ had' \in {had, Fetched}
    <3>1. CASE Rotate
      <4>1. read = 0
        BY <1>0, <3>1 DEF Rotate, DbOK
      <4> QED BY <3>1, <4>1 DEF Rotate, Gone, session
    <3>2. CASE Crash
      BY <3>2 DEF Crash, Gone
    <3> QED BY <1>14, <3>1, <3>2
  <2>3. journal' \in Seq(Record) /\ Len(journal') \in Nat
    BY <1>0, <1>b, <2>1 DEF DbOK
  <2>4. 0 \in 0..Len(journal')
    BY <2>3
  <2>5. states' \in [Assets -> State] /\ had' \subseteq Assets
    BY <1>0, <1>a, <1>c, <2>2 DEF DbOK
  <2> QED BY <1>0, <2>1, <2>2, <2>3, <2>4, <2>5 DEF DbOK
<1> QED BY <1>1, <1>2, <1>3, <1>4, <1>5, <1>6, <1>7, <1>8, <1>9, <1>10, <1>11, <1>12, <1>13, <1>14
        DEF Next, Booting, Session, Folding

\* The counters of the bounds go up one by one.
LEMMA CountedUp ==
    ASSUME TypeInv
    PROVE  LET all == [crashes: 0..MaxCrashes, stubs: 0..MaxStubs, misses: 0..MaxMisses] IN
           /\ counts.crashes < MaxCrashes => [counts EXCEPT !.crashes = @ + 1] \in all
           /\ counts.stubs < MaxStubs => [counts EXCEPT !.stubs = @ + 1] \in all
           /\ counts.misses < MaxMisses => [counts EXCEPT !.misses = @ + 1] \in all
<1>1. counts \in [crashes: 0..MaxCrashes, stubs: 0..MaxStubs, misses: 0..MaxMisses]
  BY DEF TypeInv, TypeOK
<1>2. MaxCrashes \in Nat /\ MaxStubs \in Nat /\ MaxMisses \in Nat
  BY StateDBAssumption
<1> QED BY <1>1, <1>2

LEMMA RunStep == TypeInv /\ [Next]_vars => RunOK'
<1> SUFFICES ASSUME TypeInv, [Next]_vars PROVE RunOK'
  OBVIOUS
<1>0. DbOK /\ RunOK /\ 0 \notin Assets
  BY TypeParts, PlanFacts
<1> USE DEF Goto
<1>1. CASE UNCHANGED vars \/ Publish \/ \E i \in Assets : Download(i) \/ Find(i)
  BY <1>0, <1>1 DEF RunOK, vars, boot, session, server, Publish, Download, Find
<1>2. CASE Boot
  <2>1. diff' \subseteq Assets
    BY <1>2 DEF Boot, Changed
  <2>2. pc' \in {"load", "rebuild"} /\ pc = "off"
        /\ plan' \in Versions
    BY <1>0, <1>2 DEF Boot, DbOK
  <2>3. UNCHANGED <<after, writer, todo, mapped, untold, counts>>
    BY <1>2 DEF Boot, session, server
  <2> QED BY <1>0, <2>1, <2>2, <2>3 DEF RunOK, Pc
<1>3. CASE TruncatePlan \/ SavePlan \/ Load \/ Replay \/ ReplayDone \/ DiffDone \/ Reconcile
  BY <1>0, <1>3 DEF RunOK, Pc, TruncatePlan, SavePlan, Load, Replay, ReplayDone, DiffDone, Reconcile,
     boot, session, server
<1>4. CASE Reset \/ Invalidate
  BY <1>0, <1>4 DEF RunOK, Pc, Reset, Invalidate, server, session
<1>5. CASE DropBlob \/ Prepare
  <2>1. /\ UNCHANGED <<plan, after, writer, untold, counts>> /\ diff' \subseteq Assets
        /\ todo' \subseteq Assets /\ mapped' \subseteq Assets /\ pc' \in {"diff", "run"}
        /\ writer = 0
    BY <1>0, <1>5 DEF RunOK, DropBlob, Prepare, server, session, Listed
  <2> QED BY <1>0, <2>1 DEF RunOK, Pc
<1>6. ASSUME NEW i \in Assets, MissDownload(i) PROVE RunOK'
  <2>1. counts' \in [crashes: 0..MaxCrashes, stubs: 0..MaxStubs, misses: 0..MaxMisses]
    BY <1>6, CountedUp DEF MissDownload
  <2> QED BY <1>0, <1>6, <2>1 DEF RunOK, MissDownload, boot
<1>7. ASSUME NEW i \in Assets, WriteBlock(i) PROVE RunOK'
  BY <1>0, <1>7 DEF RunOK, Pc, WriteBlock, server
<1>8. CASE WriteEntry \/ WriteMark
  BY <1>0, <1>8 DEF RunOK, Pc, WriteEntry, WriteMark, server, session
<1>9. ASSUME NEW i \in Assets, ServeStub(i) PROVE RunOK'
  <2>1. counts' \in [crashes: 0..MaxCrashes, stubs: 0..MaxStubs, misses: 0..MaxMisses]
    BY <1>9, CountedUp DEF ServeStub
  <2> QED BY <1>0, <1>9, <2>1 DEF RunOK, ServeStub, boot
<1>10. ASSUME NEW i \in Assets, MarkStub(i) PROVE RunOK'
  BY <1>0, <1>10 DEF RunOK, MarkStub, server, boot
<1>11. CASE Fold \/ TruncateStates \/ SaveStates
  BY <1>0, <1>11 DEF RunOK, Pc, Fold, TruncateStates, SaveStates, server, session
<1>12. CASE Rotate
  <2>1. CASE after = "off"
    BY <1>0, <1>12, <2>1 DEF RunOK, Pc, Rotate, Gone, server
  <2>2. CASE after # "off"
    BY <1>0, <1>12, <2>2 DEF RunOK, Pc, Rotate, server, session
  <2> QED BY <2>1, <2>2
<1>13. CASE Crash
  <2>1. counts' \in [crashes: 0..MaxCrashes, stubs: 0..MaxStubs, misses: 0..MaxMisses]
    BY <1>13, CountedUp DEF Crash
  <2> QED BY <1>0, <1>13, <2>1 DEF RunOK, Pc, Crash, Gone
<1> QED BY <1>1, <1>2, <1>3, <1>4, <1>5, <1>6, <1>7, <1>8, <1>9, <1>10, <1>11, <1>12, <1>13
        DEF Next, Booting, Session, Folding

LEMMA TypeStep == TypeInv /\ [Next]_vars => TypeInv'
BY PackStep, DbStep, RunStep, TypePartsNext

LEMMA TypesStay == Spec => []TypeInv
BY TypeInit, TypeStep, PTL DEF Spec

\* What is on disk and in memory is of its type, for all plans, kills and updates.
THEOREM StateTypes == Spec => []TypeOK
<1>1. TypeInv => TypeOK
  BY DEF TypeInv
<1> QED BY <1>1, TypesStay, PTL

-----------------------------------------------------------------------------
(***************************************************************************)
(* What is advertised has been written                                     *)
(***************************************************************************)
\* While an entry is being patched, its block is there.
Written ==
    /\ WrittenBeforeAdvertised
    /\ pc = "entry" => block[writer] # 0

\* Data is no zeros.
LEMMA DataIsData ==
    ASSUME TypeInv, NEW i \in Assets, i \in Ranged \/ blob[i] # NoBlob
    PROVE  Bytes(i).data # 0
<1>1. PICK v \in Versions : Bytes(i) = Plans[v][i]
  BY BytesOf
<1> QED BY <1>1, PlanFacts

\* Every step keeps it: a block is written before its entry, and nothing unwrites one.
LEMMA WrittenStep == TypeInv /\ Written /\ [Next]_vars => Written'
<1> SUFFICES ASSUME TypeInv, Written, [Next]_vars PROVE Written'
  OBVIOUS
<1>0. PackOK /\ RunOK /\ 0 \notin Assets
  BY TypeParts, PlanFacts
<1> USE DEF Written, WrittenBeforeAdvertised
<1>1. CASE PackApart \/ UNCHANGED vars
  <2>1. UNCHANGED <<layout, entry, block, blob>>
    BY <1>1, PackKept DEF vars, store, pack
  <2>2. pc' = "entry" => pc = "entry" /\ writer' = writer
    BY <1>0, <1>1 DEF RunOK, PackApart, Publish, Boot, TruncatePlan, SavePlan, Load, Replay,
       ReplayDone, Reset, DiffDone, Reconcile, WriteMark, Fold, TruncateStates, SaveStates,
       Rotate, Crash, Gone, MissDownload, Find, MarkStub, vars, boot, session, Goto
  <2> QED BY <2>1, <2>2
<1>2. CASE Invalidate
  <2>1. \A i \in Assets : entry'[i] \in {entry[i], Hole}
    BY <1>0, <1>2 DEF Invalidate, PackOK
  <2> QED BY <1>2, <2>1 DEF Invalidate, Goto
<1>3. CASE DropBlob
  BY <1>3 DEF DropBlob, Goto, pack
<1>4. CASE Prepare
  BY <1>4 DEF Prepare, TableAnew, Goto
<1>5. ASSUME NEW i \in Assets, Download(i) PROVE Written'
  BY <1>5 DEF Download, pack, boot
<1>6. ASSUME NEW i \in Assets, WriteBlock(i) PROVE Written'
  <2>1. Bytes(i).data # 0
    BY <1>6, DataIsData DEF WriteBlock
  <2>2. \/ block' = block /\ pc' = pc
        \/ block' = [block EXCEPT ![i] = Bytes(i).data] /\ writer' = i
    BY <1>6 DEF WriteBlock
  <2>3. pc = "run" /\ entry' = entry
    BY <1>6 DEF WriteBlock
  <2>4. /\ \A j \in Assets : block[j] # 0 => block'[j] # 0
        /\ pc' = "entry" => block'[writer'] # 0
    BY <1>0, <2>1, <2>2, <2>3 DEF PackOK
  <2> QED BY <2>3, <2>4
<1>7. CASE WriteEntry
  <2>1. \A j \in Assets : entry'[j] = entry[j] \/ j = writer
    BY <1>0, <1>7 DEF WriteEntry, PackOK
  <2> QED BY <1>7, <2>1 DEF WriteEntry, Goto
<1>8. ASSUME NEW i \in Assets, ServeStub(i) PROVE Written'
  <2>1. \A j \in Assets : IF j = i THEN block'[j] = Stub
                          ELSE entry'[j] = entry[j] /\ block'[j] = block[j]
    BY <1>0, <1>8 DEF ServeStub, PackOK
  <2> QED BY <1>8, <2>1 DEF ServeStub, boot, Stub
<1> QED BY <1>1, <1>2, <1>3, <1>4, <1>5, <1>6, <1>7, <1>8
        DEF Next, Booting, Session, Folding, PackApart

\* No entry of the table speaks of a block that was not written, whatever step
\* a kill came after: the data is written before the entry is patched.
THEOREM WrittenFirst == Spec => []WrittenBeforeAdvertised
<1>1. Init => Written
  BY DEF Init, Written, WrittenBeforeAdvertised
<1>2. Written => WrittenBeforeAdvertised
  BY DEF Written
<1> QED BY <1>1, <1>2, TypesStay, WrittenStep, PTL DEF Spec

-----------------------------------------------------------------------------
(***************************************************************************)
(* What the disk has to say about an asset                                 *)
(***************************************************************************)
\* By the first n records of journal j: the asset was fetched and not reset since,
\* it was never reset, it was reset and nothing since, there is nothing on it.
Marked(j, i, n) == \E k \in 1..n : /\ j[k] = <<"F", i>>
                                   /\ \A m \in (k+1)..n : j[m] # <<"R", i>>
NeverReset(j, i, n) == \A m \in 1..n : j[m] # <<"R", i>>
Wiped(j, i, n) == \E k \in 1..n : /\ j[k] = <<"R", i>>
                                  /\ \A m \in (k+1)..n : j[m] \notin {<<"F", i>>, <<"B", i>>}
NeverSet(j, i, n) == \A m \in 1..n : j[m] \notin {<<"F", i>>, <<"B", i>>}

\* The replay of the n records over saved states s makes the asset fetched, pending.
ClaimIn(s, j, i, n) == Marked(j, i, n) \/ (s[i] = "fetched" /\ NeverReset(j, i, n))
BlankIn(s, j, i, n) == Wiped(j, i, n) \/ (s[i] = "pending" /\ NeverSet(j, i, n))

LEMMA NoRecord ==
    ASSUME NEW s, NEW j, NEW i
    PROVE  /\ ClaimIn(s, j, i, 0) <=> s[i] = "fetched"
           /\ BlankIn(s, j, i, 0) <=> s[i] = "pending"
BY DEF ClaimIn, BlankIn, Marked, NeverReset, Wiped, NeverSet

LEMMA NextRecord ==
    ASSUME NEW s, NEW j, NEW i, NEW n \in Nat
    PROVE  /\ ClaimIn(s, j, i, n + 1) <=>
                 \/ j[n + 1] = <<"F", i>>
                 \/ j[n + 1] # <<"R", i>> /\ ClaimIn(s, j, i, n)
           /\ BlankIn(s, j, i, n + 1) <=>
                 \/ j[n + 1] = <<"R", i>>
                 \/ j[n + 1] \notin {<<"F", i>>, <<"B", i>>} /\ BlankIn(s, j, i, n)
<1>0. /\ <<"F", i>> # <<"R", i>> /\ <<"B", i>> # <<"R", i>>
      /\ \A m : m \in 1..(n + 1) <=> m \in 1..n \/ m = n + 1
      /\ n + 1 \in 1..(n + 1) /\ ((n + 1) + 1)..(n + 1) = {}
      /\ \A k \in 1..n : \A m : m \in (k + 1)..(n + 1) <=> m \in (k + 1)..n \/ m = n + 1
  OBVIOUS
<1>1. Marked(j, i, n + 1) <=> j[n + 1] = <<"F", i>> \/ (j[n + 1] # <<"R", i>> /\ Marked(j, i, n))
  BY <1>0 DEF Marked
<1>2. NeverReset(j, i, n + 1) <=> j[n + 1] # <<"R", i>> /\ NeverReset(j, i, n)
  BY <1>0 DEF NeverReset
<1>3. Wiped(j, i, n + 1) <=>
         j[n + 1] = <<"R", i>> \/ (j[n + 1] \notin {<<"F", i>>, <<"B", i>>} /\ Wiped(j, i, n))
  BY <1>0 DEF Wiped
<1>4. NeverSet(j, i, n + 1) <=> j[n + 1] \notin {<<"F", i>>, <<"B", i>>} /\ NeverSet(j, i, n)
  BY <1>0 DEF NeverSet
<1> QED BY <1>0, <1>1, <1>2, <1>3, <1>4 DEF ClaimIn, BlankIn

LEMMA SamePrefix ==
    ASSUME NEW s, NEW j, NEW k, NEW i, NEW n \in Nat, \A m \in 1..n : j[m] = k[m]
    PROVE  /\ Marked(j, i, n) <=> Marked(k, i, n)
           /\ NeverReset(j, i, n) <=> NeverReset(k, i, n)
           /\ Wiped(j, i, n) <=> Wiped(k, i, n)
           /\ NeverSet(j, i, n) <=> NeverSet(k, i, n)
           /\ ClaimIn(s, j, i, n) <=> ClaimIn(s, k, i, n)
           /\ BlankIn(s, j, i, n) <=> BlankIn(s, k, i, n)
<1>1. Marked(j, i, n) <=> Marked(k, i, n)
  BY DEF Marked
<1>2. NeverReset(j, i, n) <=> NeverReset(k, i, n)
  BY DEF NeverReset
<1>3. Wiped(j, i, n) <=> Wiped(k, i, n)
  BY DEF Wiped
<1>4. NeverSet(j, i, n) <=> NeverSet(k, i, n)
  BY DEF NeverSet
<1> QED BY <1>1, <1>2, <1>3, <1>4 DEF ClaimIn, BlankIn

Claim(i) == ClaimIn(Saved, journal, i, Len(journal))
Blank(i) == BlankIn(Saved, journal, i, Len(journal))

\* The record that a step adds.
LEMMA Told ==
    ASSUME TypeInv, NEW c \in {"F", "B", "R"}, NEW m \in Assets, NEW i \in Assets,
           journal' = Append(journal, <<c, m>>), statebin' = statebin
    PROVE  /\ i # m => (Claim(i)' <=> Claim(i)) /\ (Blank(i)' <=> Blank(i))
           /\ c = "F" => Claim(m)'
           /\ c = "B" => (Claim(i)' <=> Claim(i))
           /\ c = "R" => ~Claim(m)' /\ Blank(m)'
<1>1. /\ Len(journal) \in Nat /\ Len(journal') = Len(journal) + 1
      /\ \A k \in 1..Len(journal) : journal'[k] = journal[k]
      /\ journal'[Len(journal) + 1] = <<c, m>>
  <2>1. <<c, m>> \in Record
    BY DEF Record
  <2> QED BY <2>1, Journalled
<1>2. Saved' = Saved
  BY DEF Saved
<1>3. ASSUME NEW a \in Assets
      PROVE  /\ ClaimIn(Saved, journal', a, Len(journal)) <=> Claim(a)
             /\ BlankIn(Saved, journal', a, Len(journal)) <=> Blank(a)
  BY <1>1, SamePrefix DEF Claim, Blank
<1>4. ASSUME NEW a \in Assets
      PROVE  /\ Claim(a)' <=> <<c, m>> = <<"F", a>> \/ (<<c, m>> # <<"R", a>> /\ Claim(a))
             /\ Blank(a)' <=> <<c, m>> = <<"R", a>>
                              \/ (<<c, m>> \notin {<<"F", a>>, <<"B", a>>} /\ Blank(a))
  <2>1. /\ Claim(a)' <=> ClaimIn(Saved, journal', a, Len(journal) + 1)
        /\ Blank(a)' <=> BlankIn(Saved, journal', a, Len(journal) + 1)
    BY <1>1, <1>2 DEF Claim, Blank
  <2>2. \A j, n : n \in Nat =>
          /\ ClaimIn(Saved, j, a, n + 1) <=>
                \/ j[n + 1] = <<"F", a>>
                \/ j[n + 1] # <<"R", a>> /\ ClaimIn(Saved, j, a, n)
          /\ BlankIn(Saved, j, a, n + 1) <=>
                \/ j[n + 1] = <<"R", a>>
                \/ j[n + 1] \notin {<<"F", a>>, <<"B", a>>} /\ BlankIn(Saved, j, a, n)
    BY NextRecord
  <2>3. /\ ClaimIn(Saved, journal', a, Len(journal) + 1) <=>
              \/ <<c, m>> = <<"F", a>>
              \/ <<c, m>> # <<"R", a>> /\ ClaimIn(Saved, journal', a, Len(journal))
        /\ BlankIn(Saved, journal', a, Len(journal) + 1) <=>
              \/ <<c, m>> = <<"R", a>>
              \/ <<c, m>> \notin {<<"F", a>>, <<"B", a>>} /\ BlankIn(Saved, journal', a, Len(journal))
    BY <2>2, <1>1
  <2> QED BY <2>1, <2>3, <1>3
<1> QED BY <1>4

LEMMA Untold ==
    ASSUME statebin' = statebin, journal' = journal, NEW i
    PROVE  (Claim(i)' <=> Claim(i)) /\ (Blank(i)' <=> Blank(i))
BY DEF Claim, Blank, Saved

-----------------------------------------------------------------------------
(***************************************************************************)
(* The versions: of the plan on disk, in use, and at the server            *)
(***************************************************************************)
\* What the difference of two plans cannot see stays the same ...
Frozen == \A v \in Versions, i \in Ranged : Plans[v][i] = Plans[1][i]

\* ... and it can see a new version.
Distinct == \A u, v \in Versions :
    u # v => \E i \in Assets \ Ranged : Plans[u][i] # Plans[v][i]

\* The version that the disk speaks of.
W == IF pc = "off" THEN planbin ELSE plan

Mending == pc \in {"fold", "folding", "rotate"} /\ after = "replay"

\* Before the last reset of the boot.
Early == Mending \/ pc \in {"rebuild", "saving", "load", "replay", "diff", "invalidate", "unblob"}

Fresh ==
    /\ journal = <<>> /\ statebin = None /\ layout = <<>> /\ had = {}
    /\ \A i \in Assets : blob[i] = NoBlob /\ entry[i] = Hole

Versioned ==
    /\ planbin <= product /\ plan <= product
    /\ pc \notin {"off", "rebuild", "saving"} => planbin = plan
    /\ pc = "saving" => planbin = 0
    /\ pc = "rebuild" => plan = product /\ diff = Changed(planbin) /\ planbin # plan
    /\ diff # {} => Early
    /\ diff \cap (Ranged \cup had) = {}
    /\ planbin = 0 /\ diff = {} => Fresh

\* The steps after the plan is settled and before the process is gone.
Late ==
    \/ Load \/ Replay \/ ReplayDone \/ Reset \/ Invalidate \/ DropBlob \/ DiffDone \/ Reconcile
    \/ Prepare \/ Session \/ Fold \/ TruncateStates \/ SaveStates \/ (Rotate /\ after # "off")

LEMMA LateKeeps ==
    ASSUME TypeInv, Versioned, Late
    PROVE  /\ UNCHANGED <<product, planbin, plan, had>>
           /\ pc \notin {"off", "rebuild", "saving"} /\ pc' \notin {"off", "rebuild", "saving"}
           /\ plan \in Versions /\ plan # 0 /\ planbin = plan /\ W = plan /\ W' = plan
<1>0. DbOK /\ RunOK
  BY TypeParts
<1>1. UNCHANGED <<product, planbin, plan, had>>
  BY <1>0 DEF Late, Session, Load, Replay, ReplayDone, Reset, Invalidate, DropBlob, DiffDone,
     Reconcile, Prepare, Fold, TruncateStates, SaveStates, Rotate, Download, MissDownload,
     WriteBlock, Find, ServeStub, MarkStub, WriteEntry, WriteMark, server, db, boot
<1>2. pc \notin {"off", "rebuild", "saving"}
  BY <1>0 DEF Late, Session, Load, Replay, ReplayDone, Reset, Invalidate, DropBlob, DiffDone,
     Reconcile, Prepare, Fold, TruncateStates, SaveStates, Rotate, Download, MissDownload,
     WriteBlock, Find, ServeStub, MarkStub, WriteEntry, WriteMark
<1>3. pc' \notin {"off", "rebuild", "saving"}
  BY <1>0, <1>2 DEF RunOK, Late, Session, Load, Replay, ReplayDone, Reset, Invalidate, DropBlob,
     DiffDone, Reconcile, Prepare, Fold, TruncateStates, SaveStates, Rotate, Download, MissDownload,
     WriteBlock, Find, ServeStub, MarkStub, WriteEntry, WriteMark, boot, Goto
<1>4. plan \in Versions /\ plan # 0
  BY <1>0, PlanFacts DEF RunOK
<1> QED BY <1>1, <1>2, <1>3, <1>4 DEF Versioned, W

LEMMA VersionedLate == TypeInv /\ Versioned /\ Late => Versioned'
<1> SUFFICES ASSUME TypeInv, Versioned, Late PROVE Versioned'
  OBVIOUS
<1>0. RunOK
  BY TypeParts
<1>1. /\ UNCHANGED <<product, planbin, plan, had>>
      /\ pc \notin {"off", "rebuild", "saving"} /\ pc' \notin {"off", "rebuild", "saving"}
      /\ plan # 0 /\ planbin = plan
  BY LateKeeps
<1>2. diff' \subseteq diff
  BY DEF Late, Session, Load, Replay, ReplayDone, Reset, Invalidate, DropBlob, DiffDone,
     Reconcile, Prepare, Fold, TruncateStates, SaveStates, Rotate, Download, MissDownload,
     WriteBlock, Find, ServeStub, MarkStub, WriteEntry, WriteMark, boot
<1>3. ASSUME Early, diff' # {} PROVE Early'
  BY <1>0, <1>3 DEF RunOK, Early, Mending, Late, Session, Load, Replay, ReplayDone, Reset,
     Invalidate, DropBlob, DiffDone, Reconcile, Prepare, Fold, TruncateStates, SaveStates, Rotate,
     Download, MissDownload, WriteBlock, Find, ServeStub, MarkStub, WriteEntry, WriteMark, boot,
     Goto, Loaded
<1> QED BY <1>1, <1>2, <1>3 DEF Versioned

\* A session that has ended, or was killed, leaves the last plan that was settled;
\* an update that is spared leaves none that is half applied.
LEMMA GoneKeeps ==
    ASSUME TypeInv, Versioned, UpdateAtomic, Distinct, (Rotate /\ after = "off") \/ Crash
    PROVE  /\ Gone /\ UNCHANGED <<product, planbin, statebin, store>>
           /\ pc # "off" /\ pc' = "off" /\ diff = {} /\ diff' = {} /\ W' = planbin
           /\ planbin # 0 => planbin = plan /\ W = plan /\ pc \notin {"rebuild", "saving"}
           /\ planbin = 0 => journal' = journal /\ had' = had
           /\ Crash => journal' = journal
<1>0. DbOK /\ RunOK
  BY TypeParts
<1>1. Gone /\ UNCHANGED <<product, planbin, statebin, store>> /\ pc # "off"
  BY DEF Rotate, Crash, db, server
<1>2. diff = {}
  BY DEF Rotate, Crash, Versioned, Early, Mending
<1>3. pc = "rebuild" => planbin = 0
  <2>1. SUFFICES ASSUME pc = "rebuild", planbin # 0 PROVE FALSE
    OBVIOUS
  <2>2. planbin # product /\ planbin \in Versions /\ product \in Versions /\ Changed(planbin) = {}
    BY <1>0, <1>2, <2>1 DEF Versioned, DbOK
  <2>3. PICK i \in Assets \ Ranged : Plans[planbin][i] # Plans[product][i]
    BY <2>2 DEF Distinct
  <2> QED BY <2>1, <2>2, <2>3 DEF Changed
<1>4. plan # 0
  BY <1>0, PlanFacts DEF RunOK
<1>5. planbin # 0 => planbin = plan /\ W = plan /\ pc \notin {"rebuild", "saving"}
  BY <1>1, <1>3 DEF Versioned, W
<1>6. planbin = 0 => pc \in {"rebuild", "saving"}
  BY <1>1, <1>4 DEF Versioned
<1>7. planbin = 0 => journal' = journal /\ had' = had
  BY <1>6, <1>1 DEF Gone, Rotate, Crash, db, Loaded
<1>8. Crash => journal' = journal
  BY DEF Crash, db
<1> QED BY <1>1, <1>2, <1>5, <1>7, <1>8 DEF Gone, W

LEMMA VersionedStep ==
    ASSUME UpdateAtomic, Distinct, TypeInv, Versioned, [Next]_vars
    PROVE  Versioned'
<1>0. DbOK /\ RunOK
  BY TypeParts
<1>1. CASE UNCHANGED vars
  BY <1>1 DEF vars, server, db, boot, store, pack, session, Versioned, Early, Mending, Fresh, Changed
<1>2. CASE Publish
  <2>1. /\ product' = product + 1 /\ product \in Nat /\ planbin \in Nat /\ plan \in Nat
        /\ pc = "off"
    BY <1>0, <1>2, PlanFacts DEF Publish, DbOK, RunOK
  <2>2. UNCHANGED <<planbin, statebin, journal, layout, entry, blob, pc, plan, diff, after, had>>
    BY <1>2 DEF Publish, db, store, pack, boot
  <2> QED BY <2>1, <2>2 DEF Versioned, Early, Mending, Fresh
<1>3. CASE Boot
  <2>1. /\ UNCHANGED <<product, planbin, statebin, journal, layout, entry, blob, after>>
        /\ pc = "off" /\ diff = {}
    BY <1>3 DEF Boot, server, db, store, pack, Versioned, Early, Mending
  <2>2. planbin = 0 => had = {}
    BY <2>1 DEF Versioned, Fresh
  <2>3. CASE diff' = {} /\ plan' = planbin /\ pc' = "load" /\ had' = had
    <3>1. planbin # 0
      BY <1>0, <1>3, <2>3, PlanFacts DEF DbOK, Boot
    <3> QED BY <2>1, <2>3, <3>1 DEF Versioned, Early
  <2>4. CASE /\ planbin # product /\ plan' = product /\ diff' = Changed(planbin) /\ pc' = "rebuild"
             /\ had' = IF planbin = 0 THEN {} ELSE {i \in had : Plans[planbin][i] = Plans[product][i]}
    <3>1. diff' \cap (Ranged \cup had') = {}
      BY <2>4 DEF Changed
    <3>2. planbin = 0 => had' = {}
      BY <2>4
    <3>3. Changed(planbin)' = Changed(planbin)
      BY <2>1 DEF Changed
    <3>4. product <= product
      BY <1>0, PlanFacts DEF DbOK
    <3> QED BY <2>1, <2>4, <3>1, <3>2, <3>3, <3>4 DEF Versioned, Early, Fresh
  <2> QED BY <1>3, <2>3, <2>4 DEF Boot, Goto
<1>4. CASE TruncatePlan
  <2>1. UNCHANGED <<product, statebin, journal, layout, entry, blob, plan, diff, after, had>>
    BY <1>4 DEF TruncatePlan, server, store, pack
  <2>2. /\ planbin' = 0 /\ pc = "rebuild" /\ pc' = "saving"
        /\ 0 <= product
    BY <1>0, <1>4, PlanFacts DEF TruncatePlan, Goto, DbOK
  <2>3. diff = {} => planbin = 0
    <3>1. SUFFICES ASSUME diff = {}, planbin # 0 PROVE FALSE
      OBVIOUS
    <3>2. planbin # product /\ planbin \in Versions /\ product \in Versions /\ Changed(planbin) = {}
      BY <1>0, <2>2, <3>1 DEF Versioned, DbOK
    <3>3. PICK i \in Assets \ Ranged : Plans[planbin][i] # Plans[product][i]
      BY <3>2 DEF Distinct
    <3> QED BY <3>1, <3>2, <3>3 DEF Changed
  <2> QED BY <2>1, <2>2, <2>3 DEF Versioned, Early, Fresh
<1>5. CASE SavePlan
  <2>1. UNCHANGED <<product, statebin, journal, layout, entry, blob, plan, diff, after, had>>
    BY <1>5 DEF SavePlan, server, store, pack
  <2>2. planbin' = plan /\ pc = "saving" /\ pc' = "load" /\ plan # 0
    BY <1>0, <1>5, PlanFacts DEF SavePlan, Goto, RunOK
  <2> QED BY <2>1, <2>2 DEF Versioned, Early
<1>6. CASE Late
  BY <1>6, VersionedLate
<1>7. CASE (Rotate /\ after = "off") \/ Crash
  <2>1. /\ Gone /\ UNCHANGED <<product, planbin, statebin, store>> /\ pc' = "off" /\ diff = {}
        /\ diff' = {} /\ planbin = 0 => journal' = journal /\ had' = had
    BY <1>7, GoneKeeps
  <2> QED BY <2>1 DEF Gone, Versioned, Fresh, store, pack
<1> QED BY <1>1, <1>2, <1>3, <1>4, <1>5, <1>6, <1>7 DEF Next, Booting, Folding, Late

-----------------------------------------------------------------------------
(***************************************************************************)
(* The fold, the layout of the pack, the blobs                             *)
(***************************************************************************)
\* What a fold writes: nothing before the replay, and the states.
Folded ==
    /\ Mending => states = Pending
    /\ pc = "rotate" => statebin = states

LEMMA FoldedStep == TypeInv /\ Folded /\ [Next]_vars => Folded'
<1> SUFFICES ASSUME TypeInv, Folded, [Next]_vars PROVE Folded'
  OBVIOUS
<1>0. RunOK
  BY TypeParts
<1> USE DEF Goto
<1>1. CASE Load
  <2>1. statebin = Torn => Saved = Pending
    BY DEF Saved
  <2> QED BY <1>1, <2>1 DEF Load, Folded, Mending, Torn
<1>2. CASE UNCHANGED vars \/ TruncateStates \/ SaveStates \/ \E i \in Assets : ServeStub(i)
  BY <1>2 DEF TruncateStates, SaveStates, ServeStub, Folded, Mending, vars, session, boot, db
<1>3. CASE Publish \/ Boot \/ TruncatePlan \/ SavePlan \/ Crash \/ Rotate \/ Replay \/ ReplayDone
           \/ Reset \/ Invalidate \/ DropBlob \/ DiffDone \/ Reconcile \/ Prepare
  <2>1. pc' \notin {"fold", "folding", "rotate"}
    BY <1>0, <1>3 DEF Publish, Boot, TruncatePlan, SavePlan, Crash, Gone, Rotate, Replay, ReplayDone,
       Reset, Invalidate, DropBlob, DiffDone, Reconcile, Prepare, RunOK, boot
  <2> QED BY <2>1 DEF Folded, Mending
<1>4. CASE Fold \/ WriteEntry \/ WriteMark
           \/ \E i \in Assets : Download(i) \/ MissDownload(i) \/ WriteBlock(i) \/ Find(i) \/ MarkStub(i)
  <2>1. pc' \notin {"folding", "rotate"} /\ (pc' = "fold" => after' # "replay")
    BY <1>4 DEF Fold, WriteEntry, WriteMark, Download, MissDownload, WriteBlock, Find, MarkStub, boot
  <2> QED BY <2>1 DEF Folded, Mending
<1> QED BY <1>1, <1>2, <1>3, <1>4 DEF Next, Booting, Session, Folding

\* The pack is that of a version up to the one in use, and of that one in a session.
Laid ==
    /\ layout = <<>> => \A i \in Assets : entry[i] = Hole
    /\ layout # <<>> => \E v \in 1..W : layout = Sizes(v)
    /\ Loaded => layout = Sizes(plan)

LEMMA LaidStep ==
    ASSUME UpdateAtomic, Distinct, TypeInv, Versioned, Laid, [Next]_vars
    PROVE  Laid'
<1>0. DbOK /\ RunOK
  BY TypeParts
<1>a. plan \in Nat /\ plan # 0 /\ planbin \in Nat /\ product \in Nat
  BY <1>0, PlanFacts DEF DbOK, RunOK
<1>1. CASE UNCHANGED vars \/ Publish
  BY <1>1 DEF vars, boot, store, pack, db, Publish, Laid, W, Loaded
<1>2. CASE Boot
  <2>1. /\ UNCHANGED <<layout, entry>> /\ pc = "off" /\ pc' \in {"load", "rebuild"}
        /\ plan' \in {planbin, product} /\ diff = {}
    BY <1>2 DEF Boot, store, pack, Goto, Versioned, Early, Mending
  <2>2. ~Loaded' /\ W = planbin /\ W' = plan'
    BY <2>1 DEF Loaded, W
  <2>3. layout # <<>> => \A v \in 1..planbin : v \in 1..plan'
    BY <1>a, <2>1 DEF Versioned, Fresh
  <2> QED BY <2>1, <2>2, <2>3 DEF Laid
<1>3. CASE TruncatePlan \/ SavePlan
  <2>1. UNCHANGED <<layout, entry, plan>> /\ ~Loaded' /\ W = W'
    BY <1>3 DEF TruncatePlan, SavePlan, store, pack, Goto, Loaded, W
  <2> QED BY <2>1 DEF Laid
<1>4. CASE (Rotate /\ after = "off") \/ Crash
  <2>1. UNCHANGED <<layout, entry>> /\ ~Loaded'
    BY <1>4, GoneKeeps DEF store, pack, Loaded
  <2>2. CASE planbin = 0
    BY <1>4, <2>1, <2>2, GoneKeeps DEF Laid, Versioned, Fresh
  <2>3. CASE planbin # 0
    <3>1. W' = W
      BY <1>4, <2>3, GoneKeeps
    <3> QED BY <2>1, <3>1 DEF Laid
  <2> QED BY <2>2, <2>3
<1>5. CASE Late
  <2>0. W = plan /\ W' = plan /\ plan' = plan
    BY <1>5, LateKeeps
  <2>1. CASE Prepare
    <3>1. layout' = Sizes(plan) /\ plan \in 1..plan /\ Sizes(plan) # <<>>
      BY <1>0, <1>a, <2>1, ShapeFacts DEF Prepare, RunOK
    <3> QED BY <2>0, <3>1 DEF Laid
  <2>2. CASE Invalidate
    <3>1. layout' = layout /\ ~Loaded' /\ \A i \in Assets : entry'[i] \in {entry[i], Hole}
      BY <2>2, TypeParts DEF Invalidate, Goto, Loaded, PackOK
    <3> QED BY <2>0, <3>1 DEF Laid
  <2>3. CASE WriteEntry \/ \E i \in Assets : ServeStub(i)
    <3>1. layout' = layout /\ Loaded /\ Sizes(plan) # <<>>
      BY <1>0, <2>3, ShapeFacts DEF WriteEntry, ServeStub, RunOK, Loaded
    <3> QED BY <2>0, <3>1 DEF Laid
  <2>4. CASE \/ Load \/ Replay \/ ReplayDone \/ Reset \/ DropBlob \/ DiffDone \/ Reconcile
             \/ WriteMark \/ Fold \/ TruncateStates \/ SaveStates \/ (Rotate /\ after # "off")
             \/ \E i \in Assets : Download(i) \/ MissDownload(i) \/ WriteBlock(i) \/ Find(i) \/ MarkStub(i)
    <3>1. UNCHANGED <<layout, entry>>
      BY <2>4 DEF Load, Replay, ReplayDone, Reset, DropBlob, DiffDone, Reconcile, WriteMark, Fold,
         TruncateStates, SaveStates, Rotate, Download, MissDownload, WriteBlock, Find, MarkStub,
         store, pack
    <3>2. Loaded' => Loaded
      BY <1>0, <2>4 DEF RunOK, Load, Replay, ReplayDone, Reset, DropBlob, DiffDone, Reconcile,
         WriteMark, Fold, TruncateStates, SaveStates, Rotate, Download, MissDownload, WriteBlock,
         Find, MarkStub, boot, Goto, Loaded
    <3> QED BY <2>0, <3>1, <3>2 DEF Laid
  <2> QED BY <1>5, <2>1, <2>2, <2>3, <2>4 DEF Late, Session
<1> QED BY <1>1, <1>2, <1>3, <1>4, <1>5 DEF Next, Booting, Folding, Late

\* The store has what the version in use says, but for what is still to be dropped.
Blobs == \A i \in Assets :
    /\ i \in Ranged => blob[i] = NoBlob
    /\ i \notin diff => blob[i] = NoBlob \/ (W # 0 /\ blob[i] = Plans[W][i])

LEMMA BlobsStep ==
    ASSUME UpdateAtomic, Distinct, TypeInv, Versioned, Blobs, [Next]_vars
    PROVE  Blobs'
<1>0. PackOK /\ DbOK /\ RunOK
  BY TypeParts
<1>1. CASE UNCHANGED vars \/ Publish
  BY <1>1 DEF vars, boot, store, db, Publish, Blobs, W
<1>2. CASE Boot
  <2>1. /\ blob' = blob /\ pc = "off" /\ pc' \in {"load", "rebuild"} /\ diff = {}
        /\ \/ plan' = planbin /\ planbin # 0
           \/ plan' = product /\ diff' = Changed(planbin)
    BY <1>0, <1>2, PlanFacts DEF Boot, store, Goto, Versioned, Early, Mending, DbOK
  <2>2. W = planbin /\ W' = plan'
    BY <2>1 DEF W
  <2>3. product # 0
    BY <1>0, PlanFacts DEF DbOK
  <2>4. planbin = 0 => \A i \in Assets : blob[i] = NoBlob
    BY <2>1 DEF Versioned, Fresh
  <2>5. \A i \in Assets : planbin # 0 /\ i \notin Ranged /\ i \notin Changed(planbin)
                            => Plans[planbin][i] = Plans[product][i]
    BY DEF Changed
  <2> QED BY <2>1, <2>2, <2>3, <2>4, <2>5 DEF Blobs
<1>3. CASE TruncatePlan \/ SavePlan
  BY <1>3 DEF TruncatePlan, SavePlan, store, Goto, W, Blobs
<1>4. CASE (Rotate /\ after = "off") \/ Crash
  <2>1. blob' = blob /\ diff = {} /\ W' = planbin /\ (planbin # 0 => W = planbin)
    BY <1>4, GoneKeeps DEF store
  <2>2. planbin = 0 => \A i \in Assets : blob[i] = NoBlob
    BY <2>1 DEF Versioned, Fresh
  <2> QED BY <2>1, <2>2 DEF Blobs
<1>5. CASE Late
  <2>0. W = plan /\ W' = plan /\ plan # 0
    BY <1>5, LateKeeps
  <2>1. CASE DropBlob
    <3>1. diff' = diff \ {Min(diff)} /\ blob' = [blob EXCEPT ![Min(diff)] = NoBlob]
      BY <2>1 DEF DropBlob, Deleted
    <3>2. \A i \in Assets : blob'[i] = IF i = Min(diff) THEN NoBlob ELSE blob[i]
      BY <1>0, <3>1 DEF PackOK
    <3> QED BY <2>0, <3>1, <3>2 DEF Blobs
  <2>2. ASSUME NEW a \in Assets, Download(a) PROVE Blobs'
    <3>1. a \notin Ranged /\ product = plan /\ diff' = diff
      BY <2>2 DEF Download, Online, boot
    <3>2. \A i \in Assets : blob'[i] = IF i = a THEN Plans[plan][i] ELSE blob[i]
      BY <1>0, <2>2, <3>1 DEF Download, PackOK
    <3> QED BY <2>0, <3>1, <3>2 DEF Blobs
  <2>3. CASE \/ Load \/ Replay \/ ReplayDone \/ Reset \/ Invalidate \/ DiffDone \/ Reconcile
             \/ Prepare \/ WriteEntry \/ WriteMark \/ Fold \/ TruncateStates \/ SaveStates
             \/ (Rotate /\ after # "off")
             \/ \E i \in Assets : MissDownload(i) \/ WriteBlock(i) \/ Find(i) \/ ServeStub(i) \/ MarkStub(i)
    <3>1. UNCHANGED <<blob, diff>>
      BY <2>3 DEF Load, Replay, ReplayDone, Reset, Invalidate, DiffDone, Reconcile, Prepare, WriteEntry,
         WriteMark, Fold, TruncateStates, SaveStates, Rotate, MissDownload, WriteBlock, Find, ServeStub,
         MarkStub, store, boot
    <3> QED BY <2>0, <3>1 DEF Blobs
  <2> QED BY <1>5, <2>1, <2>2, <2>3 DEF Late, Session
<1> QED BY <1>1, <1>2, <1>3, <1>4, <1>5 DEF Next, Booting, Folding, Late

-----------------------------------------------------------------------------
(***************************************************************************)
(* The replay                                                              *)
(***************************************************************************)
\* As far as the journal has been read, the states say what it says; while the
\* difference is applied, what all of it says.
Read ==
    /\ pc = "replay" => \A i \in Assets :
          /\ states[i] = "fetched" <=> ClaimIn(Saved, journal, i, read)
          /\ states[i] = "pending" <=> BlankIn(Saved, journal, i, read)
    /\ pc \in {"diff", "invalidate", "unblob", "reconcile"} => \A i \in Assets :
          /\ states[i] = "fetched" <=> Claim(i)
          /\ states[i] = "pending" <=> Blank(i)
    /\ pc \in {"invalidate", "unblob"} => states[Min(diff)] = "pending"

LEMMA ReplayReads ==
    ASSUME TypeInv, Read, Replay
    PROVE  Read'
<1>0. DbOK
  BY TypeParts
<1>1. /\ pc = "replay" /\ pc' = "replay" /\ read' = read + 1 /\ read \in Nat
      /\ read + 1 \in 1..Len(journal) /\ Saved' = Saved /\ journal' = journal
      /\ states' = Applied(states, journal[read + 1])
  BY <1>0 DEF Replay, DbOK, db, Saved
<1>2. PICK c \in {"F", "B", "R"}, a \in Assets : journal[read + 1] = <<c, a>>
  <2>1. journal[read + 1] \in Record
    BY <1>0, <1>1, ElementOfSeq DEF DbOK
  <2> QED BY <2>1 DEF Record
<1>3. ASSUME NEW i \in Assets
      PROVE  /\ states'[i] = "fetched" <=>
                   <<c, a>> = <<"F", i>> \/ (<<c, a>> # <<"R", i>> /\ states[i] = "fetched")
             /\ states'[i] = "pending" <=>
                   \/ <<c, a>> = <<"R", i>>
                   \/ <<c, a>> \notin {<<"F", i>>, <<"B", i>>} /\ states[i] = "pending"
  <2>0. Applied(states, <<c, a>>) =
          [states EXCEPT ![a] = IF c = "F" THEN "fetched"
                                ELSE IF c = "R" THEN "pending"
                                ELSE IF states[a] = "fetched" THEN states[a] ELSE "stubbed"]
    BY <1>2 DEF Applied
  <2>1. states' = [states EXCEPT ![a] = IF c = "F" THEN "fetched"
                                  ELSE IF c = "R" THEN "pending"
                                  ELSE IF states[a] = "fetched" THEN states[a] ELSE "stubbed"]
    BY <1>1, <1>2, <2>0
  <2>2. i # a => states'[i] = states[i]
    BY <1>0, <2>1 DEF DbOK
  <2>3. states'[a] = IF c = "F" THEN "fetched"
                     ELSE IF c = "R" THEN "pending"
                     ELSE IF states[a] = "fetched" THEN states[a] ELSE "stubbed"
    BY <1>0, <2>1 DEF DbOK
  <2> QED BY <2>2, <2>3
<1>4. ASSUME NEW i \in Assets
      PROVE  /\ states'[i] = "fetched" <=> ClaimIn(Saved, journal, i, read + 1)
             /\ states'[i] = "pending" <=> BlankIn(Saved, journal, i, read + 1)
  <2>1. /\ states[i] = "fetched" <=> ClaimIn(Saved, journal, i, read)
        /\ states[i] = "pending" <=> BlankIn(Saved, journal, i, read)
    BY <1>1 DEF Read
  <2>2. /\ ClaimIn(Saved, journal, i, read + 1) <=>
              \/ <<c, a>> = <<"F", i>>
              \/ <<c, a>> # <<"R", i>> /\ ClaimIn(Saved, journal, i, read)
        /\ BlankIn(Saved, journal, i, read + 1) <=>
              \/ <<c, a>> = <<"R", i>>
              \/ <<c, a>> \notin {<<"F", i>>, <<"B", i>>} /\ BlankIn(Saved, journal, i, read)
    BY <1>1, <1>2, NextRecord
  <2> QED BY <2>1, <2>2, <1>3
<1> QED BY <1>1, <1>4 DEF Read

LEMMA SavedStates == TypeInv /\ statebin = states => Saved = states
BY StatesAreNoFile DEF TypeInv, TypeOK, Saved

LEMMA ReadStep == TypeInv /\ Folded /\ Read /\ [Next]_vars => Read'
<1> SUFFICES ASSUME TypeInv, Folded, Read, [Next]_vars PROVE Read'
  OBVIOUS
<1>0. DbOK /\ RunOK
  BY TypeParts
<1> USE DEF Goto
<1>1. CASE Load
  <2>1. /\ states' = Saved /\ read' = 0 /\ pc' \in {"replay", "fold"} /\ journal' = journal
        /\ Saved' = Saved
    BY <1>0, <1>1 DEF Load, db, Saved, DbOK
  <2> QED BY <2>1, NoRecord DEF Read
<1>2. CASE Rotate
  <2>1. CASE after = "replay"
    <3>1. /\ states' = states /\ statebin' = statebin /\ read' = 0 /\ pc' = "replay"
          /\ statebin = states
      BY <1>0, <1>2, <2>1 DEF Rotate, session, DbOK, Folded
    <3>2. Saved' = states'
      BY <1>0, <3>1, SavedStates DEF Saved
    <3> QED BY <3>1, <3>2, NoRecord DEF Read
  <2>2. CASE after # "replay"
    <3>1. pc' \in {"run", "off"}
      BY <1>0, <1>2, <2>2 DEF Rotate, Gone, RunOK
    <3> QED BY <3>1 DEF Read
  <2> QED BY <2>1, <2>2
<1>3. CASE Replay
  BY <1>3, ReplayReads
<1>4. CASE ReplayDone
  <2>1. /\ UNCHANGED <<states, statebin, journal>> /\ pc = "replay" /\ pc' = "diff"
        /\ read = Len(journal)
    BY <1>4 DEF ReplayDone, db, session
  <2>2. \A i \in Assets : (Claim(i)' <=> Claim(i)) /\ (Blank(i)' <=> Blank(i))
    BY <2>1, Untold
  <2> QED BY <2>1, <2>2 DEF Read, Claim, Blank
<1>5. CASE Reset
  <2>1. /\ Min(diff) \in Assets /\ pc = "diff" /\ pc' = "invalidate" /\ diff' = diff
        /\ journal' = Append(journal, <<"R", Min(diff)>>) /\ statebin' = statebin
        /\ states' = [states EXCEPT ![Min(diff)] = "pending"]
    BY <1>5, FirstChanged DEF Reset
  <2>2. ASSUME NEW i \in Assets
        PROVE  /\ i # Min(diff) => (Claim(i)' <=> Claim(i)) /\ (Blank(i)' <=> Blank(i))
               /\ ~Claim(Min(diff))' /\ Blank(Min(diff))'
    BY <2>1, Told
  <2>3. \A i \in Assets : states'[i] = IF i = Min(diff) THEN "pending" ELSE states[i]
    BY <1>0, <2>1 DEF DbOK
  <2>4. Min(diff)' = Min(diff)
    BY <2>1
  <2> QED BY <2>1, <2>2, <2>3, <2>4 DEF Read
<1>6. CASE Invalidate \/ DropBlob \/ DiffDone \/ UNCHANGED vars
  <2>1. /\ UNCHANGED <<states, statebin, journal, read>>
        /\ \/ pc \in {"diff", "invalidate", "unblob", "reconcile"} /\ pc' # "replay"
           \/ pc' = pc
        /\ pc' \in {"invalidate", "unblob"} => pc \in {"invalidate", "unblob"} /\ diff' = diff
    BY <1>6 DEF Invalidate, DropBlob, DiffDone, vars, db, session, boot
  <2>2. \A i \in Assets : (Claim(i)' <=> Claim(i)) /\ (Blank(i)' <=> Blank(i))
    BY <2>1, Untold
  <2>3. Saved' = Saved
    BY <2>1 DEF Saved
  <2> QED BY <2>1, <2>2, <2>3 DEF Read
<1>7. CASE \/ Publish \/ Boot \/ TruncatePlan \/ SavePlan \/ Crash \/ Reconcile \/ Prepare \/ Session
           \/ Fold \/ TruncateStates \/ SaveStates
  <2>1. pc' \notin {"replay", "diff", "invalidate", "unblob", "reconcile"}
    BY <1>0, <1>7 DEF Publish, Boot, TruncatePlan, SavePlan, Crash, Gone, Reconcile, Prepare, Session,
       Fold, TruncateStates, SaveStates, Download, MissDownload, WriteBlock, Find, ServeStub, MarkStub,
       WriteEntry, WriteMark, boot
  <2> QED BY <2>1 DEF Read
<1> QED BY <1>1, <1>2, <1>3, <1>4, <1>5, <1>6, <1>7 DEF Next, Booting, Folding

-----------------------------------------------------------------------------
(***************************************************************************)
(* What is fetched is real                                                 *)
(***************************************************************************)
Kept(v) == \A u \in 1..v : Sizes(u) = Sizes(1)

Holds(i) == entry[i] = Shape(W, i) /\ block[i] = Plans[W][i].data

\* What the disk claims is in the pack, but for what is still to be reset ...
ClaimsHold == \A i \in Assets \ diff : Claim(i) => Holds(i)

\* ... and so is what the states have as fetched, which is all of the claims.
StatesHold == pc = "prepare" \/ Loaded =>
    \A i \in Assets : /\ states[i] = "fetched" => Holds(i)
                      /\ Claim(i) => states[i] = "fetched"

\* The writer has put down the block, and then the entry.
WriteHolds ==
    /\ pc \in {"entry", "mark"} => block[writer] = Planned(writer).data
    /\ pc = "mark" => entry[writer] = Shape(plan, writer)

Real == W # 0 /\ Kept(W) => ClaimsHold /\ StatesHold /\ WriteHolds

\* A version before one that kept the sizes has them too.
LEMMA SameShapes ==
    ASSUME NEW u \in Versions, NEW v \in Versions, u <= v, Kept(v)
    PROVE  /\ Kept(u) /\ Sizes(u) = Sizes(v) /\ \A i : Shape(u, i) = Shape(v, i)
           /\ \A i \in Assets : Plans[u][i].size = Plans[v][i].size
<1>1. u \in Nat /\ v \in Nat /\ u # 0 /\ v # 0
  BY PlanFacts
<1>2. Kept(u) /\ Sizes(u) = Sizes(1) /\ Sizes(v) = Sizes(1)
  BY <1>1 DEF Kept
<1>3. \A i \in Assets : Sizes(u)[i] = Plans[u][i].size /\ Sizes(v)[i] = Plans[v][i].size
  BY DEF Sizes
<1> QED BY <1>2, <1>3 DEF Shape

\* The steps that leave the pack and what the disk says alone, before the session
\* and in it.
LEMMA RealKept ==
    ASSUME TypeInv, Versioned, Real, Late, UNCHANGED <<statebin, journal, entry, block>>,
           diff' = diff, pc' \notin {"entry", "mark"},
           pc' = "prepare" \/ Loaded' => (pc = "prepare" \/ Loaded) /\ states' = states
    PROVE  Real'
<1>1. W = plan /\ W' = plan /\ plan' = plan
  BY LateKeeps
<1>2. SUFFICES ASSUME W # 0, Kept(W), ClaimsHold, StatesHold
               PROVE  ClaimsHold' /\ StatesHold' /\ WriteHolds'
  BY <1>1 DEF Real
<1>3. \A i \in Assets : (Claim(i)' <=> Claim(i)) /\ (Holds(i)' <=> Holds(i))
  BY <1>1, Untold DEF Holds
<1> QED BY <1>2, <1>3 DEF ClaimsHold, StatesHold, WriteHolds

\* In a session, and on its eve, it is enough to look at the states.
LEMMA StatesAreEnough ==
    (pc = "prepare" \/ Loaded) /\ StatesHold => ClaimsHold
BY DEF StatesHold, ClaimsHold

LEMMA StatesAreEnoughNext ==
    (pc = "prepare" \/ Loaded)' /\ StatesHold' => ClaimsHold'
BY DEF StatesHold, ClaimsHold

\* A write that changes asset a only, which the states do not have as fetched.
LEMMA RealWrite ==
    ASSUME TypeInv, Versioned, Real, Late, Loaded, Loaded', NEW a \in Assets,
           states[a] # "fetched", UNCHANGED <<statebin, journal>>,
           \A i \in Assets \ {a} : entry'[i] = entry[i] /\ block'[i] = block[i],
           \A i \in Assets : states'[i] = "fetched" <=> states[i] = "fetched",
           W # 0 /\ Kept(W) => WriteHolds'
    PROVE  Real'
<1>1. W = plan /\ W' = plan /\ plan' = plan
  BY LateKeeps
<1>2. SUFFICES ASSUME W # 0, Kept(W), ClaimsHold, StatesHold
               PROVE  StatesHold'
  BY <1>1, StatesAreEnoughNext DEF Real
<1>3. ASSUME NEW i \in Assets, states[i] = "fetched" PROVE Holds(i)'
  BY <1>1, <1>2, <1>3 DEF StatesHold, Holds
<1>4. \A i \in Assets : Claim(i)' <=> Claim(i)
  BY Untold
<1> QED BY <1>2, <1>3, <1>4 DEF StatesHold

LEMMA RealBoot ==
    ASSUME Frozen, TypeInv, Versioned, Real, Boot
    PROVE  Real'
<1>0. DbOK
  BY TypeParts
<1>1. /\ UNCHANGED <<statebin, journal, entry, block>> /\ pc = "off" /\ pc' \in {"load", "rebuild"}
      /\ \/ plan' = planbin /\ planbin # 0
         \/ plan' = product /\ diff' = Changed(planbin)
  BY <1>0, PlanFacts DEF Boot, db, store, pack, Goto, DbOK
<1>2. W = planbin /\ W' = plan' /\ diff = {} /\ planbin <= product
  BY <1>1 DEF W, Versioned, Early, Mending
<1>3. SUFFICES ASSUME plan' # 0, Kept(plan') PROVE ClaimsHold'
  BY <1>1, <1>2 DEF Real, StatesHold, WriteHolds, Loaded
<1>4. \A i \in Assets : Claim(i)' <=> Claim(i)
  BY <1>1, Untold
<1>5. CASE planbin = 0
  <2>1. journal = <<>> /\ Saved = Pending
    BY <1>2, <1>5 DEF Versioned, Fresh, Saved
  <2>2. \A i \in Assets : ~Claim(i)
    BY <2>1, NoRecord DEF Claim, Pending
  <2> QED BY <1>4, <2>2 DEF ClaimsHold
<1>6. CASE planbin # 0 /\ plan' = planbin
  <2>1. \A i \in Assets : Claim(i) => Holds(i)
    BY <1>2, <1>3, <1>6 DEF Real, ClaimsHold
  <2> QED BY <1>1, <1>2, <1>4, <1>6, <2>1 DEF ClaimsHold, Holds
<1>7. CASE planbin # 0 /\ plan' = product /\ diff' = Changed(planbin)
  <2>1. planbin \in Versions /\ product \in Versions
    BY <1>0, <1>7 DEF DbOK
  <2>2. Kept(planbin) /\ \A i : Shape(planbin, i) = Shape(product, i)
    BY <1>2, <1>3, <1>7, <2>1, SameShapes
  <2>3. \A i \in Assets : Claim(i) => Holds(i)
    BY <1>2, <1>7, <2>2 DEF Real, ClaimsHold
  <2>4. \A i \in Assets \ diff' : Plans[planbin][i] = Plans[product][i]
    BY <1>7, <2>1 DEF Changed, Frozen
  <2> QED BY <1>1, <1>2, <1>4, <1>7, <2>2, <2>3, <2>4 DEF ClaimsHold, Holds
<1> QED BY <1>1, <1>5, <1>6, <1>7

LEMMA RealGone ==
    ASSUME UpdateAtomic, Distinct, TypeInv, Versioned, Folded, Real,
           (Rotate /\ after = "off") \/ Crash
    PROVE  Real'
<1>1. /\ Gone /\ UNCHANGED <<planbin, statebin, entry, block>> /\ pc' = "off" /\ diff = {}
      /\ W' = planbin /\ (planbin # 0 => planbin = plan /\ W = plan) /\ (Crash => journal' = journal)
  BY GoneKeeps DEF store, pack
<1>2. SUFFICES ASSUME planbin # 0, Kept(planbin) PROVE ClaimsHold'
  BY <1>1 DEF Real, StatesHold, WriteHolds, Loaded
<1>3. ClaimsHold /\ StatesHold /\ \A i \in Assets : Holds(i)' <=> Holds(i)
  BY <1>1, <1>2 DEF Real, Holds
<1>4. CASE Crash
  <2>1. \A i \in Assets : Claim(i)' <=> Claim(i)
    BY <1>1, <1>4, Untold
  <2> QED BY <1>1, <1>3, <2>1 DEF ClaimsHold
<1>5. CASE Rotate /\ after = "off"
  <2>1. journal' = <<>> /\ statebin = states /\ Loaded /\ Saved' = Saved /\ Saved = states
    BY <1>1, <1>5, SavedStates DEF Rotate, Folded, Loaded, Saved
  <2>2. \A i \in Assets : Claim(i)' <=> states[i] = "fetched"
    BY <2>1, NoRecord DEF Claim
  <2> QED BY <1>3, <2>1, <2>2 DEF ClaimsHold, StatesHold
<1> QED BY <1>4, <1>5

\* The fold: the states take the place of the journal.
LEMMA RealFolds ==
    ASSUME TypeInv, Versioned, Folded, Real,
           TruncateStates \/ SaveStates \/ (Rotate /\ after # "off")
    PROVE  Real'
<1>0. DbOK /\ RunOK
  BY TypeParts
<1>1. /\ W = plan /\ W' = plan /\ plan' = plan
  BY LateKeeps DEF Late
<1>2. /\ UNCHANGED <<entry, block, states, diff, after>> /\ pc \in {"fold", "folding", "rotate"}
      /\ pc' \in {"folding", "rotate", "run", "replay"} /\ (Loaded' => Loaded)
      /\ ~Mending => Loaded
  BY <1>0 DEF TruncateStates, SaveStates, Rotate, store, pack, session, Goto, RunOK, Loaded, Mending
<1>3. SUFFICES ASSUME W # 0, Kept(W), ClaimsHold, StatesHold
               PROVE  ClaimsHold' /\ StatesHold' /\ WriteHolds'
  BY <1>1 DEF Real
<1>4. WriteHolds'
  BY <1>2 DEF WriteHolds
<1>5. ASSUME NEW i \in Assets, Claim(i)' PROVE Claim(i) \/ states[i] = "fetched"
  <2>1. CASE TruncateStates
    <3>1. Saved' = Pending /\ journal' = journal
      BY <2>1 DEF TruncateStates, Saved
    <3>2. Marked(journal, i, Len(journal))
      BY <1>5, <3>1 DEF Claim, ClaimIn, Pending
    <3> QED BY <3>2 DEF Claim, ClaimIn
  <2>2. CASE SaveStates
    <3>1. Saved' = states /\ journal' = journal
      BY <1>0, <2>2, StatesAreNoFile DEF SaveStates, Saved, DbOK
    <3> QED BY <1>5, <3>1 DEF Claim, ClaimIn
  <2>3. CASE Rotate
    <3>1. Saved' = states /\ journal' = <<>>
      BY <1>0, <2>3, StatesAreNoFile DEF Rotate, Saved, DbOK, Folded
    <3> QED BY <1>5, <3>1, NoRecord DEF Claim
  <2> QED BY <2>1, <2>2, <2>3
<1>6. \A i \in Assets : Holds(i)' <=> Holds(i)
  BY <1>1, <1>2 DEF Holds
<1>7. CASE Loaded
  BY <1>2, <1>3, <1>4, <1>5, <1>6, <1>7 DEF ClaimsHold, StatesHold
<1>8. CASE Mending
  <2>1. \A i \in Assets : states[i] # "fetched"
    BY <1>8 DEF Folded, Pending
  <2>2. ~Loaded' /\ pc' # "prepare"
    BY <1>2, <1>8 DEF Mending, Loaded
  <2> QED BY <1>2, <1>3, <1>4, <1>5, <1>6, <2>1, <2>2 DEF ClaimsHold, StatesHold
<1> QED BY <1>2, <1>7, <1>8

\* The reset of an asset, step by step.
LEMMA RealResets ==
    ASSUME TypeInv, Versioned, Read, Real, Reset \/ Invalidate \/ DropBlob
    PROVE  Real'
<1>0. PackOK /\ RunOK /\ diff # {}
  BY TypeParts DEF RunOK, Reset, Invalidate, DropBlob
<1>1. W = plan /\ W' = plan /\ plan' = plan
  BY LateKeeps DEF Late
<1>2. /\ pc' \in {"diff", "invalidate", "unblob"} /\ block' = block /\ statebin' = statebin
      /\ Min(diff) \in diff /\ Min(diff) \in Assets
  BY <1>0, FirstChanged DEF Reset, Invalidate, DropBlob, Goto, store, pack, db
<1>3. SUFFICES ASSUME W # 0, Kept(W), ClaimsHold PROVE ClaimsHold'
  BY <1>1, <1>2 DEF Real, StatesHold, WriteHolds, Loaded
<1>4. CASE Reset
  <2>1. journal' = Append(journal, <<"R", Min(diff)>>) /\ diff' = diff /\ entry' = entry
    BY <1>4 DEF Reset, store, pack
  <2>2. \A i \in Assets \ diff : Claim(i)' <=> Claim(i)
    BY <1>2, <2>1, Told
  <2> QED BY <1>1, <1>2, <1>3, <2>1, <2>2 DEF ClaimsHold, Holds
<1>5. CASE Invalidate
  <2>1. /\ journal' = journal /\ diff' = diff
        /\ \A i \in Assets : i # Min(diff) => entry'[i] = entry[i]
    BY <1>0, <1>5 DEF Invalidate, db, PackOK
  <2>2. \A i \in Assets : Claim(i)' <=> Claim(i)
    BY <1>2, <2>1, Untold
  <2> QED BY <1>1, <1>2, <1>3, <2>1, <2>2 DEF ClaimsHold, Holds
<1>6. CASE DropBlob
  <2>1. /\ journal' = journal /\ entry' = entry /\ diff' = diff \ {Min(diff)} /\ pc = "unblob"
    BY <1>6 DEF DropBlob, db, pack
  <2>2. \A i \in Assets : Claim(i)' <=> Claim(i)
    BY <1>2, <2>1, Untold
  <2>3. ~Claim(Min(diff))
    BY <1>2, <2>1 DEF Read
  <2> QED BY <1>1, <1>2, <1>3, <2>1, <2>2, <2>3 DEF ClaimsHold, Holds
<1> QED BY <1>4, <1>5, <1>6

\* The blob that proves a block is that of the plan.
LEMMA ProofIsReal ==
    ASSUME TypeInv, Blobs, diff = {}, W \in Versions, NEW i \in Assets,
           entry[i] = Shape(W, i), blob[i].size = Plans[W][i].size, block[i] = blob[i].data
    PROVE  Holds(i)
<1>1. blob[i] # NoBlob
  BY PlanFacts DEF NoBlob
<1> QED BY <1>1 DEF Blobs, Holds

LEMMA RealReconcile ==
    ASSUME TypeInv, Versioned, Blobs, Read, Real, Reconcile
    PROVE  Real'
<1>0. DbOK
  BY TypeParts
<1>1. W = plan /\ W' = plan /\ plan' = plan /\ plan \in Versions
  BY LateKeeps DEF Late
<1>2. /\ pc = "reconcile" /\ pc' = "prepare" /\ diff = {} /\ diff' = {}
      /\ UNCHANGED <<statebin, journal, entry, block>>
  BY DEF Reconcile, Goto, store, pack, db, Versioned, Early, Mending
<1>3. SUFFICES ASSUME W # 0, Kept(W), ClaimsHold PROVE StatesHold'
  BY <1>1, <1>2, StatesAreEnoughNext DEF Real, WriteHolds
<1>4. \A i \in Assets : (Claim(i)' <=> Claim(i)) /\ (Holds(i)' <=> Holds(i))
  BY <1>1, <1>2, Untold DEF Holds
<1>5. ASSUME NEW i \in Assets
      PROVE  /\ states'[i] = "fetched" => Holds(i)
             /\ Claim(i) => states'[i] = "fetched"
  <2>1. states'[i] = IF states[i] = "fetched" /\ ~Advertised(i) THEN "pending"
                     ELSE IF states[i] = "pending" /\ Proven(i) THEN "fetched"
                     ELSE states[i]
    BY DEF Reconcile
  <2>2. states[i] = "fetched" <=> Claim(i)
    BY <1>2 DEF Read
  <2>3. Claim(i) => Holds(i)
    BY <1>2, <1>3 DEF ClaimsHold
  <2>4. Holds(i) => Advertised(i)
    BY <1>1 DEF Holds, Advertised
  <2>5. Proven(i) => Holds(i)
    BY <1>1, <1>2, ProofIsReal DEF Proven, Advertised, Planned
  <2> QED BY <2>1, <2>2, <2>3, <2>4, <2>5
<1> QED BY <1>4, <1>5 DEF StatesHold

\* The pack is not made anew while the sizes are kept, but for the first time.
LEMMA PrepareKeeps ==
    ASSUME TypeInv, Versioned, Laid, Prepare, Kept(plan), NEW i \in Assets, Holds(i)
    PROVE  Holds(i)' /\ UNCHANGED <<entry, block>>
<1>1. W = plan /\ W' = plan /\ plan' = plan /\ plan \in Versions
  BY LateKeeps DEF Late
<1>2. entry[i] # Hole
  BY <1>1, ShapeFacts DEF Holds
<1>3. PICK v \in 1..plan : layout = Sizes(v)
  BY <1>1, <1>2 DEF Laid
<1>4. plan \in 1..plan
  BY <1>1, PlanFacts
<1>5. layout = Sizes(plan)
  BY <1>3, <1>4 DEF Kept
<1>6. UNCHANGED <<entry, block>>
  BY <1>5 DEF Prepare
<1> QED BY <1>1, <1>6 DEF Holds

LEMMA RealPrepare ==
    ASSUME TypeInv, Versioned, Laid, Real, Prepare
    PROVE  Real'
<1>1. W = plan /\ W' = plan /\ plan' = plan
  BY LateKeeps DEF Late
<1>2. UNCHANGED <<statebin, journal, states>> /\ pc = "prepare" /\ pc' = "run"
  BY DEF Prepare, Goto, db
<1>3. SUFFICES ASSUME W # 0, Kept(W), StatesHold PROVE StatesHold'
  BY <1>1, <1>2, StatesAreEnoughNext DEF Real, WriteHolds, Loaded
<1>4. \A i \in Assets : Claim(i)' <=> Claim(i)
  BY <1>2, Untold
<1>5. \A i \in Assets : Holds(i) => Holds(i)'
  BY <1>1, <1>3, PrepareKeeps
<1> QED BY <1>2, <1>3, <1>4, <1>5 DEF StatesHold

\* The writer: block, entry, mark.
LEMMA RealWriter ==
    ASSUME TypeInv, Versioned, Blobs, Real,
           WriteEntry \/ WriteMark \/ \E i \in Assets : WriteBlock(i)
    PROVE  Real'
<1>0. PackOK /\ DbOK /\ RunOK
  BY TypeParts
<1>1. W = plan /\ W' = plan /\ plan' = plan /\ Late
  BY LateKeeps DEF Late, Session
<1>2. ASSUME NEW a \in Assets, WriteBlock(a) PROVE Real'
  <2>1. /\ pc = "run" /\ pc' \in {"run", "entry"} /\ states[a] # "fetched" /\ diff' = diff
        /\ UNCHANGED <<statebin, journal, entry>> /\ diff = {}
    BY <1>2 DEF WriteBlock, db, Goto, Versioned, Early, Mending
  <2>2. \A i \in Assets \ {a} : entry'[i] = entry[i] /\ block'[i] = block[i]
    BY <1>0, <1>2 DEF WriteBlock, PackOK
  <2>3. \A i \in Assets : states'[i] = "fetched" <=> states[i] = "fetched"
    <3>1. states' = states \/ states' = [states EXCEPT ![a] = "failed"]
      BY <1>2 DEF WriteBlock
    <3> QED BY <1>0, <2>1, <3>1 DEF DbOK
  <2>4. Bytes(a) = Planned(a)
    <3>1. CASE a \in Ranged
      BY <1>2, <3>1 DEF WriteBlock, Bytes, Online, Planned
    <3>2. CASE a \notin Ranged
      BY <1>1, <1>2, <2>1, <3>2 DEF WriteBlock, Bytes, Blobs, Planned
    <3> QED BY <3>1, <3>2
  <2>5. pc' = "entry" => writer' = a /\ block'[a] = Planned(a).data
    BY <1>0, <1>2, <2>1, <2>4 DEF WriteBlock, PackOK
  <2>6. WriteHolds'
    BY <1>1, <2>1, <2>5 DEF WriteHolds, Planned
  <2> QED BY <1>1, <2>1, <2>2, <2>3, <2>6, RealWrite DEF Loaded
<1>3. CASE WriteEntry
  <2>1. /\ pc = "entry" /\ pc' = "mark" /\ writer \in Assets /\ diff = {}
        /\ UNCHANGED <<statebin, journal, block, states, writer, diff>>
        /\ \A i \in Assets : entry'[i] = IF i = writer THEN Shape(plan, i) ELSE entry[i]
    BY <1>0, <1>3 DEF WriteEntry, RunOK, PackOK, db, session, Goto, Versioned, Early, Mending
  <2>2. SUFFICES ASSUME W # 0, Kept(W), StatesHold, WriteHolds PROVE StatesHold' /\ WriteHolds'
    BY <1>1, <2>1, StatesAreEnoughNext DEF Real, Loaded
  <2>3. \A i \in Assets : Claim(i)' <=> Claim(i)
    BY <2>1, Untold
  <2>4. \A i \in Assets : Holds(i) => Holds(i)'
    BY <1>1, <2>1 DEF Holds
  <2>5. StatesHold'
    BY <2>1, <2>2, <2>3, <2>4 DEF StatesHold, Loaded
  <2>6. WriteHolds'
    BY <1>1, <2>1, <2>2 DEF WriteHolds, Planned
  <2> QED BY <2>5, <2>6
<1>4. CASE WriteMark
  <2>1. /\ pc = "mark" /\ pc' = "run" /\ writer \in Assets
        /\ UNCHANGED <<statebin, entry, block>>
        /\ journal' = Append(journal, <<"F", writer>>)
        /\ \A i \in Assets : states'[i] = IF i = writer THEN "fetched" ELSE states[i]
    BY <1>0, <1>4 DEF WriteMark, RunOK, DbOK, store, pack, Goto
  <2>2. SUFFICES ASSUME W # 0, Kept(W), StatesHold, WriteHolds PROVE StatesHold'
    BY <1>1, <2>1, StatesAreEnoughNext DEF Real, WriteHolds, Loaded
  <2>3. \A i \in Assets : Holds(i)' <=> Holds(i)
    BY <1>1, <2>1 DEF Holds
  <2>4. Holds(writer)
    BY <1>1, <2>1, <2>2 DEF Holds, WriteHolds, Planned
  <2>5. \A i \in Assets : i # writer => (Claim(i)' <=> Claim(i))
    BY <2>1, Told
  <2> QED BY <2>1, <2>2, <2>3, <2>4, <2>5 DEF StatesHold, Loaded
<1> QED BY <1>2, <1>3, <1>4

\* A fault that is served a stub, and the mark of it.
LEMMA RealStubs ==
    ASSUME TypeInv, Versioned, Real, NEW a \in Assets, ServeStub(a) \/ MarkStub(a)
    PROVE  Real'
<1>0. PackOK /\ DbOK /\ RunOK
  BY TypeParts
<1>1. W = plan /\ W' = plan /\ plan' = plan /\ Late
  BY LateKeeps DEF Late, Session
<1>2. CASE ServeStub(a)
  <2>1. /\ pc' = pc /\ pc \notin {"entry", "mark"} /\ Loaded /\ Loaded' /\ states[a] # "fetched"
        /\ UNCHANGED <<statebin, journal, states>>
    BY <1>2 DEF ServeStub, db, boot, Loaded
  <2>2. \A i \in Assets \ {a} : entry'[i] = entry[i] /\ block'[i] = block[i]
    BY <1>0, <1>2 DEF ServeStub, PackOK
  <2>3. WriteHolds'
    BY <2>1 DEF WriteHolds
  <2> QED BY <1>1, <2>1, <2>2, <2>3, RealWrite
<1>3. CASE MarkStub(a) /\ states[a] = "fetched"
  <2>1. /\ pc' = pc /\ pc = "run" /\ UNCHANGED <<statebin, journal, states, entry, block, diff>>
        /\ (Loaded' <=> Loaded)
    BY <1>3 DEF MarkStub, store, pack, boot, Loaded
  <2> QED BY <1>1, <2>1, RealKept DEF Loaded
<1>4. CASE MarkStub(a) /\ states[a] # "fetched"
  <2>1. /\ pc' = pc /\ pc = "run" /\ UNCHANGED <<statebin, entry, block>>
        /\ journal' = Append(journal, <<"B", a>>)
        /\ \A i \in Assets : states'[i] = IF i = a THEN "stubbed" ELSE states[i]
    BY <1>0, <1>4 DEF MarkStub, DbOK, store, pack, boot
  <2>2. SUFFICES ASSUME W # 0, Kept(W), StatesHold PROVE StatesHold'
    BY <1>1, <2>1, StatesAreEnoughNext DEF Real, WriteHolds, Loaded
  <2>3. \A i \in Assets : Claim(i)' <=> Claim(i)
    BY <2>1, Told
  <2>4. \A i \in Assets : Holds(i)' <=> Holds(i)
    BY <1>1, <2>1 DEF Holds
  <2> QED BY <1>4, <2>1, <2>2, <2>3, <2>4 DEF StatesHold, Loaded
<1> QED BY <1>2, <1>3, <1>4

LEMMA RealStep ==
    ASSUME UpdateAtomic, Frozen, Distinct,
           TypeInv, Versioned, Folded, Laid, Blobs, Read, Real, [Next]_vars
    PROVE  Real'
<1>0. DbOK /\ RunOK
  BY TypeParts
<1>1. CASE UNCHANGED vars \/ Publish \/ TruncatePlan \/ SavePlan
  <2>1. /\ UNCHANGED <<statebin, journal, entry, block, states, writer, plan, diff>> /\ W' = W
        /\ \/ pc' = pc /\ after' = after
           \/ pc' \in {"saving", "load"}
    BY <1>1 DEF vars, Publish, TruncatePlan, SavePlan, db, store, pack, session, boot, Goto, W
  <2>2. \A i \in Assets : (Claim(i)' <=> Claim(i)) /\ (Holds(i)' <=> Holds(i))
    BY <2>1, Untold DEF Holds
  <2> QED BY <2>1, <2>2 DEF Real, ClaimsHold, StatesHold, WriteHolds, Loaded, Planned
<1>2. CASE Boot
  BY <1>2, RealBoot
<1>3. CASE (Rotate /\ after = "off") \/ Crash
  BY <1>3, RealGone
<1>4. CASE TruncateStates \/ SaveStates \/ (Rotate /\ after # "off")
  BY <1>4, RealFolds
<1>5. CASE Reset \/ Invalidate \/ DropBlob
  BY <1>5, RealResets
<1>6. CASE Reconcile
  BY <1>6, RealReconcile
<1>7. CASE Prepare
  BY <1>7, RealPrepare
<1>8. CASE WriteEntry \/ WriteMark \/ \E i \in Assets : WriteBlock(i)
  BY <1>8, RealWriter
<1>9. CASE \E i \in Assets : ServeStub(i) \/ MarkStub(i)
  BY <1>9, RealStubs
<1>10. CASE Load \/ Replay \/ ReplayDone \/ DiffDone
            \/ Fold \/ \E i \in Assets : Download(i) \/ MissDownload(i) \/ Find(i)
  <2>1. UNCHANGED <<statebin, journal, entry, block, diff>> /\ pc' \notin {"entry", "mark"}
    BY <1>10 DEF Load, Replay, ReplayDone, DiffDone, Fold, Download, MissDownload, Find, db, store,
       pack, boot, Goto
  <2>2. pc' = "prepare" \/ Loaded' => (pc = "prepare" \/ Loaded) /\ states' = states
    BY <1>10 DEF Load, Replay, ReplayDone, DiffDone, Fold, Download, MissDownload, Find, session,
       boot, Goto, Loaded
  <2>3. Late
    BY <1>10 DEF Late, Session
  <2> QED BY <2>1, <2>2, <2>3, RealKept
<1> QED BY <1>1, <1>2, <1>3, <1>4, <1>5, <1>6, <1>7, <1>8, <1>9, <1>10
        DEF Next, Booting, Session, Folding

-----------------------------------------------------------------------------
\* The inductive invariant: what the disk claims, the pack has.
StateInv == TypeInv /\ Versioned /\ Folded /\ Laid /\ Blobs /\ Read /\ Real

LEMMA StateInit == Init => StateInv
<1> SUFFICES ASSUME Init PROVE StateInv
  OBVIOUS
<1>1. TypeInv
  BY TypeInit
<1>2. 0 <= 1 /\ 1 <= 1 /\ W = 0
  BY DEF Init, W
<1> QED BY <1>1, <1>2 DEF Init, StateInv, Versioned, Early, Mending, Fresh, Folded, Laid, Loaded, Blobs,
                      Read, Real

LEMMA StateInvariance ==
    ASSUME UpdateAtomic, Frozen, Distinct
    PROVE  Spec => []StateInv
<1>1. StateInv /\ [Next]_vars => StateInv'
  BY TypeStep, VersionedStep, FoldedStep, LaidStep, BlobsStep, ReadStep, RealStep DEF StateInv
<1> QED BY <1>1, StateInit, PTL DEF Spec

\* What the states have as fetched is in the pack, as planned, through any number of
\* sessions, kills and updates that keep the sizes.
THEOREM FetchedReal ==
    ASSUME UpdateAtomic, Frozen, Distinct
    PROVE  Spec => []FetchedIsReal
<1>1. StateInv => FetchedIsReal
  <2> SUFFICES ASSUME StateInv, Loaded, SizesKept, NEW i \in Assets, states[i] = "fetched"
               PROVE  Advertised(i) /\ block[i] = Planned(i).data
    BY DEF FetchedIsReal, Fetched
  <2>1. W = plan /\ plan # 0
    <3>1. plan # 0
      BY TypeParts, PlanFacts DEF StateInv, RunOK
    <3> QED BY <3>1 DEF W, Loaded
  <2>2. Kept(W)
    BY <2>1 DEF Kept, SizesKept
  <2> QED BY <2>1, <2>2 DEF StateInv, Real, StatesHold, Holds, Advertised, Planned
<1> QED BY <1>1, StateInvariance, PTL

-----------------------------------------------------------------------------
(***************************************************************************)
(* Nothing that was fetched is lost                                        *)
(***************************************************************************)
\* The pack proves asset i, whatever the states say of it.
Proof(i) ==
    entry[i] = Shape(W, i) /\ blob[i].size = Plans[W][i].size /\ block[i] = blob[i].data

\* The next boot has the asset as fetched: the disk claims it, or has nothing to say
\* of it and the pack proves it.
Keep(i) == Claim(i) \/ (Blank(i) /\ Proof(i))

\* The same, whatever the states are that the fold is about to write.
KeepOnce(i) ==
    LET n == Len(journal) IN
    \/ Marked(journal, i, n) \/ NeverReset(journal, i, n)
    \/ Wiped(journal, i, n) /\ Proof(i)

HadKept == ~Loaded => \A i \in had : Keep(i)
FetchedKept ==
    /\ (pc = "prepare" \/ Loaded) /\ pc # "folding" => \A i \in Fetched : Keep(i)
    /\ pc = "folding" => \A i \in Fetched : KeepOnce(i)
    /\ pc = "prepare" => had \subseteq Fetched

Remembered == W # 0 /\ Kept(W) => HadKept /\ FetchedKept

\* No write of the states is ever found torn.
NeverTorn == ~Mending /\ (statebin = Torn => pc = "folding")

LEMMA NeverTornStep ==
    ASSUME SaveAtomic, TypeInv, NeverTorn, [Next]_vars
    PROVE  NeverTorn'
<1>0. DbOK /\ RunOK
  BY TypeParts
<1> USE DEF Goto
<1>1. CASE Load
  BY <1>1 DEF Load, NeverTorn, Mending, db
<1>2. CASE TruncateStates
  BY <1>2 DEF TruncateStates, NeverTorn, Mending
<1>3. CASE SaveStates
  <2>1. statebin' # Torn
    BY <1>0, <1>3, StatesAreNoFile DEF SaveStates, DbOK
  <2> QED BY <1>3, <2>1 DEF SaveStates, NeverTorn, Mending
<1>4. CASE Publish \/ Boot \/ TruncatePlan \/ SavePlan \/ Replay \/ ReplayDone \/ Reset \/ Invalidate
           \/ DropBlob \/ DiffDone \/ Reconcile \/ Prepare \/ Fold \/ WriteEntry \/ WriteMark
           \/ \E i \in Assets : Download(i) \/ MissDownload(i) \/ WriteBlock(i) \/ Find(i) \/ MarkStub(i)
  <2>1. statebin' = statebin /\ pc # "folding" /\ pc' \notin {"folding", "rotate"}
        /\ (pc' = "fold" => after' # "replay")
    BY <1>4 DEF Publish, Boot, TruncatePlan, SavePlan, Replay, ReplayDone, Reset, Invalidate,
       DropBlob, DiffDone, Reconcile, Prepare, Fold, WriteEntry, WriteMark, Download, MissDownload,
       WriteBlock, Find, MarkStub, db, boot
  <2> QED BY <2>1 DEF NeverTorn, Mending
<1>5. CASE UNCHANGED vars \/ \E i \in Assets : ServeStub(i)
  BY <1>5 DEF vars, ServeStub, db, boot, NeverTorn, Mending
<1>6. CASE Rotate
  <2>1. statebin' = statebin /\ pc = "rotate" /\ pc' \in {"run", "replay", "off"}
    BY <1>0, <1>6 DEF Rotate, Gone, RunOK
  <2> QED BY <2>1 DEF NeverTorn, Mending
<1>7. CASE Crash
  <2>1. statebin' = statebin /\ pc # "folding" /\ pc' = "off"
    BY <1>7 DEF Crash, Gone, db
  <2> QED BY <2>1 DEF NeverTorn, Mending
<1> QED BY <1>1, <1>2, <1>3, <1>4, <1>5, <1>6, <1>7 DEF Next, Booting, Session, Folding

LEMMA SameKeep ==
    ASSUME NEW i, UNCHANGED <<statebin, journal>>, W' = W,
           entry'[i] = entry[i], block'[i] = block[i], blob'[i] = blob[i]
    PROVE  (Keep(i)' <=> Keep(i)) /\ (KeepOnce(i)' <=> KeepOnce(i))
<1>1. (Claim(i)' <=> Claim(i)) /\ (Blank(i)' <=> Blank(i))
  BY Untold
<1>2. Proof(i)' <=> Proof(i)
  BY DEF Proof
<1> QED BY <1>1, <1>2 DEF Keep, KeepOnce

LEMMA RememberedBoot ==
    ASSUME TypeInv, Versioned, Remembered, Boot
    PROVE  Remembered'
<1>0. DbOK
  BY TypeParts
<1>1. /\ UNCHANGED <<statebin, journal, entry, block, blob>> /\ pc = "off"
      /\ pc' \in {"load", "rebuild"} /\ planbin <= product
      /\ \/ plan' = planbin /\ planbin # 0 /\ had' = had
         \/ plan' = product /\ had' = IF planbin = 0 THEN {}
                                      ELSE {i \in had : Plans[planbin][i] = Plans[product][i]}
  BY <1>0, PlanFacts DEF Boot, db, store, pack, Goto, DbOK, Versioned
<1>2. W = planbin /\ W' = plan'
  BY <1>1 DEF W
<1>3. SUFFICES ASSUME plan' # 0, Kept(plan'), NEW i \in had' PROVE Keep(i)'
  BY <1>1, <1>2 DEF Remembered, HadKept, FetchedKept, Loaded
<1>4. CASE plan' = planbin /\ had' = had
  <2>1. Keep(i)
    BY <1>1, <1>2, <1>3, <1>4 DEF Remembered, HadKept, Loaded
  <2> QED BY <1>1, <1>2, <1>4, <2>1, SameKeep
<1>5. CASE /\ plan' = product /\ planbin # 0
           /\ had' = {j \in had : Plans[planbin][j] = Plans[product][j]}
  <2>1. planbin \in Versions /\ product \in Versions
    BY <1>0, <1>5 DEF DbOK
  <2>2. Kept(planbin) /\ Shape(planbin, i) = Shape(product, i)
    BY <1>1, <1>3, <1>5, <2>1, SameShapes
  <2>3. Keep(i) /\ Plans[planbin][i] = Plans[product][i]
    BY <1>1, <1>2, <1>3, <1>5, <2>2 DEF Remembered, HadKept, Loaded
  <2>4. (Claim(i)' <=> Claim(i)) /\ (Blank(i)' <=> Blank(i))
    BY <1>1, Untold
  <2>5. Proof(i)' <=> Proof(i)
    BY <1>1, <1>2, <1>5, <2>2, <2>3 DEF Proof
  <2> QED BY <2>3, <2>4, <2>5 DEF Keep
<1> QED BY <1>1, <1>3, <1>4, <1>5

LEMMA RememberedGone ==
    ASSUME SaveAtomic, UpdateAtomic, Distinct, TypeInv, Versioned, Folded, NeverTorn, Remembered,
           (Rotate /\ after = "off") \/ Crash
    PROVE  Remembered'
<1>1. /\ Gone /\ UNCHANGED <<planbin, statebin, entry, block, blob>> /\ pc' = "off"
      /\ W' = planbin /\ (planbin # 0 => planbin = plan /\ W = plan) /\ (Crash => journal' = journal)
  BY GoneKeeps DEF store, pack
<1>2. SUFFICES ASSUME planbin # 0, Kept(planbin), NEW i \in had' PROVE Keep(i)'
  BY <1>1 DEF Remembered, HadKept, FetchedKept, Loaded
<1>3. HadKept /\ FetchedKept
  BY <1>1, <1>2 DEF Remembered
<1>4. had' = IF Loaded THEN Fetched ELSE had
  BY <1>1 DEF Gone
<1>5. CASE Crash
  <2>1. pc # "folding"
    BY <1>5 DEF Crash
  <2>2. Keep(i)
    BY <1>2, <1>3, <1>4, <2>1 DEF HadKept, FetchedKept
  <2> QED BY <1>1, <1>2, <1>5, <2>2, SameKeep
<1>6. CASE Rotate /\ after = "off"
  <2>1. journal' = <<>> /\ statebin = states /\ Loaded /\ Saved' = Saved /\ Saved = states
    BY <1>1, <1>6, SavedStates DEF Rotate, Folded, Loaded, Saved
  <2>2. states[i] = "fetched"
    BY <1>2, <1>4, <2>1 DEF Fetched
  <2> QED BY <2>1, <2>2, NoRecord DEF Keep, Claim
<1> QED BY <1>5, <1>6

\* The boot up to the reconciliation.  What is reset was not kept from a session.
LEMMA RememberedEarly ==
    ASSUME TypeInv, Versioned, NeverTorn, Remembered,
           Load \/ Replay \/ ReplayDone \/ Reset \/ Invalidate \/ DropBlob \/ DiffDone
    PROVE  Remembered'
<1>0. PackOK /\ RunOK
  BY TypeParts
<1>1. W = plan /\ W' = plan /\ had' = had
  BY LateKeeps DEF Late
<1>2. ~Loaded /\ ~Loaded' /\ pc' \notin {"prepare", "folding"}
  BY DEF Load, Replay, ReplayDone, Reset, Invalidate, DropBlob, DiffDone, Goto, Loaded, boot, NeverTorn,
     Mending
<1>3. SUFFICES ASSUME W # 0, Kept(W), NEW i \in had PROVE Keep(i)'
  BY <1>1, <1>2 DEF Remembered, HadKept, FetchedKept
<1>4. Keep(i) /\ i \notin diff /\ i \in Assets
  <2>1. had \subseteq Assets
    BY TypeParts DEF DbOK
  <2> QED BY <1>2, <1>3, <2>1 DEF Remembered, HadKept, Versioned
<1>5. CASE Load \/ Replay \/ ReplayDone \/ DiffDone
  <2>1. UNCHANGED <<statebin, journal, entry, block, blob>>
    BY <1>5 DEF Load, Replay, ReplayDone, DiffDone, db, store, pack
  <2> QED BY <1>1, <1>4, <2>1, SameKeep
<1>6. CASE Reset \/ Invalidate \/ DropBlob
  <2>1. Min(diff) \in diff /\ Min(diff) \in Assets /\ statebin' = statebin
    BY <1>0, <1>6, FirstChanged DEF Reset, Invalidate, DropBlob, RunOK, db
  <2>2. entry'[i] = entry[i] /\ block'[i] = block[i] /\ blob'[i] = blob[i]
    BY <1>0, <1>4, <1>6, <2>1 DEF Reset, Invalidate, DropBlob, Deleted, PackOK, store, pack
  <2>3. (Claim(i)' <=> Claim(i)) /\ (Blank(i)' <=> Blank(i))
    <3>1. CASE Reset
      BY <1>4, <2>1, <3>1, Told DEF Reset
    <3>2. CASE Invalidate \/ DropBlob
      BY <2>1, <3>2, Untold DEF Invalidate, DropBlob, db
    <3> QED BY <1>6, <3>1, <3>2
  <2> QED BY <1>1, <1>4, <2>2, <2>3 DEF Keep, Proof
<1> QED BY <1>5, <1>6

\* What was kept is fetched again after the reconciliation.
LEMMA ReconcileFinds ==
    ASSUME TypeInv, Versioned, Read, Real, Remembered, Reconcile, Kept(plan)
    PROVE  /\ had \subseteq Fetched'
           /\ \A i \in Fetched' : Keep(i)
<1>0. DbOK
  BY TypeParts
<1>1. W = plan /\ plan # 0 /\ pc = "reconcile" /\ diff = {}
  BY LateKeeps DEF Late, Reconcile, Versioned, Early, Mending
<1>2. ASSUME NEW i \in Assets
      PROVE  states'[i] = IF states[i] = "fetched" /\ ~Advertised(i) THEN "pending"
                          ELSE IF states[i] = "pending" /\ Proven(i) THEN "fetched"
                          ELSE states[i]
  BY DEF Reconcile
<1>3. ASSUME NEW i \in Assets
      PROVE  /\ states[i] = "fetched" <=> Claim(i)
             /\ states[i] = "pending" <=> Blank(i)
             /\ Proven(i) <=> Proof(i)
             /\ Claim(i) => Advertised(i)
  <2>1. Claim(i) => Advertised(i)
    BY <1>1 DEF Real, ClaimsHold, Holds, Advertised
  <2> QED BY <1>1, <2>1 DEF Read, Proven, Proof, Advertised, Planned
<1>4. \A i \in had : i \in Assets /\ Keep(i)
  BY <1>0, <1>1 DEF Remembered, HadKept, Loaded, DbOK
<1>5. \A i \in had : states'[i] = "fetched"
  BY <1>2, <1>3, <1>4 DEF Keep
<1>6. \A i \in Assets : states'[i] = "fetched" => Keep(i)
  BY <1>2, <1>3 DEF Keep
<1> QED BY <1>4, <1>5, <1>6 DEF Fetched

LEMMA RememberedReconcile ==
    ASSUME TypeInv, Versioned, Read, Real, Remembered, Reconcile \/ Prepare, Laid
    PROVE  Remembered'
<1>1. W = plan /\ W' = plan /\ plan # 0 /\ plan' = plan /\ had' = had
  BY LateKeeps DEF Late
<1>2. SUFFICES ASSUME Kept(plan) PROVE HadKept' /\ FetchedKept'
  BY <1>1 DEF Remembered
<1>3. CASE Reconcile
  <2>1. UNCHANGED <<statebin, journal, entry, block, blob>> /\ pc = "reconcile" /\ pc' = "prepare"
    BY <1>3 DEF Reconcile, db, store, pack, Goto
  <2>2. \A i : Keep(i)' <=> Keep(i)
    BY <1>1, <2>1, SameKeep
  <2>3. HadKept
    BY <1>1, <1>2 DEF Remembered
  <2>4. had \subseteq Fetched' /\ \A i \in Fetched' : Keep(i)
    BY <1>2, <1>3, ReconcileFinds
  <2> QED BY <1>1, <2>1, <2>2, <2>3, <2>4 DEF HadKept, FetchedKept, Loaded
<1>4. CASE Prepare
  <2>1. UNCHANGED <<statebin, journal, blob, states>> /\ pc = "prepare" /\ pc' = "run"
    BY <1>4 DEF Prepare, db, Goto
  <2>2. ASSUME NEW i \in Assets, states[i] = "fetched" PROVE Keep(i)'
    <3>1. Holds(i) /\ Keep(i)
      BY <1>1, <1>2, <2>1, <2>2 DEF Real, StatesHold, Remembered, FetchedKept, Fetched
    <3>2. UNCHANGED <<entry, block>>
      BY <1>2, <1>4, <3>1, PrepareKeeps
    <3> QED BY <1>1, <2>1, <3>1, <3>2, SameKeep
  <2> QED BY <2>1, <2>2 DEF HadKept, FetchedKept, Loaded, Fetched
<1> QED BY <1>3, <1>4

\* The steps of a session, by the assets whose traces they change.
LEMMA RememberedSession ==
    ASSUME TypeInv, Versioned, Remembered, Session
    PROVE  Remembered'
<1>0. PackOK /\ DbOK /\ RunOK
  BY TypeParts
<1>1. W = plan /\ W' = plan /\ plan # 0 /\ plan \in Versions
  BY LateKeeps DEF Late
<1>2. /\ Loaded /\ Loaded' /\ pc' # "prepare" /\ (pc' = "folding" <=> pc = "folding")
  BY DEF Session, Download, MissDownload, WriteBlock, Find, ServeStub, MarkStub, WriteEntry, WriteMark,
     Goto, Loaded, boot
<1>3. SUFFICES ASSUME W # 0, Kept(W), NEW i \in Assets, states'[i] = "fetched"
               PROVE  /\ pc # "folding" => Keep(i)'
                      /\ pc = "folding" => KeepOnce(i)'
  BY <1>1, <1>2 DEF Remembered, HadKept, FetchedKept, Fetched
<1>4. states[i] = "fetched" => (pc # "folding" => Keep(i)) /\ (pc = "folding" => KeepOnce(i))
  BY <1>2, <1>3 DEF Remembered, FetchedKept, Fetched
<1>5. ASSUME NEW a \in Assets, Download(a) PROVE pc # "folding" /\ Keep(i)'
  <2>1. UNCHANGED <<statebin, journal, entry, block, states>> /\ pc = "run" /\ blob[a] = NoBlob
    BY <1>5 DEF Download, db, pack, session
  <2>2. CASE i = a
    <3>1. ~Proof(a)
      BY <1>1, <2>1, PlanFacts DEF Proof, NoBlob
    <3>2. Claim(a)'
      BY <1>3, <1>4, <2>1, <2>2, <3>1, Untold DEF Keep
    <3> QED BY <2>1, <2>2, <3>2 DEF Keep
  <2>3. CASE i # a
    <3>1. blob'[i] = blob[i]
      BY <1>0, <1>5, <2>3 DEF Download, PackOK
    <3> QED BY <1>1, <1>3, <1>4, <2>1, <3>1, SameKeep
  <2> QED BY <2>1, <2>2, <2>3
<1>6. ASSUME NEW a \in Assets, MissDownload(a) \/ Find(a) PROVE pc # "folding" /\ Keep(i)'
  <2>1. UNCHANGED <<statebin, journal, entry, block, blob, states>> /\ pc = "run"
    BY <1>6 DEF MissDownload, Find, db, store, pack
  <2> QED BY <1>1, <1>3, <1>4, <2>1, SameKeep
<1>7. ASSUME NEW a \in Assets, WriteBlock(a) PROVE pc # "folding" /\ Keep(i)'
  <2>1. UNCHANGED <<statebin, journal, entry, blob>> /\ pc = "run" /\ states[a] # "fetched"
    BY <1>7 DEF WriteBlock, db
  <2>2. i # a /\ states[i] = "fetched"
    <3>1. states' = states \/ states' = [states EXCEPT ![a] = "failed"]
      BY <1>7 DEF WriteBlock
    <3> QED BY <1>0, <1>3, <2>1, <3>1 DEF DbOK
  <2>3. block'[i] = block[i]
    BY <1>0, <1>7, <2>2 DEF WriteBlock, PackOK
  <2> QED BY <1>1, <1>4, <2>1, <2>2, <2>3, SameKeep
<1>8. CASE WriteEntry
  <2>1. /\ UNCHANGED <<statebin, journal, block, blob, states>> /\ pc = "entry"
        /\ entry'[i] = Shape(plan, i) \/ entry'[i] = entry[i]
    BY <1>0, <1>8 DEF WriteEntry, PackOK, db, session
  <2>2. (Claim(i)' <=> Claim(i)) /\ (Blank(i)' <=> Blank(i))
    BY <2>1, Untold
  <2>3. Proof(i) => Proof(i)'
    BY <1>1, <2>1 DEF Proof
  <2> QED BY <1>3, <1>4, <2>1, <2>2, <2>3 DEF Keep
<1>9. CASE WriteMark
  <2>1. /\ UNCHANGED <<statebin, entry, block, blob>> /\ pc = "mark" /\ writer \in Assets
        /\ journal' = Append(journal, <<"F", writer>>)
        /\ i # writer => states'[i] = states[i]
    BY <1>0, <1>9 DEF WriteMark, RunOK, DbOK, store, pack
  <2>2. CASE i = writer
    <3>1. Claim(i)'
      BY <2>1, <2>2, Told
    <3> QED BY <2>1, <3>1 DEF Keep
  <2>3. CASE i # writer
    <3>1. (Claim(i)' <=> Claim(i)) /\ (Blank(i)' <=> Blank(i))
      BY <2>1, <2>3, Told
    <3>2. Proof(i)' <=> Proof(i)
      BY <1>1, <2>1 DEF Proof
    <3> QED BY <1>3, <1>4, <2>1, <2>3, <3>1, <3>2 DEF Keep
  <2> QED BY <2>2, <2>3
<1>10. ASSUME NEW a \in Assets, ServeStub(a)
       PROVE  /\ pc # "folding" => Keep(i)'
              /\ pc = "folding" => KeepOnce(i)'
  <2>1. UNCHANGED <<statebin, journal, blob, states>> /\ states[a] # "fetched"
    BY <1>10 DEF ServeStub, db
  <2>2. entry'[i] = entry[i] /\ block'[i] = block[i]
    BY <1>0, <1>3, <1>10, <2>1 DEF ServeStub, PackOK
  <2> QED BY <1>1, <1>3, <1>4, <2>1, <2>2, SameKeep
<1>11. ASSUME NEW a \in Assets, MarkStub(a) PROVE pc # "folding" /\ Keep(i)'
  <2>1. UNCHANGED <<statebin, entry, block, blob>> /\ pc = "run"
    BY <1>11 DEF MarkStub, store, pack
  <2>2. CASE UNCHANGED <<states, journal>>
    BY <1>1, <1>3, <1>4, <2>1, <2>2, SameKeep
  <2>3. CASE /\ states' = [states EXCEPT ![a] = "stubbed"]
             /\ journal' = Append(journal, <<"B", a>>)
    <3>1. i # a /\ states[i] = "fetched"
      BY <1>0, <1>3, <2>3 DEF DbOK
    <3>2. (Claim(i)' <=> Claim(i)) /\ (Blank(i)' <=> Blank(i))
      BY <2>1, <2>3, <3>1, Told
    <3>3. Proof(i)' <=> Proof(i)
      BY <1>1, <2>1 DEF Proof
    <3> QED BY <1>4, <2>1, <3>1, <3>2, <3>3 DEF Keep
  <2> QED BY <1>11, <2>2, <2>3 DEF MarkStub
<1> QED BY <1>5, <1>6, <1>7, <1>8, <1>9, <1>10, <1>11 DEF Session

\* An asset that is kept is kept once, whatever the file of the states said.
LEMMA KeptOnce ==
    ASSUME TypeInv, NEW i, Keep(i)
    PROVE  KeepOnce(i)
<1>1. Len(journal) \in Nat
  BY TypeParts DEF DbOK
<1>2. CASE Claim(i)
  BY <1>2 DEF Claim, ClaimIn, KeepOnce
<1>3. CASE Blank(i) /\ Proof(i) /\ NeverSet(journal, i, Len(journal))
  <2>1. ASSUME ~NeverReset(journal, i, Len(journal)) PROVE Wiped(journal, i, Len(journal))
    <3>1. PICK k \in 1..Len(journal) : journal[k] = <<"R", i>>
      BY <2>1 DEF NeverReset
    <3>2. \A m \in (k+1)..Len(journal) : m \in 1..Len(journal)
      BY <1>1, <3>1
    <3> QED BY <1>3, <3>1, <3>2 DEF Wiped, NeverSet
  <2> QED BY <1>3, <2>1 DEF KeepOnce
<1>4. CASE Proof(i) /\ Wiped(journal, i, Len(journal))
  BY <1>4 DEF KeepOnce
<1> QED BY <1>2, <1>3, <1>4 DEF Keep, Blank, BlankIn

LEMMA RememberedFold ==
    ASSUME TypeInv, Versioned, Folded, NeverTorn, Remembered,
           Fold \/ TruncateStates \/ SaveStates \/ (Rotate /\ after # "off")
    PROVE  Remembered'
<1>0. DbOK /\ RunOK
  BY TypeParts
<1>1. W = plan /\ W' = plan
  BY LateKeeps DEF Late
<1>2. /\ Loaded /\ Loaded' /\ pc' # "prepare" /\ UNCHANGED <<states, entry, block, blob>>
      /\ pc = "folding" <=> SaveStates
      /\ pc' = "folding" <=> TruncateStates
  BY <1>0 DEF Fold, TruncateStates, SaveStates, Rotate, NeverTorn, Mending, Loaded, RunOK, Goto, session,
     store, pack
<1>3. SUFFICES ASSUME W # 0, Kept(W), NEW i \in Assets, states[i] = "fetched"
               PROVE  /\ ~TruncateStates => Keep(i)'
                      /\ TruncateStates => KeepOnce(i)'
  BY <1>1, <1>2 DEF Remembered, HadKept, FetchedKept, Fetched
<1>4. (pc # "folding" => Keep(i)) /\ (pc = "folding" => KeepOnce(i))
  BY <1>2, <1>3 DEF Remembered, FetchedKept, Fetched
<1>5. Proof(i)' <=> Proof(i)
  BY <1>1, <1>2 DEF Proof
<1>6. CASE Fold
  <2>1. UNCHANGED <<statebin, journal>> /\ ~TruncateStates /\ pc # "folding"
    BY <1>6 DEF Fold, db, TruncateStates
  <2> QED BY <1>1, <1>2, <1>4, <2>1, SameKeep
<1>7. CASE TruncateStates
  <2>1. journal' = journal /\ pc # "folding"
    BY <1>7 DEF TruncateStates
  <2>2. KeepOnce(i)
    BY <1>4, <2>1, KeptOnce
  <2> QED BY <1>5, <1>7, <2>1, <2>2 DEF KeepOnce
<1>8. CASE SaveStates
  <2>1. journal' = journal /\ pc = "folding" /\ ~TruncateStates
    BY <1>8 DEF SaveStates, TruncateStates
  <2>2. Saved' = states
    BY <1>0, <1>8, StatesAreNoFile DEF SaveStates, Saved, DbOK
  <2> QED BY <1>3, <1>4, <1>5, <2>1, <2>2 DEF KeepOnce, Keep, Claim, Blank, ClaimIn, BlankIn
<1>9. CASE Rotate
  <2>1. journal' = <<>> /\ ~TruncateStates
    BY <1>9 DEF Rotate, TruncateStates
  <2>2. Saved' = states
    BY <1>0, <1>9, StatesAreNoFile DEF Rotate, Saved, DbOK, Folded
  <2> QED BY <1>3, <2>1, <2>2, NoRecord DEF Keep, Claim
<1> QED BY <1>6, <1>7, <1>8, <1>9

LEMMA RememberedStep ==
    ASSUME SaveAtomic, UpdateAtomic, Distinct, TypeInv, Versioned, Folded, Laid, Read, Real,
           NeverTorn, Remembered, [Next]_vars
    PROVE  Remembered'
<1>1. CASE UNCHANGED vars \/ Publish \/ TruncatePlan \/ SavePlan
  <2>1. /\ UNCHANGED <<statebin, journal, entry, block, blob, states, had>> /\ W' = W
        /\ \/ pc' = pc /\ after' = after
           \/ pc \in {"rebuild", "saving"} /\ pc' \in {"saving", "load"}
    BY <1>1 DEF vars, Publish, TruncatePlan, SavePlan, db, store, pack, session, boot, Goto, W
  <2>2. \A i : (Keep(i)' <=> Keep(i)) /\ (KeepOnce(i)' <=> KeepOnce(i))
    BY <2>1, SameKeep
  <2> QED BY <2>1, <2>2 DEF Remembered, HadKept, FetchedKept, Loaded, Fetched
<1>2. CASE Boot
  BY <1>2, RememberedBoot
<1>3. CASE (Rotate /\ after = "off") \/ Crash
  BY <1>3, RememberedGone
<1>4. CASE Load \/ Replay \/ ReplayDone \/ Reset \/ Invalidate \/ DropBlob \/ DiffDone
  BY <1>4, RememberedEarly
<1>5. CASE Reconcile \/ Prepare
  BY <1>5, RememberedReconcile
<1>6. CASE Session
  BY <1>6, RememberedSession
<1>7. CASE Fold \/ TruncateStates \/ SaveStates \/ (Rotate /\ after # "off")
  BY <1>7, RememberedFold
<1> QED BY <1>1, <1>2, <1>3, <1>4, <1>5, <1>6, <1>7 DEF Next, Booting, Folding

LEMMA MemoryInvariance ==
    ASSUME SaveAtomic, UpdateAtomic, Frozen, Distinct
    PROVE  Spec => [](StateInv /\ NeverTorn /\ Remembered)
<1>1. Init => NeverTorn /\ Remembered
  BY DEF Init, NeverTorn, Mending, Remembered, W, None, Torn
<1>2. StateInv /\ NeverTorn /\ Remembered /\ [Next]_vars => NeverTorn' /\ Remembered'
  BY NeverTornStep, RememberedStep DEF StateInv
<1> QED BY <1>1, <1>2, StateInvariance, PTL DEF Spec

\* No boot loses what a session had fetched and the update did not change, wherever
\* the process was killed.
THEOREM NothingIsLost ==
    ASSUME SaveAtomic, UpdateAtomic, Frozen, Distinct
    PROVE  Spec => NothingLost
<1>1. ASSUME StateInv, Remembered, [Next]_vars, pc = "reconcile", pc' # "off", SizesKept
      PROVE  had \subseteq Fetched' \/ UNCHANGED vars
  <2>1. Reconcile \/ UNCHANGED vars
    <3>1. Crash => pc' = "off"
      BY DEF Crash, Gone
    <3> QED BY <1>1, <3>1 DEF Next, Publish, Boot, Booting, TruncatePlan, SavePlan, Load, Replay,
        ReplayDone, Reset, Invalidate, DropBlob, DiffDone, Prepare, Session, Download, MissDownload,
        WriteBlock, Find, ServeStub, MarkStub, WriteEntry, WriteMark, Fold, Folding, TruncateStates,
        SaveStates, Rotate
  <2>2. Kept(plan)
    BY <1>1 DEF Kept, SizesKept
  <2> QED BY <1>1, <2>1, <2>2, ReconcileFinds DEF StateInv
<1>2. StateInv /\ Remembered /\ [Next]_vars
        => [pc = "reconcile" /\ pc' # "off" /\ SizesKept => had \subseteq Fetched']_vars
  BY <1>1
<1> QED BY <1>2, MemoryInvariance, PTL DEF Spec, NothingLost

====
