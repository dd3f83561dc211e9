------------------------------ MODULE TrapProofs ------------------------------
(***************************************************************************)
(* What holds of a trapped mapping for any number of threads, pages and    *)
(* blocks, wherever its entry table lies, whichever mprotect and whichever *)
(* download fails.                                                         *)
(*                                                                         *)
(* The argument, in the order of the file.  The types: a thread that       *)
(* resolves holds a claim, so its block is one.  One resolver: claims are  *)
(* of absent blocks, and are in flight from then on.  So a commit finds    *)
(* its block absent on each of its pages, and the counts are exact: the    *)
(* pages that reach zero are those it flips.  The guards: only a fill and  *)
(* the patches of its records take one off before its page is marked, and  *)
(* a record is patched for a block that was stubbed.  Stubs are told of: a *)
(* stub that nobody reported is in the range of a thread that fills, or is *)
(* about to report, one that was is on its way to the state DB.  What the  *)
(* trap, the state DB or the entry table call there is in the file, as     *)
(* long as no stub fill runs beside another writer of its block.  A thread *)
(* alone leaves its range readable: what it attempted and lost it stubs.   *)
(* Last, the pins: no mapping goes under a resolution.                     *)
(***************************************************************************)
EXTENDS TrapMapping, TLAPS, FiniteSetTheorems, WellFoundedInduction

-----------------------------------------------------------------------------
(***************************************************************************)
(* The operators                                                           *)
(***************************************************************************)

\* Min returns the least element.  (The initial segments of the elements are
\* finite sets, and inclusion is well-founded on those.)
LEMMA MinOf ==
    ASSUME NEW S, S \subseteq Nat, S # {}
    PROVE  Min(S) \in S /\ \A x \in S : Min(S) <= x
<1> DEFINE I == {1..n : n \in S}
<1>1. I \subseteq FiniteSubsetsOf(Nat) /\ I # {}
  <2>1. \A n \in S : 1..n \in SUBSET Nat /\ IsFiniteSet(1..n)
    BY FS_Interval
  <2> QED BY <2>1 DEF FiniteSubsetsOf
<1>2. PICK i \in I : \A j \in I : <<j, i>> \notin StrictSubsetOrdering(Nat)
  <2> HIDE DEF I
  <2> QED BY <1>1, FS_StrictSubsetOrderingWellFounded, WFMin
<1>3. PICK n \in S : i = 1..n
  BY <1>2
<1>4. ASSUME NEW m \in S, m < n PROVE FALSE
  <2>1. 1..m \subseteq 1..n /\ n \in 1..n /\ n \notin 1..m
    BY <1>4
  <2>2. <<1..m, 1..n>> \in StrictSubsetOrdering(Nat)
    BY <2>1 DEF StrictSubsetOrdering
  <2> QED BY <2>2, <1>2, <1>3
<1>5. \A m \in S : n <= m
  BY <1>4
<1> QED BY <1>5 DEF Min

\* The blocks are finitely many, and a page has so many absent ones at most.
LEMMA SomeAbsent ==
    ASSUME NEW p
    PROVE  IsFiniteSet(Absent(p)) /\ Cardinality(Absent(p)) \in 0..NumBlocks
<1>1. IsFiniteSet(Blocks) /\ Cardinality(Blocks) = NumBlocks
  BY FS_Interval, TrapAssumption DEF Blocks
<1>2. Absent(p) \in SUBSET Blocks
  BY DEF Absent
<1> QED BY <1>1, <1>2, FS_Subset, FS_CardinalityType, TrapAssumption

-----------------------------------------------------------------------------
(***************************************************************************)
(* The steps: those of Trap, and the fault that is not the trap's.         *)
(***************************************************************************)
Chain(t) ==
    /\ At(t, "fault") /\ Goto(t, "chained")
    /\ UNCHANGED <<blocks, cover, epoch, disk, call>>

Steps == Next \/ \E t \in Threads : Chain(t)

\* A thread that resolves holds a claim, one that patches has a record to patch,
\* one that tells has something to tell.
Busy ==
    \A t \in Threads :
        /\ pc[t] \in Resolving => call[t].claim # {}
        /\ pc[t] \in {"patch", "close"} => call[t].patch # {}
        /\ pc[t] = "hook" => call[t].report # {}

TypeInv == TypeOK /\ Busy

LEMMA BlockOf ==
    ASSUME TypeInv, NEW t \in Threads, pc[t] \in Resolving
    PROVE  Block(t) \in call[t].claim /\ Block(t) \in Blocks
<1>1. call[t].claim \subseteq Blocks /\ call[t].claim # {}
  BY DEF TypeInv, TypeOK, Busy, Call
<1>2. call[t].claim \subseteq Nat
  BY <1>1 DEF Blocks
<1> QED BY <1>1, <1>2, MinOf DEF Block

LEMMA TypeInit == Init => TypeInv
<1> SUFFICES ASSUME Init PROVE TypeInv
  OBVIOUS
<1>1. PICK have \in (SUBSET Blocks) \ {Blocks} :
       /\ state = [b \in Blocks |-> IF b \in have THEN "present" ELSE "absent"]
       /\ entry = [b \in Blocks |-> IF b \in have THEN "real" ELSE "none"]
       /\ db = [b \in Blocks |-> IF b \in have THEN "fetched" ELSE "pending"]
       /\ real = UNION {Of(b) : b \in have}
  BY DEF Init
<1>2. 0 \in Epochs
  BY FS_CardinalityType, TrapAssumption DEF Epochs
<1>3. NoCall \in Call
  BY <1>2 DEF NoCall, Call
<1>4. pending \in [Pages -> 0..NumBlocks]
  BY SomeAbsent DEF Init
<1>5. real \subseteq Slices
  BY <1>1 DEF Slices
<1> QED BY <1>1, <1>2, <1>3, <1>4, <1>5, TrapAssumption DEF Init, TypeInv, TypeOK, Busy, Pc, Resolving

\* A thread goes on with a call of its own.
LEMMA ThreadMoves ==
    ASSUME TypeInv, NEW t \in Threads, NEW p \in Pc, NEW c \in Call,
           pc' = [pc EXCEPT ![t] = p], call' = [call EXCEPT ![t] = c],
           p \in Resolving => c.claim # {}, p \in {"patch", "close"} => c.patch # {},
           p = "hook" => c.report # {}
    PROVE  pc' \in [Threads -> Pc] /\ call' \in [Threads -> Call] /\ Busy'
<1>1. pc \in [Threads -> Pc] /\ call \in [Threads -> Call]
  BY DEF TypeInv, TypeOK
<1>2. pc' \in [Threads -> Pc] /\ call' \in [Threads -> Call]
  BY <1>1
<1>3. \A u \in Threads : pc'[u] = (IF u = t THEN p ELSE pc[u])
                         /\ call'[u] = (IF u = t THEN c ELSE call[u])
  BY <1>1
<1> QED BY <1>2, <1>3 DEF TypeInv, Busy

\* The rest of the types.
DataOK ==
    /\ state \in [Blocks -> {"absent", "inflight", "present"}]
    /\ attempt \in [Blocks -> Epochs]
    /\ stubbed \subseteq Blocks /\ reported \subseteq stubbed
    /\ page \in [Pages -> {"none", "real", "zeroed", "stubbed"}]
    /\ pending \in [Pages -> 0..NumBlocks]
    /\ guarded \subseteq Pages /\ stuck \subseteq Pages
    /\ epoch \in Epochs /\ failures \in 0..MaxFailures
    /\ real \subseteq Slices /\ stub \subseteq Slices
    /\ entry \in [Blocks -> {"none", "real", "stub"}]
    /\ db \in [Blocks -> {"pending", "fetched", "stubbed", "failed"}]
    /\ sweep \in 0..NumBlocks

LEMMA TypeParts ==
    TypeInv <=> DataOK /\ pc \in [Threads -> Pc] /\ call \in [Threads -> Call] /\ Busy
BY DEF TypeInv, TypeOK, DataOK

LEMMA TypePartsNext ==
    TypeInv' <=> DataOK' /\ pc' \in [Threads -> Pc] /\ call' \in [Threads -> Call] /\ Busy'
BY DEF TypeInv, TypeOK, DataOK

\* Where a thread needs neither a claim, nor a record, nor something to tell.
Calm == Pc \ {"ensure", "entry", "landed", "patch", "close", "hook"}

\* The steps that move a thread and its call, and no more than the epochs
\* beside.
LEMMA TypeMoves ==
    ASSUME TypeInv, NEW t \in Threads,
           \/ Touch(t) \/ Handle(t) \/ Resolve(t) \/ Begin(t) \/ ReadEpoch(t) \/ Check(t)
           \/ Doze(t) \/ Expire(t) \/ Return(t) \/ Chain(t) \/ Miss(t) \/ FillEnd(t)
    PROVE  TypeInv'
<1> USE DEF At, Enters, Goto
<1>0. DataOK /\ call[t] \in Call /\ call \in [Threads -> Call] /\ 0 \in Epochs
  BY FS_CardinalityType, TrapAssumption, TypeParts DEF Epochs
<1>a. ASSUME UNCHANGED <<blocks, cover, epoch, disk>> PROVE DataOK'
  BY <1>a, <1>0 DEF DataOK, blocks, cover, disk, file
<1>b. ASSUME NEW p \in Calm, pc' = [pc EXCEPT ![t] = p],
             NEW c \in Call, call' = [call EXCEPT ![t] = c], DataOK',
             p = "missing" => c.claim # {}
      PROVE  TypeInv'
  BY <1>b, ThreadMoves, TypePartsNext DEF Calm, Resolving
<1>1. CASE Touch(t)
  <2>1. PICK p \in guarded : call' = [call EXCEPT ![t].span = {p}, ![t].fault = TRUE]
    BY <1>1 DEF Touch
  <2>2. [call[t] EXCEPT !.span = {p}, !.fault = TRUE] \in Call
    BY <1>0 DEF Call, DataOK
  <2>3. call' = [call EXCEPT ![t] = [call[t] EXCEPT !.span = {p}, !.fault = TRUE]]
    BY <2>1
  <2>4. DataOK'
    BY <1>a, <1>1 DEF Touch
  <2>5. PICK c \in Call : call' = [call EXCEPT ![t] = c]
    BY <2>2, <2>3
  <2>6. "fault" \in Calm /\ pc' = [pc EXCEPT ![t] = "fault"]
    BY <1>1 DEF Touch, Calm, Pc
  <2> QED BY <2>4, <2>5, <2>6, <1>b
<1>2. CASE Handle(t) \/ Doze(t) \/ Chain(t) \/ Miss(t) \/ Expire(t) \/ FillEnd(t)
  <2>1. call' = [call EXCEPT ![t] = call[t]] /\ DataOK'
    BY <1>2, <1>0, <1>a DEF Handle, Doze, Chain, Miss, Expire, FillEnd
  <2>2. PICK p \in Calm : pc' = [pc EXCEPT ![t] = p]
    BY <1>2 DEF Handle, Doze, Chain, Miss, Expire, FillEnd, After, Calm, Pc
  <2>3. p = "missing" => call[t].claim # {}
    <3>1. CASE Miss(t)
      BY <3>1, <1>0 DEF Miss, TypeInv, Busy, Resolving
    <3>2. CASE ~Miss(t)
      <4>1. pc'[t] # "missing"
        BY <3>2, <1>2, TypeParts DEF Handle, Doze, Chain, Expire, FillEnd, After
      <4> QED BY <4>1, <2>2, TypeParts
    <3> QED BY <3>1, <3>2
  <2> QED BY <1>0, <2>1, <2>2, <2>3, <1>b
<1>3. CASE Resolve(t)
  <2>1. PICK S \in Ranges : call' = [call EXCEPT ![t].span = S]
    BY <1>3 DEF Resolve
  <2>2. [call[t] EXCEPT !.span = S] \in Call
    BY <1>0, TrapAssumption DEF Call
  <2>3. call' = [call EXCEPT ![t] = [call[t] EXCEPT !.span = S]]
    BY <2>1
  <2>4. DataOK'
    BY <1>a, <1>3 DEF Resolve
  <2>5. PICK c \in Call : call' = [call EXCEPT ![t] = c]
    BY <2>2, <2>3
  <2>6. "start" \in Calm /\ pc' = [pc EXCEPT ![t] = "start"]
    BY <1>3 DEF Resolve, Calm, Pc
  <2> QED BY <2>4, <2>5, <2>6, <1>b
<1>4. CASE Begin(t)
  <2>1. [call[t] EXCEPT !.lost = {}] \in Call
    BY <1>0 DEF Call
  <2>2. call' = [call EXCEPT ![t] = [call[t] EXCEPT !.lost = {}]]
    BY <1>4 DEF Begin
  <2>3. epoch' \in Epochs /\ attempt' \in [Blocks -> Epochs]
    BY <1>0, <1>4 DEF Begin, DataOK
  <2>4. DataOK'
    BY <1>0, <1>4, <2>3 DEF Begin, DataOK, cover, disk, file
  <2>5. PICK c \in Call : call' = [call EXCEPT ![t] = c]
    BY <2>1, <2>2
  <2>6. "epoch" \in Calm /\ pc' = [pc EXCEPT ![t] = "epoch"]
    BY <1>4 DEF Begin, Calm, Pc
  <2> QED BY <2>4, <2>5, <2>6, <1>b
<1>5. CASE ReadEpoch(t)
  <2>1. [call[t] EXCEPT !.mine = epoch] \in Call
    BY <1>0 DEF Call, DataOK
  <2>2. call' = [call EXCEPT ![t] = [call[t] EXCEPT !.mine = epoch]] /\ DataOK'
    BY <1>5, <1>a DEF ReadEpoch
  <2>3. PICK c \in Call : call' = [call EXCEPT ![t] = c]
    BY <2>1, <2>2
  <2>4. "claim" \in Calm /\ pc' = [pc EXCEPT ![t] = "claim"]
    BY <1>5 DEF ReadEpoch, Calm, Pc
  <2> QED BY <2>2, <2>3, <2>4, <1>b
<1>6. CASE Check(t)
  <2>1. [call[t] EXCEPT !.waited = FALSE] \in Call
    BY <1>0 DEF Call
  <2>2. call' = [call EXCEPT ![t] = [call[t] EXCEPT !.waited = FALSE]] /\ DataOK'
    BY <1>6, <1>a DEF Check
  <2>3. PICK p \in {"fill", "return", "wait"} : pc' = [pc EXCEPT ![t] = p]
    BY <1>6 DEF Check, After
  <2> QED BY <2>1, <2>2, <2>3, <1>b DEF Calm, Pc
<1>7. CASE Return(t)
  <2>1. NoCall \in Call
    BY <1>0 DEF NoCall, Call
  <2>2. DataOK'
    BY <1>7, <1>a DEF Return
  <2>3. PICK c \in {NoCall, call[t]}, p \in {"fault", "idle"} :
            call' = [call EXCEPT ![t] = c] /\ pc' = [pc EXCEPT ![t] = p]
    <3>1. call = [call EXCEPT ![t] = call[t]]
      BY <1>0
    <3> QED BY <1>7, <3>1 DEF Return
  <2> QED BY <1>0, <2>1, <2>2, <2>3, <1>b DEF Calm, Pc
<1> QED BY <1>1, <1>2, <1>3, <1>4, <1>5, <1>6, <1>7

LEMMA TypeClaim ==
    ASSUME TypeInv, NEW t \in Threads, Claim(t) PROVE TypeInv'
<1>0. DataOK /\ call[t] \in Call /\ call \in [Threads -> Call]
  BY TypeParts
<1> DEFINE first == First(Claimable(t))
           w == /\ first = {}
                /\ \E b \in Covering(call[t].span) : state[b] = "inflight"
<1>1. first \subseteq Blocks /\ w \in BOOLEAN
  BY DEF First, Claimable, Covering
<1>2. /\ state' = [b \in Blocks |-> IF b \in first THEN "inflight" ELSE state[b]]
      /\ call' = [call EXCEPT ![t].claim = first, ![t].waited = w]
      /\ pc' = [pc EXCEPT ![t] = IF first = {} THEN "check" ELSE "ensure"]
      /\ UNCHANGED <<attempt, stubbed, reported, cover, epoch, disk>>
  BY DEF Claim, Goto
<1> HIDE DEF first, w
<1>3. DataOK'
  BY <1>0, <1>2 DEF DataOK, cover, disk, file
<1>4. PICK c \in Call : call' = [call EXCEPT ![t] = c] /\ c.claim = first
  <2>1. [call[t] EXCEPT !.claim = first, !.waited = w] \in Call
    BY <1>0, <1>1 DEF Call
  <2>2. [call[t] EXCEPT !.claim = first, !.waited = w].claim = first
    BY <1>0 DEF Call
  <2> QED BY <1>2, <2>1, <2>2
<1>5. PICK p \in Pc : /\ pc' = [pc EXCEPT ![t] = p] /\ p \notin {"hook", "patch", "close"}
                      /\ p \in Resolving => first # {}
  BY <1>2 DEF Pc, Resolving
<1>6. /\ p \in Resolving => c.claim # {}
      /\ p \in {"patch", "close"} => c.patch # {}
      /\ p = "hook" => c.report # {}
  BY <1>4, <1>5
<1>7. pc' \in [Threads -> Pc] /\ call' \in [Threads -> Call] /\ Busy'
  BY <1>4, <1>5, <1>6, ThreadMoves
<1> QED BY <1>3, <1>7, TypePartsNext

\* The steps of phase 2.
LEMMA TypeStores ==
    ASSUME TypeInv, NEW t \in Threads,
           Spoil(t) \/ Find(t) \/ WriteBlock(t) \/ WriteEntry(t)
    PROVE  TypeInv'
<1>0. DataOK /\ call[t] \in Call /\ call \in [Threads -> Call]
  BY TypeParts
<1>1. pc[t] \in Resolving /\ UNCHANGED call
  BY DEF Spoil, Find, WriteBlock, WriteEntry, At, Enters, Resolving
<1>2. Block(t) \in Blocks /\ call[t].claim # {}
  BY <1>1, BlockOf
<1>3. Of(Block(t)) \subseteq Slices
  BY <1>2 DEF Slices
<1>4. PICK p \in Pc \ {"hook", "patch", "close"} : pc' = [pc EXCEPT ![t] = p]
  BY DEF Spoil, Find, WriteBlock, WriteEntry, Goto, Pc
<1>5. DataOK'
  <2>1. CASE Spoil(t)
    BY <1>0, <1>2, <2>1 DEF Spoil, DataOK, blocks, cover, file
  <2>2. CASE Find(t)
    BY <1>0, <2>2 DEF Find, DataOK, blocks, cover, disk, file
  <2>3. CASE WriteBlock(t)
    BY <1>0, <1>3, <2>3 DEF WriteBlock, Write, DataOK, blocks, cover
  <2>4. CASE WriteEntry(t)
    BY <1>0, <1>2, <2>4 DEF WriteEntry, DataOK, blocks, cover
  <2> QED BY <2>1, <2>2, <2>3, <2>4
<1>6. call' = [call EXCEPT ![t] = call[t]]
  BY <1>0, <1>1
<1> QED BY <1>0, <1>2, <1>4, <1>5, <1>6, ThreadMoves, TypePartsNext

LEMMA TypeSweep ==
    ASSUME TypeInv, (\E b \in Listed : SweepBlock(b)) \/ SweepEntry
    PROVE  TypeInv'
<1>0. DataOK
  BY TypeParts
<1>1. UNCHANGED <<pc, call>>
  BY DEF SweepBlock, SweepEntry
<1>2. DataOK'
  <2>1. ASSUME NEW b \in Listed, SweepBlock(b) PROVE DataOK'
    <3>1. b \in Blocks /\ b \in 0..NumBlocks
      BY TrapAssumption DEF Blocks
    <3>2. Of(b) \subseteq Slices
      BY <3>1 DEF Slices
    <3> QED BY <1>0, <2>1, <3>1, <3>2 DEF SweepBlock, Write, DataOK, blocks, cover
  <2>2. ASSUME SweepEntry PROVE DataOK'
    <3>1. sweep \in Blocks /\ 0 \in 0..NumBlocks
      BY <1>0, <2>2, TrapAssumption DEF SweepEntry, DataOK, Blocks
    <3> QED BY <1>0, <2>2, <3>1 DEF SweepEntry, DataOK, blocks, cover
  <2> QED BY <2>1, <2>2
<1>3. Busy'
  BY <1>1 DEF TypeInv, Busy
<1> QED BY <1>1, <1>2, <1>3, TypeParts, TypePartsNext

\* A commit moves the thread, and the sleepers to another look.
LEMMA CommitMoves ==
    ASSUME TypeInv, NEW t \in Threads, At(t, "landed") \/ At(t, "missing"), Committed(t)
    PROVE  pc' \in [Threads -> Pc] /\ call' \in [Threads -> Call] /\ Busy'
<1>0. call[t] \in Call /\ call \in [Threads -> Call] /\ pc \in [Threads -> Pc]
  BY TypeParts
<1>1. Block(t) \in Blocks /\ Block(t) \in call[t].claim
  BY BlockOf DEF At, Enters, Resolving
<1>2. PICK l \in SUBSET Blocks :
         call' = [call EXCEPT ![t].claim = @ \ {Block(t)}, ![t].lost = l]
  BY <1>0, <1>1 DEF Committed, Call
<1>3. PICK c \in Call : call' = [call EXCEPT ![t] = c] /\ c.claim = call[t].claim \ {Block(t)}
  <2> DEFINE d == [call[t] EXCEPT !.claim = @ \ {Block(t)}, !.lost = l]
  <2>1. d \in Call /\ d.claim = call[t].claim \ {Block(t)}
    BY <1>0 DEF Call
  <2> QED BY <1>2, <2>1
<1>4. \A u \in Threads : call'[u] = IF u = t THEN c ELSE call[u]
  BY <1>0, <1>3
<1>5. /\ pc' \in [Threads -> Pc]
      /\ \A u \in Threads : u # t => pc'[u] = pc[u] \/ pc'[u] = "claim"
      /\ pc'[t] = IF call[t].claim = {Block(t)} THEN "claim" ELSE "ensure"
  BY <1>0 DEF Committed, Woken, Pc
<1>6. Busy'
  BY <1>1, <1>3, <1>4, <1>5 DEF TypeInv, Busy, Resolving
<1> QED BY <1>0, <1>3, <1>5, <1>6

\* The calls that fail, fail within the bound.
LEMMA Failing ==
    ASSUME TypeInv, NEW S, S \subseteq Pages, NEW bad \in MayFail(S)
    PROVE  /\ IsFiniteSet(bad) /\ Cardinality(bad) \in Nat
           /\ failures + Cardinality(bad) \in 0..MaxFailures
<1>1. IsFiniteSet(Pages)
  BY FS_Interval, TrapAssumption DEF Pages
<1>2. bad \subseteq Pages /\ Cardinality(bad) + failures <= MaxFailures
  BY DEF MayFail
<1>3. IsFiniteSet(bad) /\ Cardinality(bad) \in Nat
  BY <1>1, <1>2, FS_Subset, FS_CardinalityType
<1> QED BY <1>2, <1>3, TrapAssumption DEF TypeInv, TypeOK

LEMMA TypeCommit ==
    ASSUME TypeInv, NEW t \in Threads, Commit(t) \/ GiveUp(t)
    PROVE  TypeInv'
<1>0. DataOK /\ call[t] \in Call
  BY TypeParts
<1>1. pc' \in [Threads -> Pc] /\ call' \in [Threads -> Call] /\ Busy'
  BY CommitMoves DEF Commit, GiveUp, At, Enters
<1>2. Block(t) \in Blocks
  BY BlockOf DEF Commit, GiveUp, At, Enters, Resolving
<1>3. CASE GiveUp(t)
  <2>1. DataOK'
    BY <1>0, <1>2, <1>3 DEF GiveUp, DataOK, Call, cover, disk, file
  <2> QED BY <1>1, <2>1, TypePartsNext
<1>4. CASE Commit(t)
  <2> DEFINE b == Block(t)
  <2>1. Flips(b) \subseteq Pages
    BY <1>2, TrapAssumption DEF Flips
  <2>2. PICK bad \in MayFail(Flips(b)) :
          /\ page' = [p \in Pages |-> IF p \in Marked(Flips(b), bad) THEN "real" ELSE page[p]]
          /\ stuck' = stuck \ Marked(Flips(b), bad)
          /\ guarded' = guarded \ (Flips(b) \ bad)
          /\ failures' = failures + Cardinality(bad)
    BY <1>4 DEF Commit
  <2>3. failures' \in 0..MaxFailures
    BY <2>1, <2>2, Failing
  <2>4. pending' \in [Pages -> 0..NumBlocks]
    BY <1>0, <1>4, TrapAssumption DEF Commit, Counted, DataOK
  <2>5. page' \in [Pages -> {"none", "real", "zeroed", "stubbed"}]
    BY <1>0, <2>2 DEF DataOK
  <2>6. state' \in [Blocks -> {"absent", "inflight", "present"}]
    BY <1>0, <1>2, <1>4 DEF Commit, DataOK
  <2>7. guarded' \subseteq Pages /\ stuck' \subseteq Pages
    BY <1>0, <2>2 DEF DataOK
  <2>8. UNCHANGED <<attempt, stubbed, reported, epoch, real, stub, entry, db, sweep>>
    BY <1>4 DEF Commit, disk, file
  <2>9. DataOK'
    BY <1>0, <2>3, <2>4, <2>5, <2>6, <2>7, <2>8 DEF DataOK
  <2> QED BY <1>1, <2>9, TypePartsNext
<1> QED BY <1>3, <1>4

\* A fill of a page: which slices it may write, which blocks it may flag, and
\* that it leaves no guard on a page that is not marked.
LEMMA FillParts ==
    ASSUME TypeInv, NEW t \in Threads, Fill(t)
    PROVE  \E p \in Todo(t) :
             /\ p \in Pages
             /\ \E s \in SUBSET ((Unfilled(p) \cap Stubbable) \X {p}) :
                   real' = real \ s /\ stub' = stub \cup s
             /\ \E new \in SUBSET Unfilled(p) : stubbed' = stubbed \cup new
             /\ \E mark \in {"zeroed", "stubbed"} : page' = [page EXCEPT ![p] = mark]
             /\ guarded' = guarded \ {p} \/ (guarded' = guarded /\ p \in stuck')
             /\ stuck \subseteq stuck' /\ stuck' \subseteq Pages
             /\ failures' \in 0..MaxFailures /\ failures <= failures'
             /\ \E c \in Call : \E there \in {"filling", "patch"} :
                   /\ call' = [call EXCEPT ![t] = c] /\ pc' = [pc EXCEPT ![t] = there]
                   /\ c.span = call[t].span /\ c.patch \subseteq call[t].patch \cup stubbed'
                   /\ there = "patch" => c.patch # {}
<1>0. DataOK /\ call[t] \in Call /\ call \in [Threads -> Call] /\ failures \in Nat
  BY TrapAssumption, TypeParts DEF DataOK
<1>1. Todo(t) \subseteq Pages /\ Todo(t) \subseteq Nat /\ Todo(t) # {}
  BY <1>0 DEF Fill, Todo, Call, Pages
<1>2. PICK p \in Todo(t) : p = Min(Todo(t))
  BY <1>1, MinOf
<1>3. p \in Pages /\ Unfilled(p) \subseteq Blocks
  BY <1>1 DEF Unfilled, Absent
<1>4. FillPage(t, p) \/ FillSlow(t, p) \/ FillShut(t, p)
  BY <1>2 DEF Fill
<1>5. \E s \in SUBSET ((Unfilled(p) \cap Stubbable) \X {p}) : real' = real \ s /\ stub' = stub \cup s
  <2>1. CASE FillShut(t, p)
    <3>1. {} \in SUBSET ((Unfilled(p) \cap Stubbable) \X {p}) /\ real' = real \ {} /\ stub' = stub \cup {}
      BY <2>1 DEF FillShut
    <3> QED BY <3>1
  <2>2. CASE ~FillShut(t, p)
    BY <1>4, <2>2 DEF FillPage, FillSlow, Serve
  <2> QED BY <2>1, <2>2
<1>6. \E new \in SUBSET Unfilled(p) : stubbed' = stubbed \cup new
  <2>1. CASE FillShut(t, p)
    <3>1. {} \in SUBSET Unfilled(p) /\ stubbed' = stubbed \cup {}
      BY <2>1 DEF FillShut
    <3> QED BY <3>1
  <2>2. CASE ~FillShut(t, p)
    BY <1>4, <2>2 DEF FillPage, FillSlow, Serve
  <2> QED BY <2>1, <2>2
<1>7. \E mark \in {"zeroed", "stubbed"} : page' = [page EXCEPT ![p] = mark]
  BY <1>4 DEF FillPage, FillSlow, FillShut
<1>8. /\ guarded' = guarded \ {p} \/ (guarded' = guarded /\ p \in stuck')
      /\ stuck \subseteq stuck' /\ stuck' \subseteq Pages
  BY <1>0, <1>3, <1>4 DEF FillPage, FillSlow, FillShut, Serve, DataOK
<1>9. failures' \in 0..MaxFailures /\ failures <= failures'
  BY <1>0, <1>4, TrapAssumption DEF FillPage, FillSlow, FillShut, DataOK
<1>10. \E c \in Call : \E there \in {"filling", "patch"} :
          /\ call' = [call EXCEPT ![t] = c] /\ pc' = [pc EXCEPT ![t] = there]
          /\ c.span = call[t].span /\ c.patch \subseteq call[t].patch \cup stubbed'
          /\ there = "patch" => c.patch # {}
  <2>1. CASE FillPage(t, p)
    <3> DEFINE served == Unfilled(p) \cap Stubbable
               patch == {b \in First(served) : Record[b] # {}}
               c == [call[t] EXCEPT !.patch = patch]
    <3>1. patch \subseteq served
      BY DEF First
    <3>2. stubbed' = stubbed \cup Unfilled(p)
      BY <2>1 DEF FillPage, Serve
    <3>3. /\ call' = [call EXCEPT ![t].patch = patch]
          /\ pc' = [pc EXCEPT ![t] = IF patch = {} THEN "filling" ELSE "patch"]
      BY <2>1 DEF FillPage, Goto
    <3> HIDE DEF patch
    <3>4. c \in Call /\ c.span = call[t].span /\ c.patch = patch
      BY <1>0, <1>3, <3>1 DEF Call
    <3>5. call' = [call EXCEPT ![t] = c]
      BY <1>0, <3>3
    <3>6. PICK there \in {"filling", "patch"} :
             pc' = [pc EXCEPT ![t] = there] /\ (there = "patch" => patch # {})
      BY <3>3
    <3> HIDE DEF c
    <3> QED BY <3>1, <3>2, <3>4, <3>5, <3>6
  <2>2. CASE FillSlow(t, p) \/ FillShut(t, p)
    <3>1. call' = [call EXCEPT ![t] = call[t]] /\ pc' = [pc EXCEPT ![t] = "filling"]
      BY <1>0, <2>2 DEF FillSlow, FillShut, Goto
    <3> QED BY <1>0, <3>1
  <2> QED BY <1>4, <2>1, <2>2
<1> QED BY <1>3, <1>5, <1>6, <1>7, <1>8, <1>9, <1>10

LEMMA TypeFill ==
    ASSUME TypeInv, NEW t \in Threads, Fill(t) PROVE TypeInv'
<1>0. DataOK /\ call[t] \in Call /\ call \in [Threads -> Call]
  BY TypeParts
<1>1. PICK p \in Todo(t) :
             /\ p \in Pages
             /\ \E s \in SUBSET ((Unfilled(p) \cap Stubbable) \X {p}) :
                   real' = real \ s /\ stub' = stub \cup s
             /\ \E new \in SUBSET Unfilled(p) : stubbed' = stubbed \cup new
             /\ \E mark \in {"zeroed", "stubbed"} : page' = [page EXCEPT ![p] = mark]
             /\ guarded' = guarded \ {p} \/ guarded' = guarded
             /\ stuck' \subseteq Pages /\ failures' \in 0..MaxFailures
             /\ \E c \in Call : \E there \in {"filling", "patch"} :
                   /\ call' = [call EXCEPT ![t] = c] /\ pc' = [pc EXCEPT ![t] = there]
                   /\ there = "patch" => c.patch # {}
  BY FillParts
<1>2. (Unfilled(p) \cap Stubbable) \X {p} \subseteq Slices
  BY DEF Unfilled, Absent, Slices, Of
<1>3. real' \subseteq Slices /\ stub' \subseteq Slices
  BY <1>0, <1>1, <1>2 DEF DataOK
<1>4. stubbed' \subseteq Blocks /\ reported' \subseteq stubbed'
  BY <1>0, <1>1 DEF Fill, Unfilled, Absent, DataOK
<1>5. page' \in [Pages -> {"none", "real", "zeroed", "stubbed"}]
  BY <1>0, <1>1 DEF DataOK
<1>6. guarded' \subseteq Pages
  BY <1>0, <1>1 DEF DataOK
<1>7. UNCHANGED <<state, attempt, reported, pending, epoch, entry, db, sweep>>
  BY DEF Fill
<1>8. DataOK'
  BY <1>0, <1>1, <1>3, <1>4, <1>5, <1>6, <1>7 DEF DataOK
<1>9. PICK c \in Call, there \in {"filling", "patch"} :
          /\ call' = [call EXCEPT ![t] = c] /\ pc' = [pc EXCEPT ![t] = there]
          /\ there = "patch" => c.patch # {}
  BY <1>1
<1>10. there \in Pc /\ there \notin Resolving
  BY DEF Pc, Resolving
<1>11. pc' \in [Threads -> Pc] /\ call' \in [Threads -> Call] /\ Busy'
  BY <1>9, <1>10, ThreadMoves
<1> QED BY <1>8, <1>11, TypePartsNext

\* A step of a patch: it touches no page's mark and no byte.
LEMMA PatchParts ==
    ASSUME TypeInv, NEW t \in Threads, Patch(t)
    PROVE  /\ pc[t] \in {"patch", "close"}
           /\ Patching(t) \in call[t].patch /\ Patching(t) \in Blocks
           /\ UNCHANGED <<blocks, page, pending, stuck, epoch, real, stub, db, sweep>>
           /\ entry' = entry \/ entry' = [entry EXCEPT ![Patching(t)] = "stub"]
           /\ guarded' \subseteq Pages
           /\ failures' \in 0..MaxFailures /\ failures <= failures'
           /\ \E c \in Call : \E there \in Filling :
                 /\ call' = [call EXCEPT ![t] = c] /\ pc' = [pc EXCEPT ![t] = there]
                 /\ c.span = call[t].span /\ c.patch \subseteq call[t].patch
                 /\ there \in {"patch", "close"} => c.patch # {}
<1>0. DataOK /\ call[t] \in Call /\ call \in [Threads -> Call] /\ failures \in Nat
  BY TrapAssumption, TypeParts DEF DataOK
<1>1. pc[t] \in {"patch", "close"}
  BY DEF Patch, PatchOpen, PatchFail, PatchClose, At
<1>2. Patching(t) \in call[t].patch /\ Patching(t) \in Blocks
  <2>1. call[t].patch # {} /\ call[t].patch \subseteq Blocks /\ call[t].patch \subseteq Nat
    BY <1>0, <1>1 DEF TypeInv, Busy, Call, Blocks
  <2> QED BY <2>1, MinOf DEF Patching
<1>3. ASSUME NextPatch(t)
      PROVE  \E c \in Call : \E there \in Filling :
                /\ call' = [call EXCEPT ![t] = c] /\ pc' = [pc EXCEPT ![t] = there]
                /\ c.span = call[t].span /\ c.patch \subseteq call[t].patch
                /\ there \in {"patch", "close"} => c.patch # {}
  <2> DEFINE c == [call[t] EXCEPT !.patch = call[t].patch \ {Patching(t)}]
  <2>1. c \in Call /\ c.span = call[t].span /\ c.patch = call[t].patch \ {Patching(t)}
    BY <1>0 DEF Call
  <2>2. call' = [call EXCEPT ![t] = c]
    BY <1>0, <1>3 DEF NextPatch
  <2>3. pc' = [pc EXCEPT ![t] = IF call[t].patch = {Patching(t)} THEN "filling" ELSE "patch"]
    BY <1>3 DEF NextPatch, Goto
  <2>4. PICK there \in Filling :
           /\ pc' = [pc EXCEPT ![t] = there] /\ there # "close"
           /\ there = "patch" => call[t].patch # {Patching(t)}
    BY <2>3 DEF Filling
  <2>5. there \in {"patch", "close"} => c.patch # {}
    BY <1>2, <2>1, <2>4
  <2>6. c.patch \subseteq call[t].patch
    BY <2>1
  <2> HIDE DEF c
  <2> QED BY <2>1, <2>2, <2>4, <2>5, <2>6
<1>4. CASE PatchOpen(t)
  <2>1. call' = [call EXCEPT ![t] = call[t]] /\ pc' = [pc EXCEPT ![t] = "close"]
    BY <1>0, <1>4 DEF PatchOpen, Goto
  <2>2. guarded' \subseteq Pages /\ failures' = failures
    BY <1>0, <1>4 DEF PatchOpen, DataOK
  <2> QED BY <1>0, <1>1, <1>2, <1>4, <2>1, <2>2 DEF PatchOpen, Patch, Filling, DataOK
<1>5. CASE PatchFail(t)
  <2>1. guarded' \subseteq Pages
    BY <1>0, <1>5 DEF PatchFail, DataOK
  <2>2. failures' \in 0..MaxFailures /\ failures <= failures'
    BY <1>0, <1>5, TrapAssumption DEF PatchFail, DataOK
  <2>3. NextPatch(t) /\ UNCHANGED <<blocks, page, pending, stuck, epoch, real, stub, db, sweep, entry>>
    BY <1>5 DEF PatchFail, Patch
  <2> QED BY <1>1, <1>2, <1>3, <2>1, <2>2, <2>3
<1>6. CASE PatchClose(t)
  <2>1. PICK bad \in MayFail(Unguarded(Patching(t))) :
          /\ guarded' = guarded \cup (Unguarded(Patching(t)) \ bad)
          /\ failures' = failures + Cardinality(bad)
    BY <1>6 DEF PatchClose
  <2>2. Unguarded(Patching(t)) \subseteq Pages
    BY DEF Unguarded
  <2>3. guarded' \subseteq Pages
    BY <1>0, <2>1, <2>2 DEF DataOK
  <2>4. Cardinality(bad) \in Nat /\ failures + Cardinality(bad) \in 0..MaxFailures
    BY <2>2, Failing
  <2>5. failures' \in 0..MaxFailures /\ failures <= failures'
    BY <1>0, <2>1, <2>4
  <2>6. NextPatch(t) /\ UNCHANGED <<blocks, page, pending, stuck, epoch, real, stub, db, sweep, entry>>
    BY <1>6 DEF PatchClose, Patch
  <2> QED BY <1>1, <1>2, <1>3, <2>3, <2>5, <2>6
<1> QED BY <1>4, <1>5, <1>6 DEF Patch

LEMMA TypePatch ==
    ASSUME TypeInv, NEW t \in Threads, Patch(t) PROVE TypeInv'
<1>0. DataOK
  BY TypeParts
<1>1. /\ UNCHANGED <<blocks, page, pending, stuck, epoch, real, stub, db, sweep>>
      /\ entry' = entry \/ entry' = [entry EXCEPT ![Patching(t)] = "stub"]
      /\ guarded' \subseteq Pages /\ failures' \in 0..MaxFailures
  BY PatchParts
<1>2. DataOK'
  BY <1>0, <1>1 DEF DataOK, blocks
<1>3. PICK c \in Call, there \in Filling :
          /\ call' = [call EXCEPT ![t] = c] /\ pc' = [pc EXCEPT ![t] = there]
          /\ there \in {"patch", "close"} => c.patch # {}
  BY PatchParts
<1>4. there \in Pc /\ there \notin Resolving /\ there # "hook"
  BY DEF Filling, Pc, Resolving
<1>5. pc' \in [Threads -> Pc] /\ call' \in [Threads -> Call] /\ Busy'
  BY <1>3, <1>4, ThreadMoves
<1> QED BY <1>2, <1>5, TypePartsNext

LEMMA TypeReport ==
    ASSUME TypeInv, NEW t \in Threads, Report(t) PROVE TypeInv'
<1>0. DataOK /\ call[t] \in Call /\ call \in [Threads -> Call]
  BY TypeParts
<1>1. Untold(t) \subseteq stubbed
  BY DEF Untold
<1>2. PICK c \in Call : call' = [call EXCEPT ![t] = c] /\ c.report = Untold(t)
  <2>1. [call[t] EXCEPT !.report = Untold(t)] \in Call
    BY <1>0, <1>1 DEF Call, DataOK
  <2>2. [call[t] EXCEPT !.report = Untold(t)].report = Untold(t)
    BY <1>0 DEF Call
  <2> QED BY <2>1, <2>2 DEF Report
<1>3. DataOK'
  BY <1>0, <1>1 DEF Report, DataOK, cover, disk, file
<1>4. PICK p \in Pc : /\ pc' = [pc EXCEPT ![t] = p]
                      /\ p \notin Resolving \cup {"patch", "close"}
                      /\ p = "hook" => Untold(t) # {}
  BY DEF Report, Goto, Pc, Resolving
<1>5. pc' \in [Threads -> Pc] /\ call' \in [Threads -> Call] /\ Busy'
  BY <1>2, <1>4, ThreadMoves
<1> QED BY <1>3, <1>5, TypePartsNext

LEMMA TypeHook ==
    ASSUME TypeInv, NEW t \in Threads, Hook(t) PROVE TypeInv'
<1>0. DataOK /\ call[t] \in Call /\ call \in [Threads -> Call] /\ call[t].report # {}
  BY TypeParts DEF Hook, At, Enters, Busy
<1> DEFINE b == Min(call[t].report)
<1>1. b \in call[t].report /\ b \in Blocks
  <2>1. call[t].report \subseteq Blocks /\ call[t].report \subseteq Nat
    BY <1>0 DEF Call, Blocks
  <2> QED BY <1>0, <2>1, MinOf
<1>2. PICK c \in Call : call' = [call EXCEPT ![t] = c] /\ c.report = call[t].report \ {b}
  <2> DEFINE d == [call[t] EXCEPT !.report = @ \ {b}]
  <2>1. d \in Call /\ d.report = call[t].report \ {b}
    BY <1>0 DEF Call
  <2>2. call' = [call EXCEPT ![t] = d]
    BY DEF Hook
  <2> QED BY <2>1, <2>2
<1>3. DataOK'
  BY <1>0, <1>1 DEF Hook, Mark, DataOK, blocks, cover, file
<1>4. PICK p \in Pc : /\ pc' = [pc EXCEPT ![t] = p]
                      /\ p \notin Resolving \cup {"patch", "close"}
                      /\ p = "hook" => call[t].report # {b}
  BY DEF Hook, Goto, Pc, Resolving
<1>5. p = "hook" => c.report # {}
  BY <1>1, <1>2, <1>4
<1>6. pc' \in [Threads -> Pc] /\ call' \in [Threads -> Call] /\ Busy'
  BY <1>2, <1>4, <1>5, ThreadMoves
<1> QED BY <1>3, <1>6, TypePartsNext

LEMMA TypeStep == TypeInv /\ [Steps]_vars => TypeInv'
<1> SUFFICES ASSUME TypeInv, [Steps]_vars PROVE TypeInv'
  OBVIOUS
<1>1. CASE UNCHANGED vars
  BY <1>1 DEF TypeInv, TypeOK, Busy, Absent, vars, blocks, cover, disk, file
<1>2. ASSUME NEW t \in Threads, Touch(t) \/ Resolve(t) \/ Thread(t) \/ Chain(t)
      PROVE  TypeInv'
  BY <1>2, TypeMoves, TypeClaim, TypeStores, TypeCommit, TypeFill, TypePatch, TypeReport, TypeHook
     DEF Thread
<1>3. CASE (\E b \in Listed : SweepBlock(b)) \/ SweepEntry
  BY <1>3, TypeSweep
<1> QED BY <1>1, <1>2, <1>3 DEF Steps, Next

-----------------------------------------------------------------------------
(***************************************************************************)
(* One resolver                                                            *)
(***************************************************************************)

\* A step of a thread.
Moves(t) == Touch(t) \/ Resolve(t) \/ Thread(t) \/ Chain(t)

\* It leaves the calls of the others alone, and wakes them at most.
LEMMA Others ==
    ASSUME TypeInv, NEW t \in Threads, Moves(t)
    PROVE  \A u \in Threads \ {t} :
              /\ call'[u] = call[u]
              /\ pc'[u] = pc[u] \/ (pc[u] = "asleep" /\ pc'[u] = "claim")
<1> USE DEF Goto
<1>0. call \in [Threads -> Call] /\ pc \in [Threads -> Pc]
  BY TypeParts
<1>1. CASE Touch(t) \/ Resolve(t) \/ Chain(t) \/ Handle(t) \/ Begin(t) \/ ReadEpoch(t)
  BY <1>0, <1>1 DEF Touch, Resolve, Chain, Handle, Begin, ReadEpoch
<1>2. CASE Claim(t) \/ Check(t) \/ Doze(t) \/ Expire(t) \/ Miss(t) \/ Spoil(t) \/ Find(t)
  BY <1>0, <1>2 DEF Claim, Check, Doze, Expire, Miss, Spoil, Find
<1>3. CASE WriteBlock(t) \/ WriteEntry(t) \/ FillEnd(t) \/ Report(t) \/ Hook(t) \/ Return(t)
  BY <1>0, <1>3 DEF WriteBlock, WriteEntry, FillEnd, Report, Hook, Return
<1>4. CASE Commit(t) \/ GiveUp(t)
  <2>1. Committed(t)
    BY <1>4 DEF Commit, GiveUp
  <2>2. \A u \in Threads \ {t} : call'[u] = call[u]
    BY <1>0, <2>1 DEF Committed
  <2>3. \A u \in Threads \ {t} : pc'[u] = IF pc[u] = "asleep" THEN "claim" ELSE pc[u]
    BY <1>0, <2>1 DEF Committed, Woken
  <2> QED BY <2>2, <2>3
<1>5. CASE Fill(t) \/ Patch(t)
  <2>1. PICK p \in Filling, c \in Call :
          call' = [call EXCEPT ![t] = c] /\ pc' = [pc EXCEPT ![t] = p]
    <3>1. CASE Fill(t)
      BY <3>1, FillParts DEF Filling
    <3>2. CASE Patch(t)
      BY <3>2, PatchParts
    <3> QED BY <1>5, <3>1, <3>2
  <2> QED BY <1>0, <2>1
<1> QED BY <1>1, <1>2, <1>3, <1>4, <1>5 DEF Moves, Thread

\* What a step does to its thread's claim: nothing but at the three steps that
\* take or give one up.
LEMMA ClaimKept ==
    ASSUME TypeInv, NEW t \in Threads, Moves(t), ~Claim(t), ~Commit(t), ~GiveUp(t)
    PROVE  /\ UNCHANGED state
           /\ pc'[t] \in Resolving <=> pc[t] \in Resolving
           /\ pc[t] \in Resolving => call'[t] = call[t]
<1> USE DEF Goto, At, Enters, Resolving, blocks
<1>0. call \in [Threads -> Call] /\ pc \in [Threads -> Pc]
  BY TypeParts
<1>1. CASE Touch(t) \/ Resolve(t) \/ Chain(t) \/ Handle(t) \/ Begin(t) \/ ReadEpoch(t)
  BY <1>0, <1>1 DEF Touch, Resolve, Chain, Handle, Begin, ReadEpoch
<1>2. CASE Check(t) \/ Doze(t) \/ Expire(t) \/ Miss(t) \/ Spoil(t) \/ Find(t)
  BY <1>0, <1>2 DEF Check, Doze, Expire, After, Miss, Spoil, Find
<1>3. CASE WriteBlock(t) \/ WriteEntry(t) \/ FillEnd(t) \/ Report(t) \/ Hook(t) \/ Return(t)
  BY <1>0, <1>3 DEF WriteBlock, WriteEntry, FillEnd, Report, Hook, Return
<1>4. CASE Fill(t) \/ Patch(t)
  <2>1. pc[t] \notin Resolving /\ UNCHANGED state
    BY <1>4, PatchParts DEF Fill
  <2>2. PICK p \in Filling : pc' = [pc EXCEPT ![t] = p]
    <3>1. CASE Fill(t)
      BY <3>1, FillParts DEF Filling
    <3>2. CASE Patch(t)
      BY <3>2, PatchParts
    <3> QED BY <1>4, <3>1, <3>2
  <2> QED BY <1>0, <2>1, <2>2 DEF Filling
<1> QED BY <1>1, <1>2, <1>3, <1>4 DEF Moves, Thread

\* The claim that Claim takes is of absent blocks.
LEMMA ClaimTakes ==
    ASSUME TypeInv, NEW t \in Threads, Claim(t)
    PROVE  \E first \in SUBSET Claimable(t) :
             /\ state' = [b \in Blocks |-> IF b \in first THEN "inflight" ELSE state[b]]
             /\ call'[t].claim = first /\ call'[t].span = call[t].span
             /\ call'[t].mine = call[t].mine /\ call'[t].lost = call[t].lost
             /\ call'[t].waited = (/\ first = {}
                                   /\ \E b \in Covering(call[t].span) : state[b] = "inflight")
             /\ pc'[t] = IF first = {} THEN "check" ELSE "ensure"
             /\ first = {} => Claimable(t) = {}
<1>0. call \in [Threads -> Call] /\ pc \in [Threads -> Pc] /\ call[t] \in Call
  BY TypeParts
<1> DEFINE first == First(Claimable(t))
<1>1. first = {} => Claimable(t) = {}
  <2> SUFFICES ASSUME Claimable(t) # {} PROVE first # {}
    OBVIOUS
  <2> DEFINE m == Min(Claimable(t))
  <2>1. Claimable(t) \subseteq Nat
    BY DEF Claimable, Covering, Blocks
  <2>2. m \in Claimable(t) /\ \A x \in Claimable(t) : m <= x
    BY <2>1, MinOf
  <2> HIDE DEF m
  <2>3. {c \in Claimable(t) : c < m} = {}
    BY <2>1, <2>2
  <2>4. Cardinality({c \in Claimable(t) : c < m}) = 0
    BY <2>3, FS_EmptySet, Zenon
  <2>5. m \in first
    BY <2>2, <2>4, TrapAssumption DEF First
  <2> QED BY <2>5
<1> DEFINE w == /\ first = {}
                /\ \E b \in Covering(call[t].span) : state[b] = "inflight"
<1>2. /\ state' = [b \in Blocks |-> IF b \in first THEN "inflight" ELSE state[b]]
      /\ call' = [call EXCEPT ![t].claim = first, ![t].waited = w]
      /\ pc' = [pc EXCEPT ![t] = IF first = {} THEN "check" ELSE "ensure"]
  BY DEF Claim, Goto
<1>3. first \in SUBSET Claimable(t)
  BY DEF First
<1> HIDE DEF first
<1>4. call'[t] = [call[t] EXCEPT !.claim = first, !.waited = w]
  BY <1>0, <1>2
<1>5. /\ call'[t].claim = first /\ call'[t].span = call[t].span /\ call'[t].waited = w
      /\ call'[t].mine = call[t].mine /\ call'[t].lost = call[t].lost
  BY <1>0, <1>4 DEF Call
<1>6. pc'[t] = IF first = {} THEN "check" ELSE "ensure"
  BY <1>0, <1>2
<1> WITNESS first \in SUBSET Claimable(t)
<1> QED BY <1>1, <1>2, <1>5, <1>6

\* What a commit, or giving up, does to its thread.
LEMMA CommitTakes ==
    ASSUME TypeInv, NEW t \in Threads, Commit(t) \/ GiveUp(t)
    PROVE  /\ Block(t) \in Blocks /\ Block(t) \in call[t].claim /\ pc[t] \in Resolving
           /\ call'[t].claim = call[t].claim \ {Block(t)}
           /\ call'[t].lost = IF pc[t] = "missing" THEN call[t].lost \cup {Block(t)}
                              ELSE call[t].lost
           /\ call'[t].span = call[t].span /\ call'[t].mine = call[t].mine
           /\ pc'[t] = IF call[t].claim = {Block(t)} THEN "claim" ELSE "ensure"
<1>0. call \in [Threads -> Call] /\ pc \in [Threads -> Pc] /\ call[t] \in Call
  BY TypeParts
<1>1. pc[t] \in Resolving /\ Committed(t)
  BY DEF Commit, GiveUp, At, Enters, Resolving
<1>2. Block(t) \in Blocks /\ Block(t) \in call[t].claim
  BY <1>1, BlockOf
<1>3. call'[t] = [call[t] EXCEPT
          !.claim = call[t].claim \ {Block(t)},
          !.lost = IF At(t, "missing") THEN call[t].lost \cup {Block(t)} ELSE call[t].lost]
  BY <1>0, <1>1 DEF Committed, Call
<1>4. pc'[t] = IF call[t].claim = {Block(t)} THEN "claim" ELSE "ensure"
  BY <1>0, <1>1 DEF Committed, Woken
<1> QED BY <1>0, <1>1, <1>2, <1>3, <1>4 DEF Call, At, Enters

LEMMA ResolverInit == Init => OneResolver
<1> SUFFICES ASSUME Init PROVE OneResolver
  OBVIOUS
<1>1. \A t \in Threads : pc[t] \notin Resolving
  BY DEF Init, Resolving
<1>2. \A b \in Blocks : state[b] # "inflight"
  BY DEF Init
<1> QED BY <1>1, <1>2 DEF OneResolver

LEMMA ResolverStep ==
    ASSUME TypeInv, OneResolver, NEW t \in Threads, Moves(t)
    PROVE  OneResolver'
<1>0. state \in [Blocks -> {"absent", "inflight", "present"}]
  BY DEF TypeInv, TypeOK
<1>a. \A u \in Threads \ {t} :
         /\ call'[u] = call[u]
         /\ pc'[u] \in Resolving <=> pc[u] \in Resolving
  BY Others DEF Resolving
<1>1. CASE ~Claim(t) /\ ~Commit(t) /\ ~GiveUp(t)
  <2>1. /\ UNCHANGED state
        /\ \A u \in Threads : /\ pc'[u] \in Resolving <=> pc[u] \in Resolving
                              /\ pc[u] \in Resolving => call'[u].claim = call[u].claim
    BY <1>a, <1>1, ClaimKept
  <2> QED BY <2>1 DEF OneResolver
<1>2. CASE Claim(t)
  <2>1. PICK first \in SUBSET Claimable(t) :
             /\ state' = [b \in Blocks |-> IF b \in first THEN "inflight" ELSE state[b]]
             /\ call'[t].claim = first
             /\ pc'[t] = IF first = {} THEN "check" ELSE "ensure"
    BY <1>2, ClaimTakes
  <2>2. \A b \in first : b \in Blocks /\ state[b] = "absent"
    BY DEF Claimable, Covering
  <2>3. pc[t] \notin Resolving /\ (pc'[t] \in Resolving <=> first # {})
    BY <1>2, <2>1 DEF Claim, At, Enters, Resolving
  <2>4. ASSUME NEW b \in Blocks
        PROVE  state'[b] = "inflight" <=>
                 \E u \in Threads : pc'[u] \in Resolving /\ b \in call'[u].claim
    <3>1. CASE b \in first
      BY <2>1, <2>3, <3>1
    <3>2. CASE b \notin first
      <4>1. state'[b] = state[b]
        BY <2>1, <3>2
      <4>2. \A u \in Threads : (pc'[u] \in Resolving /\ b \in call'[u].claim)
                                <=> (pc[u] \in Resolving /\ b \in call[u].claim)
        BY <1>a, <2>1, <2>3, <3>2
      <4> QED BY <4>1, <4>2 DEF OneResolver
    <3> QED BY <3>1, <3>2
  <2>5. ASSUME NEW u \in Threads, u # t, pc[u] \in Resolving
        PROVE  call[u].claim \cap first = {}
    BY <2>2, <2>5 DEF OneResolver
  <2>6. ASSUME NEW u \in Threads, NEW v \in Threads, u # v,
               pc'[u] \in Resolving, pc'[v] \in Resolving
        PROVE  call'[u].claim \cap call'[v].claim = {}
    BY <1>a, <2>1, <2>5, <2>6 DEF OneResolver
  <2> QED BY <2>4, <2>6 DEF OneResolver
<1>3. CASE Commit(t) \/ GiveUp(t)
  <2> DEFINE b == Block(t)
  <2>1. /\ b \in Blocks /\ b \in call[t].claim /\ pc[t] \in Resolving
        /\ call'[t].claim = call[t].claim \ {b}
        /\ pc'[t] = IF call[t].claim = {b} THEN "claim" ELSE "ensure"
    BY <1>3, CommitTakes
  <2>2. /\ state'[b] # "inflight"
        /\ \A c \in Blocks \ {b} : state'[c] = state[c]
    BY <1>0, <1>3, <2>1 DEF Commit, GiveUp
  <2> HIDE DEF b
  <2>3. \A u \in Threads \ {t} : pc[u] \in Resolving => b \notin call[u].claim
    BY <2>1 DEF OneResolver
  <2>4. \A u \in Threads, c \in Blocks :
           (pc'[u] \in Resolving /\ c \in call'[u].claim)
           <=> (c # b /\ pc[u] \in Resolving /\ c \in call[u].claim)
    <3>1. \A u \in Threads \ {t}, c \in Blocks :
           (pc'[u] \in Resolving /\ c \in call'[u].claim)
           <=> (c # b /\ pc[u] \in Resolving /\ c \in call[u].claim)
      BY <1>a, <2>3
    <3>2. \A c \in Blocks : (pc'[t] \in Resolving /\ c \in call'[t].claim)
           <=> (c # b /\ pc[t] \in Resolving /\ c \in call[t].claim)
      BY <2>1 DEF Resolving
    <3> QED BY <3>1, <3>2
  <2>5. ASSUME NEW c \in Blocks
        PROVE  state'[c] = "inflight" <=>
                 \E u \in Threads : pc'[u] \in Resolving /\ c \in call'[u].claim
    BY <2>2, <2>4 DEF OneResolver
  <2>6. ASSUME NEW u \in Threads, NEW v \in Threads, u # v,
               pc'[u] \in Resolving, pc'[v] \in Resolving
        PROVE  call'[u].claim \cap call'[v].claim = {}
    <3>1. \A w \in Threads : pc'[w] \in Resolving =>
              pc[w] \in Resolving /\ call'[w].claim \subseteq call[w].claim
      BY <1>a, <2>1
    <3> QED BY <2>6, <3>1 DEF OneResolver
  <2> QED BY <2>5, <2>6 DEF OneResolver
<1> QED BY <1>1, <1>2, <1>3

-----------------------------------------------------------------------------
(***************************************************************************)
(* Counts, marks and guards                                                *)
(***************************************************************************)

\* What is patched was stubbed.
Flagged == \A t \in Threads : call[t].patch \subseteq stubbed

PagesInv == WholePages /\ GuardsMatchMarks /\ Flagged

LEMMA PagesInit == Init => PagesInv
<1> SUFFICES ASSUME Init PROVE PagesInv
  OBVIOUS
<1>1. \A p \in Pages : /\ pending[p] = Cardinality(Absent(p))
                       /\ page[p] = IF Absent(p) = {} THEN "real" ELSE "none"
                       /\ p \in guarded <=> Absent(p) # {}
  BY DEF Init
<1>2. Flagged
  BY DEF Init, Flagged, NoCall
<1> QED BY <1>1, <1>2 DEF PagesInv, WholePages, GuardsMatchMarks

\* Only a commit makes a block present, or not.
LEMMA AbsentKept ==
    ASSUME TypeInv, OneResolver, NEW t \in Threads, Moves(t), ~Commit(t)
    PROVE  \A b \in Blocks : state'[b] = "present" <=> state[b] = "present"
<1>0. state \in [Blocks -> {"absent", "inflight", "present"}]
  BY DEF TypeInv, TypeOK
<1>1. CASE ~Claim(t) /\ ~GiveUp(t)
  BY <1>1, ClaimKept
<1>2. CASE Claim(t)
  <2>1. PICK first \in SUBSET Claimable(t) :
          state' = [b \in Blocks |-> IF b \in first THEN "inflight" ELSE state[b]]
    BY <1>2, ClaimTakes
  <2>2. \A b \in first : state[b] = "absent"
    BY DEF Claimable
  <2> QED BY <2>1, <2>2
<1>3. CASE GiveUp(t)
  <2>1. Block(t) \in Blocks /\ state[Block(t)] = "inflight"
    BY <1>3, CommitTakes DEF OneResolver
  <2> QED BY <1>0, <1>3, <2>1 DEF GiveUp
<1> QED BY <1>1, <1>2, <1>3

\* Only a commit, a fill and a patch change the pages.
LEMMA CoverKept ==
    ASSUME NEW t \in Threads, Moves(t), ~Commit(t), ~Fill(t), ~Patch(t)
    PROVE  UNCHANGED cover
BY DEF Moves, Thread, Touch, Resolve, Chain, Handle, Begin, ReadEpoch, Claim, Check, Doze,
       Expire, Miss, Spoil, Find, WriteBlock, WriteEntry, GiveUp, FillEnd, Report, Hook, Return

\* Only a fill finds blocks to patch, and only a patch has their pages open.
LEMMA PatchKept ==
    ASSUME TypeInv, NEW t \in Threads, Moves(t), ~Fill(t), ~Patch(t)
    PROVE  /\ call'[t].patch \subseteq call[t].patch /\ UNCHANGED stubbed
           /\ pc[t] # "close" /\ pc'[t] # "close"
<1> USE DEF Goto, At, Enters, blocks
<1>0. call \in [Threads -> Call] /\ pc \in [Threads -> Pc] /\ call[t] \in Call
  BY TypeParts
<1>1. CASE Touch(t) \/ Resolve(t) \/ Begin(t) \/ ReadEpoch(t) \/ Check(t)
  <2>1. CASE Touch(t)
    BY <1>0, <2>1 DEF Touch, Call
  <2>2. CASE Resolve(t) \/ Begin(t) \/ ReadEpoch(t)
    BY <1>0, <2>2 DEF Resolve, Begin, ReadEpoch, Call
  <2>3. CASE Check(t)
    BY <1>0, <2>3 DEF Check, After, Call
  <2> QED BY <1>1, <2>1, <2>2, <2>3
<1>2. CASE Chain(t) \/ Handle(t) \/ Doze(t) \/ Expire(t) \/ Miss(t) \/ Spoil(t) \/ Find(t)
  BY <1>0, <1>2 DEF Chain, Handle, Doze, Expire, After, Miss, Spoil, Find
<1>3. CASE WriteBlock(t) \/ WriteEntry(t) \/ FillEnd(t)
  BY <1>0, <1>3 DEF WriteBlock, WriteEntry, FillEnd
<1>4. CASE Claim(t) \/ Report(t) \/ Hook(t)
  BY <1>0, <1>4 DEF Claim, Report, Hook, Call
<1>5. CASE Return(t)
  <2>1. call' = call \/ call' = [call EXCEPT ![t] = NoCall]
    BY <1>5 DEF Return
  <2>2. NoCall.patch = {}
    BY DEF NoCall
  <2> QED BY <1>0, <1>5, <2>1, <2>2 DEF Return
<1>6. CASE Commit(t) \/ GiveUp(t)
  <2>1. call'[t].patch = call[t].patch
    BY <1>0, <1>6 DEF Commit, GiveUp, Committed, Call
  <2>2. pc'[t] \in {"claim", "ensure"} /\ pc[t] # "close"
    BY <1>6, CommitTakes DEF Commit, GiveUp
  <2> QED BY <1>6, <2>1, <2>2 DEF Commit, GiveUp
<1> QED BY <1>1, <1>2, <1>3, <1>4, <1>5, <1>6 DEF Moves, Thread

\* No stub is forgotten, and no failure.
LEMMA StubsGrow ==
    ASSUME TypeInv, NEW t \in Threads, Moves(t)
    PROVE  stubbed \subseteq stubbed' /\ (failures # 0 => failures' # 0)
<1>0. failures \in Nat /\ call[t] \in Call
  BY TrapAssumption DEF TypeInv, TypeOK
<1>1. CASE Fill(t)
  <2>1. stubbed \subseteq stubbed' /\ failures' \in 0..MaxFailures /\ failures <= failures'
    BY <1>1, FillParts
  <2> QED BY <1>0, <2>1, TrapAssumption
<1>2. CASE Patch(t)
  <2>1. UNCHANGED stubbed /\ failures' \in 0..MaxFailures /\ failures <= failures'
    BY <1>2, PatchParts DEF blocks
  <2> QED BY <1>0, <2>1, TrapAssumption
<1>3. CASE Commit(t)
  <2>1. Block(t) \in Blocks
    BY <1>3, CommitTakes
  <2>2. PICK bad \in MayFail(Flips(Block(t))) : failures' = failures + Cardinality(bad)
    BY <1>3 DEF Commit
  <2>3. Cardinality(bad) \in Nat
    <3>1. Flips(Block(t)) \subseteq Pages
      BY <2>1, TrapAssumption DEF Flips
    <3> QED BY <3>1, Failing
  <2> QED BY <1>0, <1>3, <2>2, <2>3 DEF Commit
<1>4. CASE ~Fill(t) /\ ~Patch(t) /\ ~Commit(t)
  BY <1>4, CoverKept, PatchKept DEF cover
<1> QED BY <1>1, <1>2, <1>3, <1>4

LEMMA FlaggedStep ==
    ASSUME TypeInv, Flagged, NEW t \in Threads, Moves(t)
    PROVE  Flagged'
<1>0. call \in [Threads -> Call] /\ stubbed \subseteq stubbed'
  BY TypeParts, StubsGrow
<1>1. \A u \in Threads \ {t} : call'[u].patch \subseteq stubbed'
  BY <1>0, Others DEF Flagged
<1>2. CASE Fill(t)
  <2>1. PICK c \in Call :
          call' = [call EXCEPT ![t] = c] /\ c.patch \subseteq call[t].patch \cup stubbed'
    BY <1>2, FillParts
  <2> QED BY <1>0, <1>1, <2>1 DEF Flagged
<1>3. CASE Patch(t)
  <2>1. PICK c \in Call : call' = [call EXCEPT ![t] = c] /\ c.patch \subseteq call[t].patch
    BY <1>3, PatchParts
  <2> QED BY <1>0, <1>1, <2>1 DEF Flagged
<1>4. CASE ~Fill(t) /\ ~Patch(t)
  BY <1>0, <1>1, <1>4, PatchKept DEF Flagged
<1> QED BY <1>2, <1>3, <1>4

\* So what may be bare stays so, and no page is closed behind a patch's back.
LEMMA BaredGrows ==
    ASSUME TypeInv, NEW t \in Threads, Moves(t)
    PROVE  Bared \subseteq Bared'
BY StubsGrow DEF Bared

LEMMA OpenedKept ==
    ASSUME TypeInv, NEW t \in Threads, Moves(t), ~Fill(t), ~Patch(t)
    PROVE  Opened' = Opened
<1>1. \A u \in Threads : /\ pc'[u] = "close" <=> pc[u] = "close"
                         /\ pc[u] = "close" => Patching(u)' = Patching(u)
  <2>1. \A u \in Threads \ {t} : /\ pc'[u] = "close" <=> pc[u] = "close"
                                 /\ Patching(u)' = Patching(u)
    BY Others DEF Patching
  <2> QED BY <2>1, PatchKept
<1> QED BY <1>1 DEF Opened, At

LEMMA PagesCommit ==
    ASSUME TypeInv, OneResolver, PagesInv, NEW t \in Threads, Commit(t)
    PROVE  PagesInv'
<1> DEFINE b == Block(t)
<1>0. DataOK
  BY TypeParts
<1>1. b \in Blocks /\ state[b] = "inflight"
  BY CommitTakes DEF OneResolver
<1>2. On[b] \subseteq Pages
  BY <1>1, TrapAssumption
<1>3. PICK bad \in MayFail(Flips(b)) :
        /\ page' = [p \in Pages |-> IF p \in Marked(Flips(b), bad) THEN "real" ELSE page[p]]
        /\ stuck' = stuck \ Marked(Flips(b), bad)
        /\ guarded' = guarded \ (Flips(b) \ bad)
        /\ failures' = failures + Cardinality(bad)
  BY DEF Commit
<1>4. /\ IsFiniteSet(bad) /\ Cardinality(bad) \in Nat /\ bad \subseteq Flips(b)
  <2>1. Flips(b) \subseteq Pages
    BY <1>2 DEF Flips
  <2> QED BY <2>1, Failing DEF MayFail
<1>5. failures' = 0 => failures = 0 /\ bad = {}
  <2>1. failures \in Nat
    BY <1>0, TrapAssumption DEF DataOK
  <2>2. failures' = 0 => failures = 0 /\ Cardinality(bad) = 0
    BY <1>3, <1>4, <2>1
  <2> QED BY <1>4, <2>2, FS_EmptySet
<1>6. /\ state' = [state EXCEPT ![b] = "present"]
      /\ pending' = [p \in Pages |-> IF p \in On[b] /\ pending[p] > 0
                                   THEN pending[p] - 1 ELSE pending[p]]
  BY DEF Commit, Counted
<1> DEFINE flip == Flips(b)
<1>7. \A p \in Pages : p \in flip <=> p \in On[b] /\ pending'[p] = 0 /\ page[p] # "real"
  BY <1>2 DEF Flips
<1>8. /\ page' = [p \in Pages |-> IF p \in flip \ bad THEN "real" ELSE page[p]]
      /\ stuck' = stuck \ (flip \ bad) /\ guarded' = guarded \ (flip \ bad)
  BY <1>3 DEF Marked
<1> HIDE DEF b, flip
<1>9. ASSUME NEW p \in Pages
      PROVE  /\ Absent(p)' = IF p \in On[b] THEN Absent(p) \ {b} ELSE Absent(p)
             /\ p \in On[b] => b \in Absent(p)
  <2>1. \A c \in Blocks : state'[c] = IF c = b THEN "present" ELSE state[c]
    BY <1>0, <1>6 DEF DataOK
  <2>2. Absent(p)' = {c \in Blocks : p \in On[c] /\ state'[c] # "present"}
    BY DEF Absent
  <2>3. b \notin {c \in Blocks : p \in On[c] /\ state'[c] # "present"}
    BY <2>1
  <2> QED BY <1>1, <2>1, <2>2, <2>3 DEF Absent
<1>10. ASSUME NEW p \in Pages PROVE pending'[p] = Cardinality(Absent(p)')
  <2>1. pending[p] = Cardinality(Absent(p)) /\ pending[p] \in Nat
    BY <1>0, TrapAssumption DEF PagesInv, WholePages, DataOK
  <2>2. CASE p \notin On[b]
    <3>1. pending'[p] = pending[p] /\ Absent(p)' = Absent(p)
      BY <1>6, <1>9, <2>2
    <3> QED BY <2>1, <3>1, Zenon
  <2>3. CASE p \in On[b]
    <3>1. b \in Absent(p) /\ IsFiniteSet(Absent(p)) /\ Absent(p)' = Absent(p) \ {b}
      BY <1>9, <2>3, SomeAbsent
    <3>2. Cardinality(Absent(p) \ {b}) = Cardinality(Absent(p)) - 1
      BY <3>1, FS_RemoveElement
    <3>3. Cardinality(Absent(p)) # 0
      BY <3>1, FS_EmptySet
    <3>4. pending'[p] = pending[p] - 1
      BY <1>6, <2>1, <2>3, <3>3
    <3> QED BY <2>1, <3>1, <3>2, <3>4
  <2> QED BY <2>2, <2>3
<1>11. ASSUME NEW p \in Pages PROVE pending'[p] = 0 <=> Absent(p)' = {}
  <2>1. IsFiniteSet(Absent(p)')
    <3>1. Absent(p)' \subseteq Absent(p)
      BY <1>9
    <3> QED BY <3>1, SomeAbsent, FS_Subset
  <2> QED BY <1>10, <2>1, FS_EmptySet
<1>12. ASSUME NEW p \in Pages
       PROVE  /\ page'[p] = "real" => Absent(p)' = {}
              /\ page'[p] = "none" /\ failures' = 0 => Absent(p)' # {}
  <2>1. page'[p] = IF p \in flip \ bad THEN "real" ELSE page[p]
    BY <1>8
  <2>2. p \in flip => Absent(p)' = {}
    BY <1>7, <1>11
  <2>3. page[p] = "real" => Absent(p)' = {}
    BY <1>9 DEF PagesInv, WholePages
  <2>4. ASSUME page'[p] = "none", failures' = 0 PROVE Absent(p)' # {}
    <3>1. p \notin flip /\ page[p] = "none" /\ failures = 0
      BY <1>5, <2>1, <2>4
    <3>2. Absent(p) # {}
      BY <3>1 DEF PagesInv, WholePages
    <3>3. CASE p \in On[b]
      BY <1>7, <1>11, <3>1, <3>3
    <3>4. CASE p \notin On[b]
      BY <1>9, <3>2, <3>4
    <3> QED BY <3>3, <3>4
  <2> QED BY <2>1, <2>2, <2>3, <2>4
<1>13. WholePages'
  BY <1>10, <1>12 DEF WholePages
<1>14. GuardsMatchMarks'
  <2>1. Opened' = Opened /\ Bared \subseteq Bared'
    <3>1. Moves(t) /\ ~Fill(t) /\ ~Patch(t)
      BY DEF Moves, Thread, Commit, Fill, Patch, PatchOpen, PatchFail, PatchClose, At, Enters
    <3> QED BY <3>1, OpenedKept, BaredGrows
  <2> QED BY <1>8, <2>1 DEF PagesInv, GuardsMatchMarks
<1>15. Flagged'
  BY FlaggedStep DEF PagesInv, Moves, Thread
<1> QED BY <1>13, <1>14, <1>15 DEF PagesInv

LEMMA PagesKept ==
    ASSUME PagesInv, UNCHANGED cover,
           \A b \in Blocks : state'[b] = "present" <=> state[b] = "present",
           Opened' = Opened, Bared \subseteq Bared', Flagged'
    PROVE  PagesInv'
<1>1. \A p \in Pages : Absent(p)' = Absent(p)
  BY DEF Absent
<1>2. WholePages'
  <2> SUFFICES ASSUME NEW p \in Pages
      PROVE /\ pending'[p] = Cardinality(Absent(p)')
            /\ page'[p] = "real" => Absent(p)' = {}
            /\ page'[p] = "none" /\ failures' = 0 => Absent(p)' # {}
    BY DEF WholePages
  <2>1. Absent(p)' = Absent(p) /\ UNCHANGED <<page, pending, failures>>
    BY <1>1 DEF cover
  <2> QED BY <2>1, Zenon DEF PagesInv, WholePages
<1> QED BY <1>2 DEF PagesInv, GuardsMatchMarks, cover

LEMMA PagesFill ==
    ASSUME TypeInv, PagesInv, NEW t \in Threads, Fill(t)
    PROVE  PagesInv'
<1>0. DataOK /\ state' = state /\ pending' = pending
  BY TypeParts DEF Fill
<1>1. PICK p \in Todo(t) :
        /\ p \in Pages
        /\ \E mark \in {"zeroed", "stubbed"} : page' = [page EXCEPT ![p] = mark]
        /\ guarded' = guarded \ {p} \/ (guarded' = guarded /\ p \in stuck')
        /\ stuck \subseteq stuck'
        /\ failures' \in 0..MaxFailures /\ failures <= failures'
        /\ \E c \in Call : \E there \in {"filling", "patch"} : pc' = [pc EXCEPT ![t] = there]
  BY FillParts
<1>2. \A q \in Pages : IF q = p THEN page'[q] \in {"stubbed", "zeroed"} ELSE page'[q] = page[q]
  BY <1>0, <1>1 DEF DataOK
<1>3. failures' = 0 => failures = 0
  BY <1>0, <1>1, TrapAssumption DEF DataOK
<1>4. \A q \in Pages : Absent(q)' = Absent(q)
  BY <1>0 DEF Absent
<1>5. WholePages'
  <2> SUFFICES ASSUME NEW q \in Pages
      PROVE /\ pending'[q] = Cardinality(Absent(q)')
            /\ page'[q] = "real" => Absent(q)' = {}
            /\ page'[q] = "none" /\ failures' = 0 => Absent(q)' # {}
    BY DEF WholePages
  <2>1. /\ Absent(q)' = Absent(q)
        /\ page'[q] = "real" => page[q] = "real"
        /\ page'[q] = "none" => page[q] = "none"
    BY <1>2, <1>4
  <2> QED BY <1>0, <1>3, <2>1, Zenon DEF PagesInv, WholePages
<1>6. GuardsMatchMarks'
  <2>1. Moves(t)
    BY DEF Moves, Thread
  <2>2. Opened \subseteq Opened'
    <3>1. \A u \in Threads : pc[u] = "close" => pc'[u] = "close" /\ Patching(u)' = Patching(u)
      <4>1. pc[t] # "close"
        BY DEF Fill, At, Enters
      <4> QED BY <2>1, <4>1, Others DEF Patching
    <3> QED BY <3>1 DEF Opened, At
  <2>3. Bared \subseteq Bared'
    BY <2>1, BaredGrows
  <2> QED BY <1>1, <1>2, <2>2, <2>3 DEF PagesInv, GuardsMatchMarks
<1>7. Flagged'
  BY FlaggedStep DEF PagesInv, Moves, Thread
<1> QED BY <1>5, <1>6, <1>7 DEF PagesInv

\* A patch opens the pages of a record that it will close, or that the record of
\* a stubbed block and a failure account for.
LEMMA PagesPatch ==
    ASSUME TypeInv, PagesInv, NEW t \in Threads, Patch(t)
    PROVE  PagesInv'
<1> DEFINE b == Patching(t)
<1>0. DataOK /\ call \in [Threads -> Call] /\ pc \in [Threads -> Pc] /\ Moves(t)
  BY TypeParts DEF Moves, Thread
<1>1. /\ b \in call[t].patch /\ b \in Blocks
      /\ UNCHANGED <<blocks, page, pending, stuck>>
      /\ failures' \in 0..MaxFailures /\ failures <= failures'
  BY PatchParts
<1>2. b \in stubbed'
  BY <1>1 DEF PagesInv, Flagged, blocks
<1>3. failures' = 0 => failures = 0
  BY <1>0, <1>1, TrapAssumption DEF DataOK
<1>4. WholePages'
  <2> SUFFICES ASSUME NEW q \in Pages
      PROVE /\ pending'[q] = Cardinality(Absent(q)')
            /\ page'[q] = "real" => Absent(q)' = {}
            /\ page'[q] = "none" /\ failures' = 0 => Absent(q)' # {}
    BY DEF WholePages
  <2>1. Absent(q)' = Absent(q)
    BY <1>1 DEF Absent, blocks
  <2> QED BY <1>1, <1>3, <2>1, Zenon DEF PagesInv, WholePages
<1>5. Flagged'
  BY <1>0, FlaggedStep DEF PagesInv
<1>6. Bared \subseteq Bared'
  BY <1>0, BaredGrows
<1>7. failures' # 0 => Record[b] \subseteq Bared'
  BY <1>2 DEF Bared
\* What the other threads have open stays so.
<1>8. \A u \in Threads \ {t} : pc[u] = "close" => pc'[u] = "close" /\ Patching(u)' = Patching(u)
  BY <1>0, Others DEF Patching
<1>9. GuardsMatchMarks'
  <2>1. CASE PatchOpen(t)
    <3>1. guarded' = guarded \ Record[b] /\ pc[t] # "close" /\ pc'[t] = "close"
          /\ Patching(t)' = b
      BY <1>0, <2>1 DEF PatchOpen, At, Goto, Patching
    <3>2. Opened \subseteq Opened' /\ Record[b] \subseteq Opened'
      BY <1>8, <3>1 DEF Opened, At
    <3> QED BY <1>1, <1>6, <3>1, <3>2 DEF PagesInv, GuardsMatchMarks
  <2>2. CASE PatchFail(t)
    <3>1. failures' # 0
      BY <1>0, <2>2, TrapAssumption DEF PatchFail, DataOK
    <3>2. guarded' \subseteq guarded /\ guarded \subseteq guarded' \cup Record[b]
      BY <2>2 DEF PatchFail
    <3>3. Opened \subseteq Opened'
      <4>1. pc[t] # "close"
        BY <2>2 DEF PatchFail, At
      <4> QED BY <1>8, <4>1 DEF Opened, At
    <3> QED BY <1>1, <1>6, <1>7, <3>1, <3>2, <3>3 DEF PagesInv, GuardsMatchMarks
  <2>3. CASE PatchClose(t)
    <3>1. PICK bad \in MayFail(Unguarded(b)) :
            /\ guarded' = guarded \cup (Unguarded(b) \ bad)
            /\ failures' = failures + Cardinality(bad)
      BY <2>3 DEF PatchClose
    <3>2. Unguarded(b) \subseteq Record[b] /\ \A q \in Unguarded(b) : page[q] = "none"
      BY DEF Unguarded
    <3>3. \A q \in Pages : q \in Record[b] /\ page[q] = "none" => q \in Unguarded(b)
      BY DEF Unguarded
    <3>4. failures' = 0 => bad = {}
      <4>1. IsFiniteSet(bad) /\ Cardinality(bad) \in Nat
        BY Failing DEF Unguarded
      <4>2. failures' = 0 => Cardinality(bad) = 0
        BY <1>0, <3>1, <4>1, TrapAssumption DEF DataOK
      <4> QED BY <4>1, <4>2, FS_EmptySet
    <3>5. Opened \subseteq Opened' \cup Record[b]
      BY <1>8 DEF Opened, At
    <3>6. ASSUME NEW q \in Pages, page'[q] = "none" PROVE q \in guarded' \cup Opened' \cup Bared'
      <4>1. page[q] = "none" /\ q \in guarded \cup Opened \cup Bared
        BY <1>1, <3>6 DEF PagesInv, GuardsMatchMarks
      <4>2. CASE q \in Record[b]
        BY <1>7, <3>1, <3>3, <3>4, <4>1, <4>2
      <4>3. CASE q \notin Record[b]
        BY <1>6, <3>1, <3>5, <4>1, <4>3
      <4> QED BY <4>2, <4>3
    <3>7. \A q \in Pages : q \in guarded' => page'[q] = "none" \/ q \in stuck'
      BY <1>1, <3>1, <3>2 DEF PagesInv, GuardsMatchMarks
    <3> QED BY <3>6, <3>7 DEF GuardsMatchMarks
  <2> QED BY <2>1, <2>2, <2>3 DEF Patch
<1> QED BY <1>4, <1>5, <1>9 DEF PagesInv

LEMMA PagesStep ==
    ASSUME TypeInv, OneResolver, PagesInv, NEW t \in Threads, Moves(t)
    PROVE  PagesInv'
<1>1. CASE Commit(t)
  BY <1>1, PagesCommit
<1>2. CASE Fill(t)
  BY <1>2, PagesFill
<1>3. CASE Patch(t)
  BY <1>3, PagesPatch
<1>4. CASE ~Commit(t) /\ ~Fill(t) /\ ~Patch(t)
  <2>1. Opened' = Opened /\ Bared \subseteq Bared' /\ Flagged'
    BY <1>4, OpenedKept, BaredGrows, FlaggedStep DEF PagesInv
  <2> QED BY <1>4, <2>1, CoverKept, AbsentKept, PagesKept
<1> QED BY <1>1, <1>2, <1>3, <1>4

-----------------------------------------------------------------------------
(***************************************************************************)
(* Stubs are told of                                                       *)
(***************************************************************************)

\* Where a thread has the report of its range before it.
Telling == Filling \cup {"report"}

\* A stub that was not reported is about to be, by the thread that filled it or
\* by one that shares its range; one that was is on its way to the state DB.
StubsTold ==
    /\ \A b \in stubbed \ reported :
          \E t \in Threads : pc[t] \in Telling /\ b \in Covering(call[t].span)
    /\ \A b \in reported : db[b] = "pending" =>
          \E t \in Threads : pc[t] = "hook" /\ b \in call[t].report

LEMMA ToldInit == Init => StubsTold
BY DEF Init, StubsTold

LEMMA ToldKept ==
    ASSUME StubsTold, UNCHANGED <<stubbed, reported>>,
           \A b \in Blocks : db'[b] = "pending" => db[b] = "pending", reported \subseteq Blocks,
           \A u \in Threads : pc[u] \in Telling =>
               pc'[u] \in Telling /\ call'[u].span = call[u].span,
           \A u \in Threads : pc[u] = "hook" => pc'[u] = "hook" /\ call'[u] = call[u]
    PROVE  StubsTold'
<1>1. \A u \in Threads : pc[u] \in Telling => Covering(call[u].span)' = Covering(call[u].span)
  BY DEF Covering
<1>2. ASSUME NEW b \in stubbed' \ reported'
      PROVE  \E t \in Threads : pc'[t] \in Telling /\ b \in Covering(call[t].span)'
  BY <1>1 DEF StubsTold
<1>3. ASSUME NEW b \in reported', db'[b] = "pending"
      PROVE  \E t \in Threads : pc'[t] = "hook" /\ b \in call'[t].report
  BY <1>3 DEF StubsTold
<1> QED BY <1>2, <1>3 DEF StubsTold

\* The state byte is pending at the start only.
LEMMA PendingOnce ==
    ASSUME TypeInv, [Steps]_vars
    PROVE  \A b \in Blocks : db'[b] = "pending" => db[b] = "pending"
<1>0. db \in [Blocks -> {"pending", "fetched", "stubbed", "failed"}]
  BY DEF TypeInv, TypeOK
<1>1. \/ UNCHANGED db
      \/ \E c, v : v # "pending" /\ db' = [db EXCEPT ![c] = v]
  BY DEF Steps, Next, Thread, Touch, Resolve, Chain, Handle, Begin, ReadEpoch, Claim, Check,
         Doze, Expire, Miss, Spoil, Find, WriteBlock, WriteEntry, Commit, GiveUp, Fill, FillEnd,
         Patch, PatchOpen, PatchFail, PatchClose, Report,
         Hook, Mark, Return, SweepBlock, SweepEntry, disk, vars
<1> QED BY <1>0, <1>1

LEMMA ToldStep ==
    ASSUME TypeInv, StubsTold, NEW t \in Threads, Moves(t)
    PROVE  StubsTold'
<1>0. /\ call \in [Threads -> Call] /\ pc \in [Threads -> Pc] /\ reported \subseteq Blocks
      /\ call[t] \in Call /\ db \in [Blocks -> {"pending", "fetched", "stubbed", "failed"}]
  BY DEF TypeInv, TypeOK
<1>a. \A u \in Threads \ {t} : pc[u] \in Telling \cup {"hook"} =>
          pc'[u] = pc[u] /\ call'[u] = call[u]
  BY Others DEF Telling, Filling
<1>b. \A b \in Blocks : db'[b] = "pending" => db[b] = "pending"
  BY PendingOnce DEF Moves, Steps, Next
<1>1. CASE Fill(t)
  <2>1. PICK p \in Todo(t) :
          /\ \E new \in SUBSET Unfilled(p) : stubbed' = stubbed \cup new
          /\ \E c \in Call : \E there \in {"filling", "patch"} :
                /\ call' = [call EXCEPT ![t] = c] /\ pc' = [pc EXCEPT ![t] = there]
                /\ c.span = call[t].span
    BY <1>1, FillParts
  <2>2. Unfilled(p) \subseteq Covering(call[t].span)
    BY DEF Unfilled, Absent, Covering, Todo
  <2>3. pc[t] # "hook" /\ pc'[t] \in Telling /\ UNCHANGED <<reported, db>>
    BY <1>0, <1>1, <2>1 DEF Fill, At, Enters, Telling, Filling
  <2>4. \A u \in Threads : call'[u].span = call[u].span
    BY <1>0, <2>1
  <2>5. \A u \in Threads : Covering(call[u].span)' = Covering(call[u].span)
    BY <2>4 DEF Covering
  <2>6. ASSUME NEW b \in stubbed' \ reported'
        PROVE  \E u \in Threads : pc'[u] \in Telling /\ b \in Covering(call[u].span)'
    <3>1. CASE b \in stubbed \ reported
      <4>1. PICK u \in Threads : pc[u] \in Telling /\ b \in Covering(call[u].span)
        BY <3>1 DEF StubsTold
      <4> QED BY <1>a, <2>3, <2>5, <4>1
    <3>2. CASE b \in Covering(call[t].span)
      BY <2>3, <2>5, <3>2
    <3> QED BY <2>1, <2>2, <2>3, <2>6, <3>1, <3>2
  <2>7. ASSUME NEW b \in reported', db'[b] = "pending"
        PROVE  \E u \in Threads : pc'[u] = "hook" /\ b \in call'[u].report
    BY <1>a, <2>3, <2>7 DEF StubsTold
  <2> QED BY <2>6, <2>7 DEF StubsTold
<1>2. CASE Report(t)
  <2>1. /\ pc[t] = "report" /\ UNCHANGED <<stubbed, db>>
        /\ reported' = reported \cup Untold(t) /\ call'[t].report = Untold(t)
        /\ pc'[t] = IF Untold(t) = {} THEN "return" ELSE "hook"
        /\ call' = [call EXCEPT ![t].report = Untold(t)]
    BY <1>0, <1>2 DEF Report, At, Enters, Goto, disk, Call
  <2>2. \A u \in Threads : call'[u].span = call[u].span
    BY <1>0, <2>1 DEF Call
  <2>3. \A u \in Threads : Covering(call[u].span)' = Covering(call[u].span)
    BY <2>2 DEF Covering
  <2>4. ASSUME NEW b \in stubbed' \ reported'
        PROVE  \E u \in Threads : pc'[u] \in Telling /\ b \in Covering(call[u].span)'
    <3>1. PICK u \in Threads : pc[u] \in Telling /\ b \in Covering(call[u].span)
      BY <2>1, <2>4 DEF StubsTold
    <3>2. u # t
      BY <2>1, <2>4, <3>1 DEF Untold
    <3> QED BY <1>a, <2>3, <3>1, <3>2
  <2>5. ASSUME NEW b \in reported', db'[b] = "pending"
        PROVE  \E u \in Threads : pc'[u] = "hook" /\ b \in call'[u].report
    <3>1. CASE b \in Untold(t)
      BY <2>1, <3>1
    <3>2. CASE b \in reported
      <4>1. PICK u \in Threads : pc[u] = "hook" /\ b \in call[u].report
        BY <2>1, <2>5, <3>2 DEF StubsTold
      <4> QED BY <1>a, <2>1, <4>1
    <3> QED BY <2>1, <2>5, <3>1, <3>2
  <2> QED BY <2>4, <2>5 DEF StubsTold
<1>3. CASE Hook(t)
  <2> DEFINE h == Min(call[t].report)
  <2>1. /\ pc[t] = "hook" /\ UNCHANGED <<stubbed, reported>>
        /\ db' = Mark(h) /\ call' = [call EXCEPT ![t].report = @ \ {h}]
        /\ pc'[t] = IF call[t].report = {h} THEN "return" ELSE "hook"
    BY <1>0, <1>3 DEF Hook, At, Enters, Goto, blocks
  <2>2. \A u \in Threads : call'[u].span = call[u].span
    BY <1>0, <2>1 DEF Call
  <2>3. \A u \in Threads : Covering(call[u].span)' = Covering(call[u].span)
    BY <2>2 DEF Covering
  <2>4. call'[t].report = call[t].report \ {h}
    BY <1>0, <2>1 DEF Call
  <2>5. ASSUME NEW b \in stubbed' \ reported'
        PROVE  \E u \in Threads : pc'[u] \in Telling /\ b \in Covering(call[u].span)'
    <3>1. PICK u \in Threads : pc[u] \in Telling /\ b \in Covering(call[u].span)
      BY <2>1, <2>5 DEF StubsTold
    <3>2. u # t
      BY <2>1, <3>1 DEF Telling, Filling
    <3> QED BY <1>a, <2>1, <2>3, <3>1, <3>2
  <2>6. db'[h] # "pending" \/ h \notin Blocks
    BY <1>0, <2>1 DEF Mark
  <2> HIDE DEF h
  <2>7. ASSUME NEW b \in reported', db'[b] = "pending"
        PROVE  \E u \in Threads : pc'[u] = "hook" /\ b \in call'[u].report
    <3>1. b \in Blocks /\ b # h /\ b \in reported /\ db[b] = "pending"
      BY <1>0, <1>b, <2>1, <2>6, <2>7
    <3>2. PICK u \in Threads : pc[u] = "hook" /\ b \in call[u].report
      BY <3>1 DEF StubsTold
    <3>3. CASE u = t
      BY <2>1, <2>4, <3>1, <3>2, <3>3
    <3>4. CASE u # t
      BY <1>a, <3>2, <3>4
    <3> QED BY <3>3, <3>4
  <2> QED BY <2>5, <2>7 DEF StubsTold
<1>4. CASE ~Fill(t) /\ ~Report(t) /\ ~Hook(t)
  <2>1. UNCHANGED <<stubbed, reported>>
    <3>1. CASE Patch(t)
      BY <3>1, PatchParts DEF blocks
    <3>2. CASE ~Patch(t)
      BY <1>4, <3>2 DEF Moves, Thread, Touch, Resolve, Chain, Handle, Begin, ReadEpoch, Claim,
         Check, Doze, Expire, Miss, Spoil, Find, WriteBlock, WriteEntry, Commit, GiveUp,
         FillEnd, Return, blocks
    <3> QED BY <3>1, <3>2
  <2>2. /\ pc[t] # "hook"
        /\ pc[t] \in Telling => pc'[t] \in Telling /\ call'[t].span = call[t].span
    <3>1. CASE Patch(t)
      <4>1. PICK c \in Call, there \in Filling :
              /\ call' = [call EXCEPT ![t] = c] /\ pc' = [pc EXCEPT ![t] = there]
              /\ c.span = call[t].span /\ pc[t] # "hook"
        BY <3>1, PatchParts
      <4> QED BY <1>0, <4>1 DEF Telling
    <3>2. CASE FillEnd(t)
      BY <1>0, <3>2 DEF FillEnd, At, Enters, Goto, Telling
    <3>3. CASE ~Patch(t) /\ ~FillEnd(t)
      <4>1. pc[t] \notin Telling \cup {"hook"}
        BY <1>4, <3>3 DEF Moves, Thread, Touch, Resolve, Chain, Handle, Begin, ReadEpoch, Claim,
         Check, Doze, Expire, Miss, Spoil, Find, WriteBlock, WriteEntry, Commit, GiveUp,
         Return, At, Enters, Telling, Filling
      <4> QED BY <4>1
    <3> QED BY <3>1, <3>2, <3>3
  <2>3. \A u \in Threads : pc[u] \in Telling => pc'[u] \in Telling /\ call'[u].span = call[u].span
    BY <1>a, <2>2
  <2>4. \A u \in Threads : pc[u] = "hook" => pc'[u] = "hook" /\ call'[u] = call[u]
    BY <1>a, <2>2
  <2> QED BY <1>0, <1>b, <2>1, <2>3, <2>4, ToldKept
<1> QED BY <1>1, <1>2, <1>3, <1>4

-----------------------------------------------------------------------------
(***************************************************************************)
(* The bytes behind the marks                                              *)
(***************************************************************************)

\* The stub fill of a block runs beside no other writer of the block.
Unraced == \A b \in Stubbable : b \notin Listed /\ \A t, u \in Threads : t = u

Written(b) == Of(b) \subseteq real

\* The bytes of a block are in the file when the trap, the state DB or the entry
\* table says so, and while they are on their way there; and a block that a stub
\* may fill is not advertised before it is present, or about to be.
BytesHeld ==
    /\ \A b \in Blocks : state[b] = "present" \/ db[b] = "fetched" \/ entry[b] = "real"
          => Written(b)
    /\ \A t \in Threads : pc[t] \in {"entry", "landed"} => Written(Block(t))
    /\ sweep # 0 => sweep \in Listed /\ Written(sweep)
    /\ \A b \in Stubbable : db[b] = "fetched" \/ entry[b] = "real" =>
          \/ state[b] = "present"
          \/ \E t \in Threads : pc[t] = "landed" /\ Block(t) = b

LEMMA BytesInit == Init => BytesHeld
<1> SUFFICES ASSUME Init PROVE BytesHeld
  OBVIOUS
<1>1. PICK have \in (SUBSET Blocks) \ {Blocks} :
       /\ state = [b \in Blocks |-> IF b \in have THEN "present" ELSE "absent"]
       /\ entry = [b \in Blocks |-> IF b \in have THEN "real" ELSE "none"]
       /\ db = [b \in Blocks |-> IF b \in have THEN "fetched" ELSE "pending"]
       /\ real = UNION {Of(b) : b \in have}
  BY DEF Init
<1>2. \A b \in Blocks : state[b] = "present" \/ db[b] = "fetched" \/ entry[b] = "real"
                          => b \in have
  BY <1>1
<1>3. \A b \in have : Written(b)
  BY <1>1 DEF Written
<1>4. \A b \in have : state[b] = "present"
  BY <1>1
<1>5. sweep = 0 /\ \A t \in Threads : pc[t] = "idle"
  BY DEF Init
<1> QED BY <1>2, <1>3, <1>4, <1>5, TrapAssumption DEF BytesHeld

\* A step that takes no bytes away and makes nothing present, fetched or real
\* that it has not written.
LEMMA BytesGrow ==
    ASSUME BytesHeld, NEW t \in Threads, Stubbable \subseteq Blocks,
           real \subseteq real', UNCHANGED sweep,
           \A u \in Threads \ {t} : pc[u] \in {"entry", "landed"} <=> pc'[u] \in {"entry", "landed"},
           \A u \in Threads \ {t} : pc[u] = "landed" <=> pc'[u] = "landed",
           \A u \in Threads \ {t} : Block(u)' = Block(u),
           pc'[t] \in {"entry", "landed"} => Written(Block(t)'),
           \A b \in Blocks :
              (state'[b] = "present" \/ db'[b] = "fetched" \/ entry'[b] = "real") =>
                 \/ state[b] = "present" \/ db[b] = "fetched" \/ entry[b] = "real"
                 \/ Written(b),
           \A b \in Stubbable :
              (db'[b] = "fetched" \/ entry'[b] = "real") =>
                 \/ state'[b] = "present" \/ (pc'[t] = "landed" /\ Block(t)' = b)
                 \/ /\ db[b] = "fetched" \/ entry[b] = "real"
                    /\ state[b] # "present" /\ ~(pc[t] = "landed" /\ Block(t) = b)
    PROVE  BytesHeld'
<1>1. \A b : Written(b) => Written(b)'
  BY DEF Written, Of
<1>2. \A b \in Blocks : state'[b] = "present" \/ db'[b] = "fetched" \/ entry'[b] = "real"
          => Written(b)'
  BY <1>1 DEF BytesHeld
<1>3. \A u \in Threads : pc'[u] \in {"entry", "landed"} => Written(Block(u))'
  <2> SUFFICES ASSUME NEW u \in Threads, pc'[u] \in {"entry", "landed"}
               PROVE  Of(Block(u)') \subseteq real'
    BY DEF Written, Of
  <2>1. Written(Block(u)')
    <3>1. CASE u = t
      BY <3>1
    <3>2. CASE u # t
      <4>1. Written(Block(u)) /\ Block(u)' = Block(u)
        BY <3>2 DEF BytesHeld
      <4> QED BY <4>1
    <3> QED BY <3>1, <3>2
  <2> QED BY <2>1 DEF Written
<1>4. sweep' # 0 => sweep' \in Listed /\ Written(sweep)'
  BY <1>1 DEF BytesHeld, Written, Of
<1>5. ASSUME NEW b \in Stubbable, db'[b] = "fetched" \/ entry'[b] = "real"
      PROVE  \/ state'[b] = "present"
             \/ \E u \in Threads : pc'[u] = "landed" /\ Block(u)' = b
  <2>1. CASE state'[b] = "present" \/ (pc'[t] = "landed" /\ Block(t)' = b)
    BY <2>1
  <2>2. CASE /\ db[b] = "fetched" \/ entry[b] = "real"
             /\ state[b] # "present" /\ ~(pc[t] = "landed" /\ Block(t) = b)
    <3>1. PICK u \in Threads : pc[u] = "landed" /\ Block(u) = b
      BY <2>2 DEF BytesHeld
    <3>2. u \in Threads \ {t}
      BY <2>2, <3>1
    <3> QED BY <3>1, <3>2
  <2> QED BY <1>5, <2>1, <2>2
<1> QED BY <1>2, <1>3, <1>4, <1>5 DEF BytesHeld

LEMMA BytesFill ==
    ASSUME Unraced, TypeInv, BytesHeld, NEW t \in Threads, Fill(t)
    PROVE  BytesHeld'
<1>0. /\ TypeOK /\ UNCHANGED <<state, entry, db, sweep>> /\ pc[t] \notin {"entry", "landed"}
      /\ call \in [Threads -> Call] /\ pc \in [Threads -> Pc]
  BY DEF TypeInv, TypeOK, Fill, At, Enters
<1>1. PICK p \in Todo(t) :
        /\ \E s \in SUBSET ((Unfilled(p) \cap Stubbable) \X {p}) : real' = real \ s
        /\ \E there \in {"filling", "patch"} : pc' = [pc EXCEPT ![t] = there]
  BY FillParts
<1>2. PICK s \in SUBSET ((Unfilled(p) \cap Stubbable) \X {p}) : real' = real \ s
  BY <1>1
<1>3. pc'[t] \notin {"entry", "landed"}
  BY <1>0, <1>1
<1>4. ASSUME NEW b, Written(b), ~(b \in Stubbable /\ state[b] # "present")
      PROVE  Written(b)'
  <2>1. Of(b) \cap s = {}
    BY <1>2, <1>4 DEF Of, Unfilled, Absent
  <2> QED BY <1>2, <1>4, <2>1 DEF Written, Of
<1>5. \A b \in Stubbable, u \in Threads : u = t
  BY DEF Unraced
<1>6. ASSUME NEW b \in Stubbable, db[b] = "fetched" \/ entry[b] = "real"
      PROVE  state[b] = "present"
  BY <1>0, <1>5, <1>6 DEF BytesHeld
<1>7. \A b \in Blocks : state'[b] = "present" \/ db'[b] = "fetched" \/ entry'[b] = "real"
          => Written(b)'
  BY <1>0, <1>4, <1>6 DEF BytesHeld
<1>8. ASSUME NEW u \in Threads, pc'[u] \in {"entry", "landed"}
      PROVE  Written(Block(u))'
  <2>1. u # t /\ pc[u] = pc'[u] /\ Block(u)' = Block(u)
    BY <1>3, <1>8, Others DEF Block, Moves, Thread
  <2>2. Stubbable = {}
    BY <1>5, <2>1
  <2>3. Written(Block(u))
    BY <1>8, <2>1 DEF BytesHeld
  <2>4. Of(Block(u)) \subseteq real'
    BY <1>4, <2>2, <2>3 DEF Written, Of
  <2> QED BY <2>1, <2>4 DEF Written, Of
<1>9. sweep' # 0 => sweep' \in Listed /\ Written(sweep)'
  <2> SUFFICES ASSUME sweep # 0 PROVE sweep \in Listed /\ Of(sweep) \subseteq real'
    BY <1>0 DEF Written, Of
  <2>1. sweep \in Listed /\ Written(sweep) /\ sweep \notin Stubbable
    BY DEF BytesHeld, Unraced
  <2> QED BY <1>4, <2>1 DEF Written, Of
<1>10. \A b \in Stubbable : db'[b] = "fetched" \/ entry'[b] = "real" => state'[b] = "present"
  BY <1>0, <1>6, TrapAssumption
<1> QED BY <1>7, <1>8, <1>9, <1>10 DEF BytesHeld

LEMMA BytesStep ==
    ASSUME Unraced, TypeInv, OneResolver, BytesHeld, NEW t \in Threads, Moves(t)
    PROVE  BytesHeld'
<1>0. /\ TypeOK /\ Stubbable \subseteq Blocks
      /\ state \in [Blocks -> {"absent", "inflight", "present"}]
      /\ db \in [Blocks -> {"pending", "fetched", "stubbed", "failed"}]
      /\ entry \in [Blocks -> {"none", "real", "stub"}]
      /\ pc \in [Threads -> Pc]
  BY TrapAssumption DEF TypeInv, TypeOK
<1>a. /\ \A u \in Threads \ {t} : pc[u] \in {"entry", "landed"} <=> pc'[u] \in {"entry", "landed"}
      /\ \A u \in Threads \ {t} : pc[u] = "landed" <=> pc'[u] = "landed"
  BY Others
<1>b. \A u \in Threads \ {t} : Block(u)' = Block(u)
  BY Others DEF Block
<1>c. pc[t] \in Resolving => Block(t) \in Blocks
  BY BlockOf
<1>d. ~Claim(t) /\ ~Commit(t) /\ ~GiveUp(t) /\ pc[t] \in Resolving => Block(t)' = Block(t)
  BY ClaimKept DEF Block
<1>1. CASE WriteBlock(t)
  <2>1. /\ UNCHANGED <<state, db, entry, sweep>> /\ real \subseteq real' /\ Written(Block(t))'
        /\ pc[t] = "ensure" /\ pc'[t] = "entry" /\ Block(t)' = Block(t)
    BY <1>0, <1>1, <1>d DEF WriteBlock, Write, blocks, Written, Of, At, Enters, Goto, Resolving, WriteBlock,
       Claim, Commit, GiveUp
  <2>2. \A b : Written(b) => Written(b)'
    BY <2>1 DEF Written, Of
  <2>3. \A u \in Threads : pc'[u] \in {"entry", "landed"} => Written(Block(u))'
    <3>1. ASSUME NEW u \in Threads \ {t}, pc'[u] \in {"entry", "landed"}
          PROVE  Written(Block(u))'
      <4>1. Written(Block(u)) /\ Block(u)' = Block(u)
        BY <1>a, <1>b, <3>1 DEF BytesHeld
      <4> QED BY <2>1, <4>1 DEF Written, Of
    <3> QED BY <2>1, <3>1
  <2>4. sweep' # 0 => sweep' \in Listed /\ Written(sweep)'
    BY <2>1 DEF BytesHeld, Written, Of
  <2>5. ASSUME NEW b \in Stubbable, db'[b] = "fetched" \/ entry'[b] = "real", state'[b] # "present"
        PROVE  \E u \in Threads : pc'[u] = "landed" /\ Block(u)' = b
    <3>1. PICK u \in Threads : pc[u] = "landed" /\ Block(u) = b
      BY <2>1, <2>5 DEF BytesHeld
    <3> QED BY <1>a, <1>b, <2>1, <3>1
  <2> QED BY <2>1, <2>2, <2>3, <2>4, <2>5 DEF BytesHeld
<1>2. CASE WriteEntry(t)
  <2>1. /\ UNCHANGED <<state, real, sweep>> /\ pc[t] = "entry" /\ pc'[t] = "landed"
        /\ entry' = [entry EXCEPT ![Block(t)] = "real"]
        /\ db' = [db EXCEPT ![Block(t)] = "fetched"]
    BY <1>0, <1>2 DEF WriteEntry, blocks, At, Enters, Goto
  <2>2. Block(t)' = Block(t) /\ Block(t) \in Blocks /\ Written(Block(t))
    BY <1>2, <1>c, <1>d, <2>1 DEF Resolving, BytesHeld, Claim, Commit, GiveUp, At, Enters
  <2> DEFINE B == Block(t)
  <2>3. \A b \in Blocks \ {B} : db'[b] = db[b] /\ entry'[b] = entry[b]
    BY <1>0, <2>1
  <2>4. /\ pc'[t] \in {"entry", "landed"} => Written(Block(t)')
        /\ real \subseteq real' /\ UNCHANGED sweep
    BY <2>1, <2>2
  <2>5. \A b \in Blocks :
              (state'[b] = "present" \/ db'[b] = "fetched" \/ entry'[b] = "real") =>
                 \/ state[b] = "present" \/ db[b] = "fetched" \/ entry[b] = "real"
                 \/ Written(b)
    BY <2>1, <2>2, <2>3
  <2>6. \A b \in Stubbable :
              (db'[b] = "fetched" \/ entry'[b] = "real") =>
                 \/ state'[b] = "present" \/ (pc'[t] = "landed" /\ Block(t)' = b)
                 \/ /\ db[b] = "fetched" \/ entry[b] = "real"
                    /\ state[b] # "present" /\ ~(pc[t] = "landed" /\ Block(t) = b)
    BY <1>0, <2>1, <2>2, <2>3
  <2> HIDE DEF B
  <2> QED BY <1>0, <1>a, <1>b, <2>4, <2>5, <2>6, BytesGrow
<1>3. CASE Find(t) \/ Miss(t) \/ Spoil(t)
  <2>1. /\ UNCHANGED <<state, real, entry, sweep>> /\ pc[t] = "ensure"
        /\ pc'[t] = "missing" \/ (pc'[t] = "landed" /\ db[Block(t)] = "fetched")
        /\ db' = db \/ db' = [db EXCEPT ![Block(t)] = "failed"]
    BY <1>0, <1>3 DEF Find, Miss, Spoil, Writes, At, Enters, Goto, blocks, disk, file
  <2>2. Block(t)' = Block(t) /\ Block(t) \in Blocks
    BY <1>3, <1>c, <1>d, <2>1 DEF Resolving, Claim, Commit, GiveUp, At, Enters
  <2>3. pc'[t] \in {"entry", "landed"} => Written(Block(t)')
    BY <2>1, <2>2 DEF BytesHeld
  <2>4. \A b \in Blocks : db'[b] = "fetched" => db[b] = "fetched"
    BY <1>0, <2>1
  <2>5. real \subseteq real' /\ UNCHANGED sweep
    BY <2>1
  <2>6. \A b \in Blocks :
              (state'[b] = "present" \/ db'[b] = "fetched" \/ entry'[b] = "real") =>
                 \/ state[b] = "present" \/ db[b] = "fetched" \/ entry[b] = "real"
                 \/ Written(b)
    BY <2>1, <2>4
  <2>7. \A b \in Stubbable :
              (db'[b] = "fetched" \/ entry'[b] = "real") =>
                 \/ state'[b] = "present" \/ (pc'[t] = "landed" /\ Block(t)' = b)
                 \/ /\ db[b] = "fetched" \/ entry[b] = "real"
                    /\ state[b] # "present" /\ ~(pc[t] = "landed" /\ Block(t) = b)
    BY <1>0, <2>1, <2>4
  <2> QED BY <1>0, <1>a, <1>b, <2>3, <2>5, <2>6, <2>7, BytesGrow
<1>4. CASE Commit(t) \/ GiveUp(t)
  <2> DEFINE B == Block(t)
  <2>1. B \in Blocks /\ B \in call[t].claim /\ pc'[t] \notin {"entry", "landed"}
        /\ state[B] = "inflight" /\ pc[t] \in Resolving
    BY <1>4, CommitTakes DEF OneResolver
  <2>2. /\ UNCHANGED <<real, entry, sweep, db>>
        /\ \A b \in Blocks \ {B} : state'[b] = state[b]
        /\ \/ state'[B] = "present" /\ pc[t] = "landed"
           \/ state'[B] = "absent" /\ pc[t] = "missing"
    BY <1>0, <1>4, <2>1 DEF Commit, GiveUp, At, Enters, disk, file
  <2>3. pc[t] = "landed" => Written(B)
    BY DEF BytesHeld
  <2>4. ASSUME B \in Stubbable, db[B] = "fetched" \/ entry[B] = "real" PROVE pc[t] = "landed"
    <3>1. PICK u \in Threads : pc[u] = "landed" /\ Block(u) = B
      BY <2>1, <2>4 DEF BytesHeld
    <3>2. pc[u] \in Resolving /\ Block(u) \in call[u].claim
      BY <3>1, BlockOf DEF Resolving
    <3>3. u = t
      BY <2>1, <3>1, <3>2 DEF OneResolver
    <3> QED BY <3>1, <3>3
  <2>5. real \subseteq real' /\ UNCHANGED sweep
    BY <2>2
  <2>6. \A b \in Blocks :
              (state'[b] = "present" \/ db'[b] = "fetched" \/ entry'[b] = "real") =>
                 \/ state[b] = "present" \/ db[b] = "fetched" \/ entry[b] = "real"
                 \/ Written(b)
    BY <2>1, <2>2, <2>3
  <2>7. \A b \in Stubbable :
              (db'[b] = "fetched" \/ entry'[b] = "real") =>
                 \/ state'[b] = "present" \/ (pc'[t] = "landed" /\ Block(t)' = b)
                 \/ /\ db[b] = "fetched" \/ entry[b] = "real"
                    /\ state[b] # "present" /\ ~(pc[t] = "landed" /\ Block(t) = b)
    BY <1>0, <2>1, <2>2, <2>4
  <2>8. pc'[t] \in {"entry", "landed"} => Written(Block(t)')
    BY <2>1
  <2> QED BY <1>0, <1>a, <1>b, <2>5, <2>6, <2>7, <2>8, BytesGrow
<1>5. CASE Fill(t)
  BY <1>5, BytesFill
<1>6. CASE ~Find(t) /\ ~Miss(t) /\ ~Spoil(t) /\ ~WriteBlock(t) /\ ~WriteEntry(t)
           /\ ~Commit(t) /\ ~GiveUp(t) /\ ~Fill(t) /\ ~Patch(t)
  <2>1. /\ UNCHANGED <<real, entry, sweep>> /\ pc[t] # "landed"
        /\ pc'[t] \notin {"entry", "landed"}
    BY <1>0, <1>6 DEF Moves, Thread, Touch, Resolve, Chain, Handle, Begin, ReadEpoch, Claim, Check,
         Doze, Expire, FillEnd, Report, Hook, After, Return, At, Enters, Goto, disk, file
  <2>2. \A b \in Blocks : state'[b] = "present" <=> state[b] = "present"
    BY <1>6, AbsentKept
  <2>3. \A b \in Blocks : db'[b] = "fetched" => db[b] = "fetched"
    <3>1. CASE Hook(t)
      BY <1>0, <3>1 DEF Hook, Mark
    <3>2. CASE ~Hook(t)
      BY <1>6, <3>2 DEF Moves, Thread, Touch, Resolve, Chain, Handle, Begin, ReadEpoch, Claim, Check,
         Doze, Expire, FillEnd, Report, Return, disk
    <3> QED BY <3>1, <3>2
  <2>4. real \subseteq real' /\ UNCHANGED sweep
    BY <2>1
  <2>5. \A b \in Blocks :
              (state'[b] = "present" \/ db'[b] = "fetched" \/ entry'[b] = "real") =>
                 \/ state[b] = "present" \/ db[b] = "fetched" \/ entry[b] = "real"
                 \/ Written(b)
    BY <2>1, <2>2, <2>3
  <2>6. \A b \in Stubbable :
              (db'[b] = "fetched" \/ entry'[b] = "real") =>
                 \/ state'[b] = "present" \/ (pc'[t] = "landed" /\ Block(t)' = b)
                 \/ /\ db[b] = "fetched" \/ entry[b] = "real"
                    /\ state[b] # "present" /\ ~(pc[t] = "landed" /\ Block(t) = b)
    BY <1>0, <2>1, <2>2, <2>3
  <2>7. pc'[t] \in {"entry", "landed"} => Written(Block(t)')
    BY <2>1
  <2> QED BY <1>0, <1>a, <1>b, <2>4, <2>5, <2>6, <2>7, BytesGrow
<1>7. CASE Patch(t)
  <2>1. /\ UNCHANGED <<state, real, db, sweep>> /\ pc[t] # "landed"
        /\ entry' = entry \/ entry' = [entry EXCEPT ![Patching(t)] = "stub"]
        /\ \E there \in Filling : pc' = [pc EXCEPT ![t] = there]
    BY <1>7, PatchParts DEF blocks
  <2>2. pc'[t] \notin {"entry", "landed"}
    BY <1>0, <2>1 DEF Filling
  <2>3. \A b \in Blocks : entry'[b] = "real" => entry[b] = "real"
    BY <1>0, <2>1
  <2>4. real \subseteq real' /\ UNCHANGED sweep
    BY <2>1
  <2>5. \A b \in Blocks :
              (state'[b] = "present" \/ db'[b] = "fetched" \/ entry'[b] = "real") =>
                 \/ state[b] = "present" \/ db[b] = "fetched" \/ entry[b] = "real"
                 \/ Written(b)
    BY <2>1, <2>3
  <2>6. \A b \in Stubbable :
              (db'[b] = "fetched" \/ entry'[b] = "real") =>
                 \/ state'[b] = "present" \/ (pc'[t] = "landed" /\ Block(t)' = b)
                 \/ /\ db[b] = "fetched" \/ entry[b] = "real"
                    /\ state[b] # "present" /\ ~(pc[t] = "landed" /\ Block(t) = b)
    BY <1>0, <2>1, <2>3
  <2>7. pc'[t] \in {"entry", "landed"} => Written(Block(t)')
    BY <2>2
  <2> QED BY <1>0, <1>a, <1>b, <2>4, <2>5, <2>6, <2>7, BytesGrow
<1> QED BY <1>1, <1>2, <1>3, <1>4, <1>5, <1>6, <1>7

-----------------------------------------------------------------------------
(***************************************************************************)
(* A thread alone makes its range readable                                 *)
(***************************************************************************)
Alone == \A t, u \in Threads : t = u

\* Where a thread has claims behind it, or to make.
Attempting == {"claim", "check", "wait", "asleep"} \cup Resolving

\* A block that this resolution attempted is one it lost, it never waits, and
\* what it leaves is covered.
LostKnown ==
    \A t \in Threads :
        /\ pc[t] = "epoch" => /\ epoch # 0 /\ call[t].lost = {}
                             /\ \A b \in Blocks : attempt[b] # epoch
        /\ pc[t] \in Attempting =>
              \A b \in Blocks : attempt[b] = call[t].mine => b \in call[t].lost
        /\ pc[t] = "check" => Claimable(t) = {} /\ ~call[t].waited
        /\ pc[t] \notin {"wait", "asleep"}
        /\ pc[t] \in {"report", "hook", "return"} /\ failures = 0 => Covered(call[t].span)

LEMMA LostInit == Init => LostKnown
BY DEF Init, LostKnown, Attempting, Resolving

LEMMA LostStep ==
    ASSUME Alone, TypeInv, OneResolver, PagesInv, LostKnown, NEW t \in Threads, Moves(t)
    PROVE  LostKnown'
<1> USE DEF At, Enters, Goto
<1>0. /\ call \in [Threads -> Call] /\ pc \in [Threads -> Pc] /\ call[t] \in Call
      /\ state \in [Blocks -> {"absent", "inflight", "present"}]
      /\ attempt \in [Blocks -> Epochs] /\ failures \in Nat
  BY TrapAssumption DEF TypeInv, TypeOK
<1>a. SUFFICES
        /\ pc'[t] = "epoch" => /\ epoch' # 0 /\ call'[t].lost = {}
                              /\ \A b \in Blocks : attempt'[b] # epoch'
        /\ pc'[t] \in Attempting =>
              \A b \in Blocks : attempt'[b] = call'[t].mine => b \in call'[t].lost
        /\ pc'[t] = "check" => Claimable(t)' = {} /\ ~call'[t].waited
        /\ pc'[t] \notin {"wait", "asleep"}
        /\ pc'[t] \in {"report", "hook", "return"} /\ failures' = 0 => Covered(call[t].span)'
  BY DEF Alone, LostKnown
<1>b. pc[t] \notin Resolving => \A b \in Blocks : state[b] # "inflight"
  BY DEF Alone, OneResolver
<1>1. CASE Touch(t) \/ Resolve(t) \/ Chain(t) \/ Handle(t)
  <2>1. pc'[t] \in {"fault", "start", "chained"}
    BY <1>0, <1>1 DEF Touch, Resolve, Chain, Handle
  <2> QED BY <2>1 DEF Attempting, Resolving
<1>2. CASE Begin(t)
  <2>1. epoch' \notin InUse /\ epoch' # 0 /\ pc'[t] = "epoch" /\ call'[t].lost = {}
    BY <1>0, <1>2 DEF Begin, Call
  <2>2. \A b \in Blocks : attempt'[b] \in InUse \/ attempt'[b] = 0
    BY <1>2 DEF Begin
  <2> QED BY <2>1, <2>2 DEF Attempting, Resolving
<1>3. CASE ReadEpoch(t)
  <2>1. /\ pc[t] = "epoch" /\ pc'[t] = "claim" /\ call'[t].mine = epoch
        /\ UNCHANGED attempt
    BY <1>0, <1>3 DEF ReadEpoch, Call, blocks
  <2> QED BY <2>1 DEF LostKnown
<1>4. CASE Claim(t)
  <2>1. PICK first \in SUBSET Claimable(t) :
          /\ state' = [b \in Blocks |-> IF b \in first THEN "inflight" ELSE state[b]]
          /\ call'[t].claim = first /\ call'[t].span = call[t].span
          /\ call'[t].mine = call[t].mine /\ call'[t].lost = call[t].lost
          /\ call'[t].waited = (/\ first = {}
                                /\ \E b \in Covering(call[t].span) : state[b] = "inflight")
          /\ pc'[t] = IF first = {} THEN "check" ELSE "ensure"
          /\ first = {} => Claimable(t) = {}
    BY <1>4, ClaimTakes
  <2>2. pc[t] = "claim" /\ UNCHANGED attempt
    BY <1>4 DEF Claim
  <2>3. ~call'[t].waited
    BY <1>b, <2>1, <2>2 DEF Covering, Resolving
  <2>4. first = {} => Claimable(t)' = {}
    <3> SUFFICES ASSUME first = {} PROVE Claimable(t)' = {}
      OBVIOUS
    <3>1. \A b \in Blocks : state'[b] = state[b]
      BY <2>1
    <3>2. \A b \in Blocks : b \in Claimable(t)' => b \in Claimable(t)
      BY <2>1, <2>2, <3>1 DEF Claimable, Covering
    <3> QED BY <2>1, <3>2 DEF Claimable, Covering
  <2>5. \A b \in Blocks : attempt'[b] = call'[t].mine => b \in call'[t].lost
    BY <2>1, <2>2 DEF LostKnown, Attempting
  <2> QED BY <2>1, <2>3, <2>4, <2>5
<1>5. CASE Check(t)
  <2>1. /\ pc[t] = "check" /\ ~call[t].waited /\ Claimable(t) = {}
        /\ pc'[t] = (IF call[t].lost # {} THEN "fill" ELSE "return")
        /\ call'[t].span = call[t].span /\ UNCHANGED <<failures, page>>
    BY <1>0, <1>5 DEF Check, After, Call, cover, LostKnown
  <2>2. ASSUME call[t].lost = {}, failures = 0 PROVE Covered(call[t].span)
    <3>1. \A b \in Covering(call[t].span) : state[b] = "present"
      <4>1. \A b \in Blocks : attempt[b] # call[t].mine /\ state[b] # "inflight"
        BY <1>b, <2>1, <2>2 DEF LostKnown, Attempting, Resolving
      <4> QED BY <1>0, <2>1, <4>1 DEF Claimable, Covering
    <3>2. \A p \in call[t].span : p \in Pages /\ Absent(p) = {}
      BY <1>0, <3>1 DEF Covering, Absent, Call
    <3> QED BY <2>2, <3>2 DEF PagesInv, WholePages, Covered
  <2>3. Covered(call[t].span)' <=> Covered(call[t].span)
    BY <2>1 DEF Covered
  <2> QED BY <2>1, <2>2, <2>3 DEF Attempting, Resolving
<1>6. CASE Doze(t) \/ Expire(t)
  BY <1>6 DEF Doze, Expire, LostKnown
<1>7. CASE Miss(t) \/ Spoil(t) \/ Find(t) \/ WriteBlock(t) \/ WriteEntry(t)
  <2>1. /\ pc[t] \in Resolving /\ pc'[t] \in Resolving /\ UNCHANGED <<call, attempt>>
    BY <1>0, <1>7 DEF Miss, Spoil, Find, WriteBlock, WriteEntry, Resolving, blocks
  <2> QED BY <2>1 DEF LostKnown, Attempting, Resolving
<1>8. CASE Commit(t) \/ GiveUp(t)
  <2>1. /\ Block(t) \in Blocks /\ pc[t] \in Resolving
        /\ call'[t].lost = IF pc[t] = "missing" THEN call[t].lost \cup {Block(t)}
                           ELSE call[t].lost
        /\ call'[t].mine = call[t].mine /\ pc'[t] \in {"claim", "ensure"}
    BY <1>8, CommitTakes
  <2>2. \A b \in Blocks : attempt'[b] = attempt[b] \/ (b = Block(t) /\ pc[t] = "missing")
    BY <1>0, <1>8 DEF Commit, GiveUp
  <2> QED BY <2>1, <2>2 DEF LostKnown, Attempting
<1>9. CASE Fill(t) \/ Patch(t)
  <2>1. PICK there \in Filling : pc' = [pc EXCEPT ![t] = there]
    BY <1>9, FillParts, PatchParts DEF Filling
  <2>2. pc'[t] \in Filling
    BY <1>0, <2>1
  <2> QED BY <2>2 DEF Filling, Attempting, Resolving
<1>10. CASE Report(t) \/ Hook(t)
  <2>1. /\ pc[t] \in {"report", "hook"} /\ pc'[t] \in {"hook", "return"}
        /\ call'[t].span = call[t].span /\ UNCHANGED <<page, failures>>
    BY <1>0, <1>10 DEF Report, Hook, cover, Call
  <2>2. Covered(call[t].span)' <=> Covered(call[t].span)
    BY <2>1 DEF Covered
  <2> QED BY <2>1, <2>2 DEF LostKnown, Attempting, Resolving
<1>11. CASE Return(t)
  <2>1. pc'[t] \in {"fault", "idle"}
    BY <1>0, <1>11 DEF Return
  <2> QED BY <2>1 DEF Attempting, Resolving
<1>12. CASE FillEnd(t)
  <2>1. pc'[t] = "report" /\ Todo(t) = {} /\ UNCHANGED <<call, page>>
    BY <1>0, <1>12 DEF FillEnd, cover
  <2>2. Covered(call[t].span)'
    BY <2>1 DEF Covered, Todo
  <2> QED BY <2>1, <2>2 DEF Attempting, Resolving
<1> QED BY <1>1, <1>2, <1>3, <1>4, <1>5, <1>6, <1>7, <1>8, <1>9, <1>10, <1>11, <1>12
        DEF Moves, Thread

-----------------------------------------------------------------------------
(***************************************************************************)
(* The invariant                                                           *)
(***************************************************************************)
TrapInv ==
    /\ TypeInv /\ OneResolver /\ PagesInv /\ StubsTold
    /\ Unraced => BytesHeld
    /\ Alone => LostKnown

LEMMA InvInit == Init => TrapInv
BY TypeInit, ResolverInit, PagesInit, ToldInit, BytesInit, LostInit DEF TrapInv

\* The sweep and the steps that change nothing here.
LEMMA Apart ==
    ASSUME TrapInv, [Steps]_vars, UNCHANGED <<blocks, cover, epoch, pc, call>>
    PROVE  OneResolver' /\ PagesInv' /\ StubsTold' /\ (Alone => LostKnown')
<1>1. UNCHANGED <<state, attempt, stubbed, reported, page, failures>>
  BY DEF blocks, cover
<1>2. OneResolver'
  BY <1>1 DEF TrapInv, OneResolver
<1>3. PagesInv'
  <2>1. Opened' = Opened /\ Bared' = Bared
    BY <1>1 DEF Opened, Bared, At, Enters, Patching
  <2>2. Flagged'
    BY <1>1 DEF TrapInv, PagesInv, Flagged
  <2> QED BY <1>1, <2>1, <2>2, PagesKept DEF TrapInv
<1>4. StubsTold'
  BY <1>1, PendingOnce, ToldKept DEF TrapInv, TypeInv, TypeOK
<1>5. ASSUME LostKnown PROVE LostKnown'
  BY <1>1, <1>5 DEF LostKnown, Claimable, Covering, Covered
<1> QED BY <1>2, <1>3, <1>4, <1>5 DEF TrapInv

LEMMA BytesSweep ==
    ASSUME Unraced, TypeInv, BytesHeld, (\E b \in Listed : SweepBlock(b)) \/ SweepEntry
    PROVE  BytesHeld'
<1>0. /\ UNCHANGED <<state, pc, call>> /\ real \subseteq real'
      /\ db \in [Blocks -> {"pending", "fetched", "stubbed", "failed"}]
      /\ entry \in [Blocks -> {"none", "real", "stub"}]
  BY DEF SweepBlock, SweepEntry, Write, blocks, TypeInv, TypeOK
<1>1. \A b : Written(b) => Written(b)'
  BY <1>0 DEF Written, Of
<1>2. \A u \in Threads : Block(u)' = Block(u) /\ pc'[u] = pc[u]
  BY <1>0 DEF Block
<1>3. \A u \in Threads : pc'[u] \in {"entry", "landed"} => Written(Block(u))'
  <2> SUFFICES ASSUME NEW u \in Threads, pc'[u] \in {"entry", "landed"}
               PROVE  Of(Block(u)') \subseteq real'
    BY DEF Written, Of
  <2>1. Written(Block(u)) /\ Block(u)' = Block(u)
    BY <1>2 DEF BytesHeld
  <2> QED BY <1>0, <2>1 DEF Written
<1>4. ASSUME NEW b \in Listed, SweepBlock(b) PROVE BytesHeld'
  <2>1. /\ sweep' = b /\ Written(b)' /\ UNCHANGED <<entry, db>>
    BY <1>4 DEF SweepBlock, Write, Written, Of
  <2>2. sweep' # 0 => sweep' \in Listed /\ Written(sweep)'
    BY <2>1 DEF Written, Of
  <2> QED BY <1>0, <1>1, <1>2, <1>3, <2>1, <2>2 DEF BytesHeld
<1>5. ASSUME SweepEntry PROVE BytesHeld'
  <2>1. /\ sweep \in Listed /\ Written(sweep) /\ sweep' = 0 /\ sweep \notin Stubbable
        /\ \A b \in Blocks \ {sweep} : entry'[b] = entry[b] /\ db'[b] = db[b]
    BY <1>0, <1>5 DEF SweepEntry, BytesHeld, Unraced
  <2>2. \A b \in Blocks : state'[b] = "present" \/ db'[b] = "fetched" \/ entry'[b] = "real"
          => Written(b)'
    BY <1>0, <1>1, <2>1 DEF BytesHeld
  <2>3. \A b \in Stubbable : db'[b] = "fetched" \/ entry'[b] = "real" =>
          \/ state'[b] = "present"
          \/ \E t \in Threads : pc'[t] = "landed" /\ Block(t)' = b
    BY <1>0, <1>2, <2>1, TrapAssumption DEF BytesHeld
  <2> QED BY <1>3, <2>1, <2>2, <2>3 DEF BytesHeld
<1> QED BY <1>4, <1>5

LEMMA InvStep == TrapInv /\ [Steps]_vars => TrapInv'
<1> SUFFICES ASSUME TrapInv, [Steps]_vars PROVE TrapInv'
  OBVIOUS
<1>0. TypeInv'
  BY TypeStep DEF TrapInv
<1>1. ASSUME NEW t \in Threads, Moves(t) PROVE TrapInv'
  <2>1. OneResolver' /\ PagesInv' /\ StubsTold'
    BY <1>1, ResolverStep, PagesStep, ToldStep DEF TrapInv
  <2>2. Unraced => BytesHeld'
    BY <1>1, BytesStep DEF TrapInv
  <2>3. Alone => LostKnown'
    BY <1>1, LostStep DEF TrapInv
  <2> QED BY <1>0, <2>1, <2>2, <2>3 DEF TrapInv, Unraced, Alone
<1>2. CASE (\E b \in Listed : SweepBlock(b)) \/ SweepEntry
  <2>1. UNCHANGED <<blocks, cover, epoch, pc, call>>
    BY <1>2 DEF SweepBlock, SweepEntry
  <2>2. Unraced => BytesHeld'
    BY <1>2, BytesSweep DEF TrapInv
  <2> QED BY <1>0, <2>1, <2>2, Apart DEF TrapInv, Unraced, Alone
<1>3. CASE UNCHANGED vars
  <2>1. UNCHANGED <<blocks, cover, epoch, pc, call, real, entry, db, sweep>>
    BY <1>3 DEF vars, disk, file
  <2>2. \A u : Block(u)' = Block(u)
    BY <2>1 DEF Block
  <2>3. BytesHeld => BytesHeld'
    BY <2>1, <2>2 DEF BytesHeld, Written, Of, blocks
  <2> QED BY <1>0, <2>1, <2>3, Apart DEF TrapInv, Unraced, Alone
<1> QED BY <1>1, <1>2, <1>3 DEF Steps, Next, Moves

\* What they say together is what the runs check.
LEMMA InvImplies ==
    ASSUME TrapInv
    PROVE  /\ TypeOK /\ OneResolver /\ WholePages /\ NoSilentStub /\ GuardsMatchMarks
           /\ Unraced => MarksAreTrue
<1>1. TypeOK /\ OneResolver /\ WholePages /\ GuardsMatchMarks
  BY DEF TrapInv, TypeInv, PagesInv
<1>2. NoSilentStub
  BY DEF TrapInv, StubsTold, NoSilentStub, At, Telling
<1>3. ASSUME Unraced PROVE MarksAreTrue
  <2>1. EntryIsReal
    BY <1>3 DEF TrapInv, BytesHeld, Written, EntryIsReal
  <2>2. ASSUME NEW p \in Pages, page[p] = "real", NEW b \in Blocks, p \in On[b]
        PROVE  <<b, p>> \in real
    <3>1. state[b] = "present"
      BY <1>1, <2>2 DEF WholePages, Absent
    <3> QED BY <1>3, <2>2, <3>1 DEF TrapInv, BytesHeld, Written, Of
  <2> QED BY <1>1, <2>1, <2>2 DEF MarksAreTrue, RealMarkIsReal
<1> QED BY <1>1, <1>2, <1>3

\* The steps of the mapping are those of the trap, or none of it.
LEMMA MappingSteps == [MappingNext]_allVars => [Steps]_vars
<1> SUFFICES ASSUME [MappingNext]_allVars PROVE [Steps]_vars
  OBVIOUS
<1>1. ASSUME NEW t \in Threads, Access(t) \/ Step(t) PROVE Steps
  BY <1>1 DEF Access, Step, Starts, Foreign, Resolution, Steps, Next, Thread, Chain
<1>2. CASE (\E b \in Listed : SweepBlock(b) /\ UNCHANGED mapVars)
             \/ (SweepEntry /\ UNCHANGED mapVars)
  BY <1>2 DEF Steps, Next
<1>3. CASE Leave
  BY <1>3 DEF Leave, Unmap, UnmapGrace, UnmapZombie, UnmapFree, ShutdownBegin, ShutdownEnd,
              trapVars
<1>4. CASE UNCHANGED allVars
  BY <1>4 DEF allVars, trapVars
<1> QED BY <1>1, <1>2, <1>3, <1>4 DEF MappingNext

-----------------------------------------------------------------------------

\* The inductive invariant of the trap, of a mapping on its own.
THEOREM TrapInvariance == Spec => []TrapInv
<1>1. [Next]_vars => [Steps]_vars
  BY DEF Steps
<1> QED BY <1>1, InvInit, InvStep, PTL DEF Spec

\* The same while the mapping is unmapped, or the trap shut down, beside it.
THEOREM MappingInvariance == MappingSpec => []TrapInv
<1>1. MappingInit => Init
  BY DEF MappingInit
<1> QED BY <1>1, InvInit, InvStep, MappingSteps, PTL DEF MappingSpec

\* TypeOK of Trap.
THEOREM TrapTypes == Spec => []TypeOK
BY TrapInvariance, InvImplies, PTL

\* A block in flight has one thread that resolves it, in every interleaving of
\* trap_claim, the commits and the failures.
THEOREM OneResolverHolds == Spec => []OneResolver
BY TrapInvariance, InvImplies, PTL

\* trap_mark_present and trap_flip_pages: the counts are right, no page is
\* readable too early, or kept protected for nothing.
THEOREM WholePagesHold == Spec => []WholePages
BY TrapInvariance, InvImplies, PTL

\* trap_stub_fill and trap_report_stubs: no stub is left out of the state DB,
\* whichever threads share a range.
THEOREM StubsAreTold == Spec => []NoSilentStub
BY TrapInvariance, InvImplies, PTL

\* A fill leaves present blocks alone (trap_stub_fill), and so does every other
\* step.
THEOREM PresentBytesStay == Spec => PresentBytesKept
<1>1. TypeInv /\ [Next]_vars =>
        [\A b \in Blocks : state[b] = "present" =>
           \A s \in Of(b) : s \in real => s \in real']_vars
  <2> SUFFICES ASSUME TypeInv, [Next]_vars, NEW b \in Blocks, state[b] = "present",
                      NEW s \in Of(b), s \in real
               PROVE  s \in real'
    OBVIOUS
  <2>1. ASSUME NEW t \in Threads, Fill(t) PROVE s \in real'
    <3>1. PICK p \in Todo(t) :
            \E w \in SUBSET ((Unfilled(p) \cap Stubbable) \X {p}) : real' = real \ w
      BY <2>1, FillParts
    <3>2. \A w \in SUBSET ((Unfilled(p) \cap Stubbable) \X {p}) : s \notin w
      BY DEF Of, Unfilled, Absent
    <3> QED BY <3>1, <3>2
  <2>2. CASE \A t \in Threads : ~Fill(t)
    BY <2>2 DEF Next, Thread, Touch, Resolve, Handle, Begin, ReadEpoch, Claim, Check, Doze,
         Expire, Miss, Spoil, Find, WriteBlock, Write, WriteEntry, Commit, GiveUp, FillEnd, Patch,
         PatchOpen, PatchFail, PatchClose, Report, Hook,
         Return, SweepBlock, SweepEntry, disk, file, vars
  <2> QED BY <2>1, <2>2
<1>2. TrapInv => TypeInv
  BY DEF TrapInv
<1> QED BY <1>1, <1>2, TrapInvariance, PTL DEF Spec, PresentBytesKept

\* The types of the mapping and of what is mapped.
THEOREM MappingTypes == MappingSpec => []MappingTypeOK
<1> DEFINE Own == /\ mapping \in {"mapped", "zombie", "forgotten", "unmapped"}
                  /\ leaving \in {"no", "unmap", "settle", "shutdown"}
                  /\ held \in BOOLEAN /\ installed \in BOOLEAN
<1>1. MappingInit => Own
  BY DEF MappingInit
<1>2. Own /\ [MappingNext]_allVars => Own'
  <2> SUFFICES ASSUME Own, [MappingNext]_allVars PROVE Own'
    OBVIOUS
  <2>1. CASE UNCHANGED mapVars
    BY <2>1 DEF mapVars
  <2>2. CASE Leave
    BY <2>2 DEF Leave, Unmap, UnmapGrace, UnmapZombie, UnmapFree, ShutdownBegin, ShutdownEnd
  <2>3. UNCHANGED mapVars \/ Leave
    BY DEF MappingNext, Access, Step, Starts, Foreign, Resolution, allVars
  <2> QED BY <2>1, <2>2, <2>3
<1>3. TrapInv /\ Own => MappingTypeOK
  BY InvImplies DEF MappingTypeOK
<1> HIDE DEF Own
<1> QED BY <1>1, <1>2, <1>3, MappingInvariance, PTL DEF MappingSpec

\* The marks of the pages, the guards of the operating system and the entry
\* table agree with the bytes of the file, whichever download, write or mprotect
\* fails, when no stub fill runs beside another writer of its block: the guards
\* with the two exceptions that trap_stub_patch_entry makes (GuardsMatchMarks).
\* (trap_stub_fill writes outside the state mutex: without the assumption a
\* fill overwrites bytes that were just fetched.)
THEOREM MarksTrue == ASSUME Unraced PROVE MappingSpec => []MarksAreTrue
BY MappingInvariance, InvImplies, PTL

\* The marks and the guards agree for any number of threads, whoever fills: but
\* for a page that is open while trap_stub_patch_entry writes a record on it, or
\* that carries the record of a stubbed block, once an mprotect has failed
\* (vfs_trap.cpp:499-517).
THEOREM GuardsAgree == MappingSpec => []GuardsMatchMarks
BY MappingInvariance, InvImplies, PTL

\* A resolution of a thread that nobody competes with returns with its range
\* readable, or an mprotect failed (vfs_trap_resolve_range).
THEOREM ResolutionCovers == ASSUME Alone PROVE MappingSpec => ResolveCovers
<1>1. TrapInv =>
        [\A t \in Threads : At(t, "return") /\ pc'[t] # "return" /\ failures = 0
            => Covered(call[t].span)]_vars
  BY DEF TrapInv, LostKnown, At, Enters
<1> QED BY <1>1, MappingInvariance, PTL DEF ResolveCovers

-----------------------------------------------------------------------------
(***************************************************************************)
(* The pins.  A resolution that goes on was pinned before the step, so the *)
(* set of pins grows only where one starts, and that needs a mapping that  *)
(* is registered and not in its grace.  Unmap, the end of the wait and the *)
(* end of a shutdown see no pins before they let the mapping go.           *)
(***************************************************************************)

\* The mapping is gone, or an unmap is about to free it without another look.
Going == mapping \in {"forgotten", "unmapped"} \/ leaving = "settle"

PinInv ==
    /\ pc \in [Threads -> Pc]
    /\ Going => Pinned = {}

\* Thread's steps keep the type of pc, and are taken inside a resolution or in
\* the handler.
LEMMA ThreadPc ==
    ASSUME pc \in [Threads -> Pc], NEW t \in Threads, Thread(t)
    PROVE  /\ pc' \in [Threads -> Pc]
           /\ pc[t] \notin {"idle", "chained"}
<1> USE DEF At, Enters, Goto, Pc
<1>1. CASE Handle(t)
  BY <1>1 DEF Handle
<1>2. CASE Begin(t) \/ ReadEpoch(t) \/ Doze(t) \/ Miss(t) \/ Spoil(t) \/ Find(t)
              \/ WriteBlock(t) \/ WriteEntry(t)
  BY <1>2 DEF Begin, ReadEpoch, Doze, Miss, Spoil, Find, WriteBlock, WriteEntry
<1>3. CASE Claim(t)
  BY <1>3 DEF Claim
<1>4. CASE Check(t) \/ Expire(t)
  BY <1>4 DEF Check, Expire, After
<1>5. CASE Commit(t) \/ GiveUp(t)
  <2>1. pc' = Woken(t, "claim") \/ pc' = Woken(t, "ensure")
    BY <1>5 DEF Commit, GiveUp, Committed
  <2>2. pc[t] \in {"landed", "missing"}
    BY <1>5 DEF Commit, GiveUp
  <2> QED BY <2>1, <2>2 DEF Woken
<1>6. CASE Fill(t) \/ FillEnd(t) \/ Patch(t)
  BY <1>6 DEF Fill, FillPage, FillSlow, FillShut, FillEnd, Patch, PatchOpen, PatchFail, PatchClose,
              NextPatch
<1>7. CASE Report(t) \/ Hook(t)
  BY <1>7 DEF Report, Hook
<1>8. CASE Return(t)
  BY <1>8 DEF Return
<1> QED BY <1>1, <1>2, <1>3, <1>4, <1>5, <1>6, <1>7, <1>8 DEF Thread

\* A resolution that goes on holds a pin.
LEMMA ResolutionIsPinned ==
    ASSUME pc \in [Threads -> Pc], NEW t \in Threads, Resolution(t)
    PROVE  t \in Pinned
BY ThreadPc DEF Resolution, Pinned, At, Enters

\* The only steps that can add a pin start a resolution.
LEMMA PinsGrow ==
    ASSUME pc \in [Threads -> Pc], NEW t \in Threads, Access(t) \/ Foreign(t)
    PROVE  pc' \in [Threads -> Pc] /\ Pinned' \subseteq Pinned
BY DEF Access, Touch, Foreign, Goto, At, Enters, Pinned, Pc

\* The inductive invariant of the pins.
THEOREM PinInvariance ==
    ASSUME Quiet PROVE MappingSpec => []PinInv
<1>1. MappingInit => PinInv
  BY DEF MappingInit, Init, PinInv, Going, Pc
<1>2. PinInv /\ [MappingNext]_allVars => PinInv'
  <2> SUFFICES ASSUME PinInv, [MappingNext]_allVars PROVE PinInv'
    OBVIOUS
  <2> USE DEF PinInv
  <2>1. ASSUME NEW t \in Threads, Access(t) PROVE PinInv'
    <3>1. Going' => Going
      BY <2>1 DEF Access, Going, mapVars
    <3> QED BY <2>1, <3>1, PinsGrow
  <2>2. ASSUME NEW t \in Threads, Starts(t) PROVE PinInv'
    <3>1. ~Going'
      BY <2>2, Quiet DEF Starts, Going, Registered, mapVars
    <3>2. pc' \in [Threads -> Pc]
      BY <2>2 DEF Starts, Handle, Resolve, Goto, At, Enters, Pc
    <3> QED BY <3>1, <3>2
  <2>3. ASSUME NEW t \in Threads, Foreign(t) PROVE PinInv'
    <3>1. Going' => Going
      BY <2>3 DEF Foreign, Going, mapVars
    <3> QED BY <2>3, <3>1, PinsGrow
  <2>4. ASSUME NEW t \in Threads, Resolution(t) PROVE PinInv'
    <3>1. ~Going'
      BY <2>4, ResolutionIsPinned DEF Resolution, Going, mapVars
    <3> QED BY <2>4, <3>1, ThreadPc DEF Resolution
  <2>5. ASSUME UNCHANGED <<pc, mapVars>> PROVE PinInv'
    BY <2>5 DEF Going, Pinned, mapVars
  <2>6. CASE \E b \in Listed : SweepBlock(b) /\ UNCHANGED mapVars
    BY <2>5, <2>6 DEF SweepBlock
  <2>7. CASE SweepEntry /\ UNCHANGED mapVars
    BY <2>5, <2>7 DEF SweepEntry
  <2>8. CASE Leave
    <3>1. pc' = pc /\ Pinned' = Pinned
      BY <2>8 DEF Leave, Unmap, UnmapGrace, UnmapZombie, UnmapFree, ShutdownBegin,
                  ShutdownEnd, trapVars, vars, Pinned
    <3>2. Going' => Going \/ Pinned = {}
      BY <2>8 DEF Leave, Unmap, UnmapGrace, UnmapZombie, UnmapFree, ShutdownBegin,
                  ShutdownEnd, Unpinned, Going, Registered
    <3> QED BY <3>1, <3>2
  <2>9. CASE UNCHANGED allVars
    BY <2>5, <2>9 DEF allVars, trapVars, vars, mapVars
  <2> QED BY <2>1, <2>2, <2>3, <2>4, <2>6, <2>7, <2>8, <2>9 DEF MappingNext, Step
<1> QED BY <1>1, <1>2, PTL DEF MappingSpec

\* No mapping is unmapped or forgotten under a resolution: PinsHold, for any
\* number of threads, pages and blocks (vfs_trap_unmap, vfs_trap_shutdown).
THEOREM NoResolverOnFreed ==
    ASSUME Quiet PROVE MappingSpec => []PinsHold
<1>1. PinInv => PinsHold
  BY DEF PinInv, Going, PinsHold
<1> QED BY <1>1, PinInvariance, PTL
=============================================================================
