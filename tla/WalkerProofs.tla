------------------------------ MODULE WalkerProofs ------------------------------
(***************************************************************************)
(* Proofs about Walker, for all sizes of the window, of the sequence       *)
(* numbers and of the world, and any number of requests.                   *)
(*                                                                         *)
(* WalkerInv is the window: its counters stay in the array also while a    *)
(* walk has failed (Tidy), and it is aligned with the steps (Aligned).     *)
(* PlaceInv is the place: either something is under way that will place    *)
(* the player anew, or the requests under way lead from the server's cell  *)
(* to where the player is going (Placing).                                 *)
(***************************************************************************)
EXTENDS Walker, TLAPS, FiniteSetTheorems, SequenceTheorems, WellFoundedInduction

\* Min returns an element.  (The initial segments of the elements are finite
\* sets, and inclusion is well-founded on those.)
LEMMA MinIn ==
    ASSUME NEW S, S \subseteq Nat, S # {}
    PROVE  Min(S) \in S
<1> DEFINE I == {1..n : n \in S}
<1>1. I \subseteq FiniteSubsetsOf(Nat) /\ I # {}
  <2>1. \A n \in S : 1..n \in SUBSET Nat /\ IsFiniteSet(1..n)
    BY FS_Interval
  <2> QED BY <2>1 DEF FiniteSubsetsOf
<1>2. PICK i \in I : \A j \in I : <<j, i>> \notin StrictSubsetOrdering(Nat)
  <2> HIDE DEF I
  <2> QED BY <1>1, FS_StrictSubsetOrderingWellFounded, WFMin
<1>3. PICK n \in S : i = 1..n
  BY <1>2
<1>4. ASSUME NEW m \in S, m < n PROVE FALSE
  <2>1. 1..m \subseteq 1..n /\ n \in 1..n /\ n \notin 1..m
    BY <1>4
  <2>2. <<1..m, 1..n>> \in StrictSubsetOrdering(Nat)
    BY <2>1 DEF StrictSubsetOrdering
  <2> QED BY <2>2, <1>2, <1>3
<1>5. \A m \in S : n <= m
  BY <1>4
<1> QED BY <1>5 DEF Min

-----------------------------------------------------------------------------
(***************************************************************************)
(* The window                                                              *)
(***************************************************************************)
\* What is counted fits the array: the steps above current, also below a count
\* that went negative after a walk had failed.
Tidy ==
    /\ current + Len(steps) <= MaxSteps
    /\ current + Len(steps) <= MaxSteps + count

Aligned == ~failed =>
    /\ count = current + Len(steps)
    /\ \A i \in 1..Len(steps) : slot[current + i - 1].to = steps[i]
    /\ \A i \in 0..current - 1 : ~slot[i].accepted

\* The inductive invariant of the window.
WalkerInv == TypeOK /\ Tidy /\ Aligned

LEMMA Numbers ==
    /\ \A s \in Sequences : NextSequence(s) \in Sequences
    /\ \A c \in Cells, d \in {0, 1} : Beyond(c, d) \in Cells
    /\ 0 \in Sequences /\ 0 \in Cells /\ 0 \in Slots
    /\ MaxSteps \in Nat /\ MaxSteps # 0
<1>1. NumCells \in Nat \ {0} /\ MaxSequence \in Nat \ {0} /\ MaxSteps \in Nat \ {0}
  BY WalkerAssumption
<1>2. ASSUME NEW c \in Cells, NEW d \in {0, 1} PROVE Beyond(c, d) \in Cells
  <2>1. c + d \in Nat
    BY <1>1 DEF Cells
  <2> QED BY <1>1, <2>1 DEF Beyond, Cells
<1> QED BY <1>1, <1>2 DEF NextSequence, Sequences, Cells, Slots

LEMMA IndexIs ==
    ASSUME TypeOK, NEW seq
    PROVE  \/ Index(seq) = count /\ count \in Nat
           \/ Index(seq) \in 0..count - 1
           \/ Index(seq) = 0 /\ count < 0
<1> DEFINE found == {i \in 0..count - 1 : slot[i].seq = seq}
<1>1. Index(seq) = IF found # {} THEN Min(found) ELSE IF count < 0 THEN 0 ELSE count
  BY DEF Index
<1>2. count \in Int
  BY WalkerAssumption DEF TypeOK
<1>3. found \subseteq Nat /\ found \subseteq 0..count - 1
  BY <1>2
<1>4. found # {} => Min(found) \in found
  <2> HIDE DEF found
  <2> QED BY <1>3, MinIn
<1> QED BY <1>1, <1>2, <1>3, <1>4

\* A window that moves down loses its slot i.
LEMMA ShiftedIs ==
    ASSUME NEW w \in [Slots -> Slot], NEW i \in Int, NEW n \in Int, n <= MaxSteps
    PROVE  /\ Shifted(w, i, n) \in [Slots -> Slot]
           /\ \A j \in Slots : Shifted(w, i, n)[j] = IF j >= i /\ j < n - 1 THEN w[j + 1] ELSE w[j]
<1>1. MaxSteps \in Nat
  BY WalkerAssumption
<1>2. \A j \in Slots : j < n - 1 => j + 1 \in Slots
  BY <1>1 DEF Slots
<1> QED BY <1>2 DEF Shifted

LEMMA WindowInit == Init => WalkerInv
<1> SUFFICES ASSUME Init PROVE WalkerInv
  OBVIOUS
<1>1. [i \in Slots |-> [seq |-> 0, to |-> 0, accepted |-> FALSE]] \in [Slots -> Slot]
  BY Numbers DEF Slot
<1>2. <<>> \in Seq(Cells) /\ <<>> \in Seq(Request) /\ <<>> \in Seq(Answer) /\ Len(<<>>) = 0
  OBVIOUS
<1>3. [requests |-> MaxRequests, others |-> MaxOthers]
        \in [requests : 0..MaxRequests, others : 0..MaxOthers]
  BY WalkerAssumption
<1>4. [at |-> 0, seq |-> 0] \in [at : Cells, seq : Sequences]
  BY Numbers
<1>5. 0 \in -MaxSteps..MaxSteps /\ 0 \in 0..MaxSteps /\ MaxSteps \in Nat
  BY Numbers
<1>6. TypeOK
  <2>1. slot \in [Slots -> Slot]
    BY <1>1 DEF Init
  <2>2. left \in [requests : 0..MaxRequests, others : 0..MaxOthers]
    BY <1>3 DEF Init
  <2>3. server \in [at : Cells, seq : Sequences]
    BY <1>4 DEF Init
  <2>4. /\ steps \in Seq(Cells) /\ Len(steps) <= MaxSteps
        /\ toServer \in Seq(Request) /\ toClient \in Seq(Answer)
    BY <1>2, <1>5 DEF Init
  <2>5. count \in -MaxSteps..MaxSteps /\ current \in 0..MaxSteps
    BY <1>5 DEF Init
  <2> QED BY <2>1, <2>2, <2>3, <2>4, <2>5, Numbers DEF Init, TypeOK
<1>7. Tidy /\ Aligned
  BY <1>2, <1>5 DEF Init, Tidy, Aligned
<1> QED BY <1>6, <1>7 DEF WalkerInv

\* The bounds count down.
LEMMA LeftDown ==
    ASSUME TypeOK
    PROVE  LET all == [requests : 0..MaxRequests, others : 0..MaxOthers] IN
           /\ left.requests > 0 => [left EXCEPT !.requests = @ - 1] \in all
           /\ left.others > 0 => [left EXCEPT !.others = @ - 1] \in all
<1>1. left \in [requests : 0..MaxRequests, others : 0..MaxOthers]
  BY DEF TypeOK
<1>2. MaxRequests \in Nat /\ MaxOthers \in Nat
  BY WalkerAssumption
<1> QED BY <1>1, <1>2

LEMMA WalkAligns ==
    ASSUME WalkerInv, Walk
    PROVE  WalkerInv'
<1>0. TypeOK /\ Tidy /\ Aligned /\ MaxSteps \in Nat
  BY WalkerAssumption DEF WalkerInv
<1>1. PICK d \in {0, 1} :
        LET to == Beyond(IF steps = <<>> THEN pos ELSE Last(steps), d)
        IN /\ slot' = [slot EXCEPT ![count] = [seq |-> sequence, to |-> to, accepted |-> FALSE]]
           /\ steps' = Append(steps, to)
           /\ toServer' = Append(toServer, Walking(sequence, d))
  BY DEF Walk
<1> DEFINE to == Beyond(IF steps = <<>> THEN pos ELSE Last(steps), d)
<1>2. to \in Cells
  <2>1. steps # <<>> => steps[Len(steps)] \in Cells
    BY <1>0 DEF TypeOK
  <2> QED BY <1>0, <2>1, Numbers DEF TypeOK, Last
<1> HIDE DEF to
<1>3. /\ slot' = [slot EXCEPT ![count] = [seq |-> sequence, to |-> to, accepted |-> FALSE]]
      /\ steps' = Append(steps, to)
      /\ toServer' = Append(toServer, Walking(sequence, d))
  BY <1>1 DEF to
<1>4. /\ ~failed /\ count < MaxSteps /\ left.requests > 0
      /\ count' = count + 1 /\ sequence' = NextSequence(sequence)
      /\ left' = [left EXCEPT !.requests = @ - 1]
      /\ UNCHANGED <<current, failed, resent, pos, toClient, server, crossed>>
  BY DEF Walk
<1>5. /\ Len(steps) \in Nat /\ current \in Nat /\ count = current + Len(steps) /\ count \in Slots
      /\ steps' \in Seq(Cells) /\ Len(steps') = Len(steps) + 1
      /\ \A i \in 1..Len(steps) : steps'[i] = steps[i]
      /\ steps'[Len(steps) + 1] = to
  <2>1. steps \in Seq(Cells) /\ Len(steps) \in Nat /\ current \in Nat
    BY <1>0 DEF TypeOK
  <2>2. count = current + Len(steps)
    BY <1>0, <1>4 DEF Aligned
  <2>3. count \in Slots
    BY <1>0, <1>4, <2>1, <2>2 DEF Slots
  <2> QED BY <1>2, <1>3, <2>1, <2>2, <2>3
<1>6. slot' \in [Slots -> Slot]
      /\ \A j \in Slots : slot'[j] = IF j = count THEN [seq |-> sequence, to |-> to, accepted |-> FALSE]
                                     ELSE slot[j]
  <2>1. [seq |-> sequence, to |-> to, accepted |-> FALSE] \in Slot
    BY <1>0, <1>2 DEF TypeOK, Slot
  <2> QED BY <1>0, <1>3, <1>5, <2>1 DEF TypeOK
<1>7. toServer' \in Seq(Request)
  <2>1. Walking(sequence, d) \in Request
    BY <1>0 DEF TypeOK, Walking, Request
  <2> QED BY <1>0, <1>3, <2>1 DEF TypeOK
<1>8. left' \in [requests : 0..MaxRequests, others : 0..MaxOthers]
  BY <1>0, <1>4, LeftDown
<1>9. TypeOK'
  <2>1. count' \in -MaxSteps..MaxSteps /\ Len(steps') <= MaxSteps
    BY <1>0, <1>4, <1>5
  <2>2. sequence' \in Sequences
    BY <1>0, <1>4, Numbers DEF TypeOK
  <2> QED BY <1>0, <1>4, <1>5, <1>6, <1>7, <1>8, <2>1, <2>2 DEF TypeOK
<1>10. Tidy'
  BY <1>0, <1>4, <1>5 DEF Tidy
<1>11. Aligned'
  <2>1. ASSUME NEW i \in 1..Len(steps') PROVE slot'[current' + i - 1].to = steps'[i]
    <3>1. CASE i = Len(steps) + 1
      BY <1>4, <1>5, <1>6, <3>1
    <3>2. CASE i \in 1..Len(steps)
      <4>1. current + i - 1 \in Slots /\ current + i - 1 # count
        BY <1>0, <1>4, <1>5, <3>2 DEF Slots
      <4> QED BY <1>0, <1>4, <1>5, <1>6, <3>2, <4>1 DEF Aligned
    <3> QED BY <1>5, <3>1, <3>2
  <2>2. ASSUME NEW i \in 0..current' - 1 PROVE ~slot'[i].accepted
    <3>1. i \in Slots /\ i # count /\ i \in 0..current - 1
      BY <1>0, <1>4, <1>5, <2>2 DEF Slots
    <3> QED BY <1>0, <1>4, <1>6, <3>1 DEF Aligned
  <2> QED BY <1>4, <1>5, <2>1, <2>2 DEF Aligned
<1> QED BY <1>9, <1>10, <1>11 DEF WalkerInv

\* A queue loses its first element.
LEMMA TailIs ==
    ASSUME NEW S, NEW q \in Seq(S), q # <<>>
    PROVE  /\ Head(q) = q[1] /\ q[1] \in S /\ Tail(q) \in Seq(S)
           /\ Len(q) \in Nat \ {0} /\ Len(Tail(q)) = Len(q) - 1
           /\ \A i \in 1..Len(Tail(q)) : Tail(q)[i] = q[i + 1]
OBVIOUS

LEMMA AnimateAligns ==
    ASSUME WalkerInv, Animate
    PROVE  WalkerInv'
<1>0. TypeOK /\ Tidy /\ Aligned /\ MaxSteps \in Nat
  BY WalkerAssumption DEF WalkerInv
<1>1. /\ steps # <<>> /\ pos' = Head(steps) /\ steps' = Tail(steps)
      /\ UNCHANGED <<sequence, failed, resent, toServer, toClient, server, crossed, left>>
  BY DEF Animate
<1>2. /\ pos' \in Cells /\ steps' \in Seq(Cells)
      /\ Len(steps) \in Nat \ {0} /\ Len(steps') = Len(steps) - 1
      /\ \A i \in 1..Len(steps') : steps'[i] = steps[i + 1]
  BY <1>0, <1>1, TailIs DEF TypeOK
<1>3. current \in Slots /\ current \in Nat /\ count \in Int /\ count <= MaxSteps
  BY <1>0, <1>2 DEF TypeOK, Tidy, Slots
<1>4. CASE slot[current].accepted
  <2>1. slot' = Shifted(slot, current, count) /\ count' = count - 1 /\ current' = current
    BY <1>4 DEF Animate, Leaves
  <2>2. /\ slot' \in [Slots -> Slot]
        /\ \A j \in Slots : slot'[j] = IF j >= current /\ j < count - 1 THEN slot[j + 1] ELSE slot[j]
    BY <1>0, <1>3, <2>1, ShiftedIs DEF TypeOK
  <2>3. TypeOK'
    BY <1>0, <1>1, <1>2, <1>3, <2>1, <2>2 DEF TypeOK, Tidy
  <2>4. Tidy'
    BY <1>0, <1>2, <1>3, <2>1 DEF Tidy
  <2>5. Aligned'
    <3> SUFFICES ASSUME ~failed PROVE Aligned'
      BY <1>1 DEF Aligned
    <3>0. count = current + Len(steps)
      BY <1>0 DEF Aligned
    <3>1. ASSUME NEW i \in 1..Len(steps') PROVE slot'[current' + i - 1].to = steps'[i]
      <4>1. /\ current + i - 1 \in Slots /\ current + i - 1 >= current /\ current + i - 1 < count - 1
            /\ i + 1 \in 1..Len(steps) /\ (current + i - 1) + 1 = current + (i + 1) - 1
        BY <1>0, <1>2, <1>3, <3>0, <3>1 DEF Tidy, Slots
      <4>2. slot'[current + i - 1] = slot[current + (i + 1) - 1]
        BY <2>2, <4>1
      <4>3. slot[current + (i + 1) - 1].to = steps[i + 1]
        BY <1>0, <4>1 DEF Aligned
      <4> QED BY <1>2, <2>1, <4>2, <4>3
    <3>2. ASSUME NEW i \in 0..current' - 1 PROVE ~slot'[i].accepted
      <4>1. i \in Slots /\ i < current /\ i \in 0..current - 1
        BY <1>0, <1>3, <2>1, <3>2 DEF Slots
      <4> QED BY <1>0, <2>2, <4>1, <1>3 DEF Aligned
    <3> QED BY <1>2, <1>3, <2>1, <3>0, <3>1, <3>2 DEF Aligned
  <2> QED BY <2>3, <2>4, <2>5 DEF WalkerInv
<1>5. CASE ~slot[current].accepted
  <2>1. current' = current + 1 /\ UNCHANGED <<slot, count>>
    BY <1>5 DEF Animate
  <2>2. TypeOK'
    BY <1>0, <1>1, <1>2, <1>3, <2>1 DEF TypeOK, Tidy
  <2>3. Tidy'
    BY <1>0, <1>2, <1>3, <2>1 DEF Tidy
  <2>4. Aligned'
    <3> SUFFICES ASSUME ~failed PROVE Aligned'
      BY <1>1 DEF Aligned
    <3>1. ASSUME NEW i \in 1..Len(steps') PROVE slot'[current' + i - 1].to = steps'[i]
      <4>1. i + 1 \in 1..Len(steps) /\ current' + i - 1 = current + (i + 1) - 1
        BY <1>2, <1>3, <2>1, <3>1
      <4>2. slot[current + (i + 1) - 1].to = steps[i + 1]
        BY <1>0, <4>1 DEF Aligned
      <4> QED BY <1>2, <2>1, <4>1, <4>2
    <3>2. ASSUME NEW i \in 0..current' - 1 PROVE ~slot'[i].accepted
      <4>1. i = current \/ i \in 0..current - 1
        BY <1>3, <2>1, <3>2
      <4> QED BY <1>0, <1>5, <2>1, <4>1 DEF Aligned
    <3> QED BY <1>0, <1>2, <1>3, <2>1, <3>1, <3>2 DEF Aligned
  <2> QED BY <2>2, <2>3, <2>4 DEF WalkerInv
<1> QED BY <1>4, <1>5

IsReset(a) == a.kind \in {"deny", "update"}

LEMMA Packets ==
    /\ \A a \in Answer : /\ a.kind \in {"confirm", "deny", "update"}
                         /\ a.kind = "confirm" => a.seq \in Sequences
                         /\ IsReset(a) => a.at \in Cells
    /\ \A r \in Request : /\ r.kind \in {"walk", "resend"}
                          /\ r.kind = "walk" => r.seq \in Sequences /\ r.by \in {0, 1}
    /\ \A s \in Sequences : [kind |-> "confirm", seq |-> s] \in Answer
    /\ \A c \in Cells, k \in {"deny", "update"} : [kind |-> k, at |-> c] \in Answer
    /\ [kind |-> "resend"] \in Request
<1>1. ASSUME NEW a \in Answer
      PROVE  /\ a.kind \in {"confirm", "deny", "update"}
             /\ a.kind = "confirm" => a.seq \in Sequences
             /\ IsReset(a) => a.at \in Cells
  <2>1. CASE a \in [kind : {"confirm"}, seq : Sequences]
    BY <2>1 DEF IsReset
  <2>2. CASE a \in [kind : {"deny", "update"}, at : Cells]
    BY <2>2 DEF IsReset
  <2> QED BY <2>1, <2>2 DEF Answer
<1>2. ASSUME NEW r \in Request
      PROVE  /\ r.kind \in {"walk", "resend"}
             /\ r.kind = "walk" => r.seq \in Sequences /\ r.by \in {0, 1}
  <2>1. CASE r \in [kind : {"walk"}, seq : Sequences, by : {0, 1}]
    BY <2>1
  <2>2. CASE r \in [kind : {"resend"}]
    BY <2>2
  <2> QED BY <2>1, <2>2 DEF Request
<1>3. ASSUME NEW s \in Sequences PROVE [kind |-> "confirm", seq |-> s] \in Answer
  BY DEF Answer
<1>4. ASSUME NEW c \in Cells, NEW k \in {"deny", "update"} PROVE [kind |-> k, at |-> c] \in Answer
  BY DEF Answer
<1>5. [kind |-> "resend"] \in Request
  BY DEF Request
<1> QED BY <1>1, <1>2, <1>3, <1>4, <1>5

\* The part of the window, and the rest.
WindowOK ==
    /\ slot \in [Slots -> Slot] /\ count \in -MaxSteps..MaxSteps /\ current \in 0..MaxSteps
    /\ Tidy /\ Aligned

\* A confirmation, by what it finds.
LEMMA ConfirmAligns ==
    ASSUME WalkerInv, NEW seq \in Sequences, ConfirmWalk(seq), steps' = steps
    PROVE  /\ WindowOK' /\ failed' \in BOOLEAN /\ resent' \in BOOLEAN
           /\ toServer' = toServer \/ toServer' = Append(toServer, [kind |-> "resend"])
<1>0. TypeOK /\ Tidy /\ Aligned /\ MaxSteps \in Nat
  BY WalkerAssumption DEF WalkerInv
<1>1. /\ count \in Int /\ current \in Nat /\ Len(steps) \in Nat
      /\ current <= MaxSteps /\ count <= MaxSteps /\ count >= -MaxSteps
  BY <1>0 DEF TypeOK
<1> DEFINE i == Index(seq)
<1>2. \/ i = count /\ count \in Nat
      \/ i \in 0..count - 1
      \/ i = 0 /\ count < 0
  BY <1>0, IndexIs
<1>3. /\ failed \in BOOLEAN /\ resent \in BOOLEAN /\ slot \in [Slots -> Slot]
      /\ ~failed => count = current + Len(steps)
  BY <1>0 DEF TypeOK, Aligned
<1>4. \/ /\ i # count /\ i >= current
         /\ slot' = [slot EXCEPT ![i].accepted = TRUE]
         /\ UNCHANGED <<count, current, failed, resent, toServer>>
      \/ /\ i # count /\ i < current /\ i = 0
         /\ slot' = Shifted(slot, 0, count) /\ count' = count - 1 /\ current' = current - 1
         /\ UNCHANGED <<failed, resent, toServer>>
      \/ /\ toServer' = toServer \/ toServer' = Append(toServer, [kind |-> "resend"])
         /\ resent' = TRUE /\ failed' = TRUE /\ count' = 0 /\ current' = 0 /\ slot' = slot
  BY DEF ConfirmWalk, Taken, Ask
<1> HIDE DEF i
<1>5. CASE /\ i # count /\ i >= current
           /\ slot' = [slot EXCEPT ![i].accepted = TRUE]
           /\ UNCHANGED <<count, current, failed, resent, toServer>>
  <2>1. i \in Slots
    BY <1>0, <1>1, <1>2, <1>5, Numbers DEF Slots
  <2>2. /\ slot' \in [Slots -> Slot]
        /\ \A j \in Slots : j # i => slot'[j] = slot[j]
        /\ slot'[i].to = slot[i].to
    <3>1. [slot[i] EXCEPT !.accepted = TRUE] \in Slot
          /\ [slot[i] EXCEPT !.accepted = TRUE].to = slot[i].to
      <4>1. slot[i] \in Slot
        BY <1>3, <2>1
      <4> QED BY <4>1 DEF Slot
    <3>2. slot' = [slot EXCEPT ![i] = [slot[i] EXCEPT !.accepted = TRUE]]
      BY <1>5
    <3> QED BY <1>3, <2>1, <3>1, <3>2
  <2>3. Aligned'
    <3> SUFFICES ASSUME ~failed PROVE Aligned'
      BY <1>5 DEF Aligned
    <3>1. ASSUME NEW k \in 1..Len(steps) PROVE slot'[current + k - 1].to = steps[k]
      <4>1. current + k - 1 \in Slots
        BY <1>0, <1>1, <3>1 DEF Tidy, Slots
      <4>2. slot[current + k - 1].to = steps[k]
        BY <1>0 DEF Aligned
      <4> QED BY <2>2, <4>1, <4>2
    <3>2. ASSUME NEW k \in 0..current - 1 PROVE ~slot'[k].accepted
      <4>1. k \in Slots /\ k # i
        BY <1>0, <1>1, <1>2, <1>5, <3>2 DEF Slots
      <4> QED BY <1>0, <2>2, <4>1 DEF Aligned
    <3> QED BY <1>3, <1>5, <3>1, <3>2 DEF Aligned
  <2>4. Tidy'
    BY <1>0, <1>5 DEF Tidy
  <2> QED BY <1>0, <1>3, <1>5, <2>2, <2>3, <2>4 DEF WindowOK, TypeOK
<1>6. CASE /\ i # count /\ i < current /\ i = 0
           /\ slot' = Shifted(slot, 0, count) /\ count' = count - 1 /\ current' = current - 1
           /\ UNCHANGED <<failed, resent, toServer>>
  <2>1. /\ slot' \in [Slots -> Slot]
        /\ \A j \in Slots : slot'[j] = IF j >= 0 /\ j < count - 1 THEN slot[j + 1] ELSE slot[j]
    BY <1>1, <1>3, <1>6, ShiftedIs
  <2>2. /\ count' \in -MaxSteps..MaxSteps /\ current' \in 0..MaxSteps
        /\ Tidy'
    <3>1. current + Len(steps) <= MaxSteps /\ current + Len(steps) <= MaxSteps + count
      BY <1>0 DEF Tidy
    <3>2. current >= 1
      BY <1>1, <1>6
    <3>3. count - 1 >= -MaxSteps
      BY <1>0, <1>1, <3>1, <3>2
    <3> QED BY <1>0, <1>1, <1>6, <3>1, <3>2, <3>3 DEF Tidy
  <2>3. Aligned'
    <3> SUFFICES ASSUME ~failed PROVE Aligned'
      BY <1>6 DEF Aligned
    <3>1. ASSUME NEW k \in 1..Len(steps) PROVE slot'[current' + k - 1].to = steps[k]
      <4>1. /\ current' + k - 1 \in Slots /\ current' + k - 1 >= 0 /\ current' + k - 1 < count - 1
            /\ (current' + k - 1) + 1 = current + k - 1
        BY <1>0, <1>1, <1>3, <1>6, <3>1 DEF Tidy, Slots
      <4>2. slot'[current' + k - 1] = slot[current + k - 1]
        BY <2>1, <4>1
      <4> QED BY <1>0, <4>2 DEF Aligned
    <3>2. ASSUME NEW k \in 0..current' - 1 PROVE ~slot'[k].accepted
      <4>1. k \in Slots /\ k >= 0 /\ k < count - 1 /\ k + 1 \in 0..current - 1
        BY <1>0, <1>1, <1>3, <1>6, <3>2 DEF Slots
      <4> QED BY <1>0, <2>1, <4>1 DEF Aligned
    <3>3. count' = current' + Len(steps)
      BY <1>1, <1>3, <1>6
    <3> QED BY <3>1, <3>2, <3>3 DEF Aligned
  <2> QED BY <1>3, <1>6, <2>1, <2>2, <2>3 DEF WindowOK
<1>7. CASE /\ toServer' = toServer \/ toServer' = Append(toServer, [kind |-> "resend"])
           /\ resent' = TRUE /\ failed' = TRUE /\ count' = 0 /\ current' = 0 /\ slot' = slot
  <2>1. Len(steps) <= MaxSteps
    BY <1>0 DEF TypeOK
  <2>2. Tidy' /\ count' \in -MaxSteps..MaxSteps /\ current' \in 0..MaxSteps
    BY <1>0, <1>1, <1>7, <2>1 DEF Tidy
  <2> QED BY <1>3, <1>7, <2>2 DEF WindowOK, Aligned
<1> QED BY <1>4, <1>5, <1>6, <1>7

LEMMA ReceiveAligns ==
    ASSUME WalkerInv, Receive
    PROVE  WalkerInv'
<1>0. TypeOK /\ Tidy /\ Aligned /\ MaxSteps \in Nat
  BY WalkerAssumption DEF WalkerInv
<1>1. /\ toClient # <<>> /\ toClient' = Tail(toClient) /\ UNCHANGED <<server, left>>
  BY DEF Receive
<1>2. Head(toClient) \in Answer /\ toClient' \in Seq(Answer)
  BY <1>0, <1>1, TailIs DEF TypeOK
<1>3. CASE /\ Head(toClient).kind = "confirm" /\ ConfirmWalk(Head(toClient).seq)
           /\ UNCHANGED <<sequence, steps, pos, crossed>>
  <2>1. Head(toClient).seq \in Sequences
    BY <1>2, <1>3, Packets
  <2>2. /\ WindowOK' /\ failed' \in BOOLEAN /\ resent' \in BOOLEAN
        /\ toServer' = toServer \/ toServer' = Append(toServer, [kind |-> "resend"])
    BY <1>3, <2>1, ConfirmAligns
  <2>3. toServer' \in Seq(Request)
    <3>1. toServer \in Seq(Request) /\ [kind |-> "resend"] \in Request
      BY <1>0, Packets DEF TypeOK
    <3> QED BY <2>2, <3>1
  <2>4. /\ slot' \in [Slots -> Slot] /\ count' \in -MaxSteps..MaxSteps /\ current' \in 0..MaxSteps
        /\ Tidy' /\ Aligned'
    BY <2>2 DEF WindowOK
  <2>5. TypeOK'
    BY <1>0, <1>1, <1>2, <1>3, <2>2, <2>3, <2>4 DEF TypeOK
  <2> QED BY <2>4, <2>5 DEF WalkerInv
<1>4. CASE IsReset(Head(toClient)) /\ Placed(Head(toClient).at)
  <2>1. /\ count' = 0 /\ current' = 0 /\ sequence' = 0 /\ failed' = FALSE /\ resent' = FALSE
        /\ steps' = <<>> /\ pos' \in Cells /\ UNCHANGED <<slot, toServer>>
        /\ crossed' \in BOOLEAN
    <3>1. Head(toClient).at \in Cells
      BY <1>2, <1>4, Packets
    <3>2. Zero(toServer) \in BOOLEAN /\ Zero(Tail(toClient)) \in BOOLEAN
      BY DEF Zero
    <3> QED BY <1>4, <3>1, <3>2 DEF Placed, Reset
  <2>2. steps' \in Seq(Cells) /\ Len(steps') = 0
    BY <2>1
  <2>3. Tidy' /\ Aligned' /\ count' \in -MaxSteps..MaxSteps /\ current' \in 0..MaxSteps
        /\ Len(steps') <= MaxSteps
    BY <1>0, <2>1, <2>2 DEF Tidy, Aligned
  <2> QED BY <1>0, <1>1, <1>2, <2>1, <2>2, <2>3, Numbers DEF WalkerInv, TypeOK
<1> QED BY <1>3, <1>4 DEF Receive, IsReset

LEMMA OthersAlign ==
    ASSUME WalkerInv, Resend \/ Serve \/ Teleport \/ UNCHANGED vars
    PROVE  WalkerInv'
<1>0. TypeOK /\ Tidy /\ Aligned
  BY DEF WalkerInv
<1>1. UNCHANGED <<slot, count, current, sequence, failed, resent, steps, pos, crossed>>
  BY DEF Resend, Serve, Teleport, vars, client
<1>2. Tidy' /\ Aligned'
  BY <1>0, <1>1 DEF Tidy, Aligned
<1>3. CASE Resend
  <2>1. toServer' \in Seq(Request) /\ toClient' = toClient /\ server' = server
    BY <1>0, <1>3, Packets DEF Resend, TypeOK
  <2>2. left' \in [requests : 0..MaxRequests, others : 0..MaxOthers]
    BY <1>0, <1>3, LeftDown DEF Resend
  <2> QED BY <1>0, <1>1, <1>2, <2>1, <2>2 DEF WalkerInv, TypeOK
<1>4. CASE Serve
  <2>1. /\ toServer # <<>> /\ toServer' = Tail(toServer) /\ left' = left
    BY <1>4 DEF Serve
  <2>2. Head(toServer) \in Request /\ toServer' \in Seq(Request)
    BY <1>0, <2>1, TailIs DEF TypeOK
  <2>3. server.at \in Cells /\ server = [at |-> server.at, seq |-> server.seq]
    BY <1>0 DEF TypeOK
  <2>4. CASE /\ Head(toServer).kind = "walk"
             /\ server' = [at |-> Beyond(server.at, Head(toServer).by),
                           seq |-> NextSequence(Head(toServer).seq)]
             /\ toClient' = Append(toClient, [kind |-> "confirm", seq |-> Head(toServer).seq])
    <3>1. Head(toServer).seq \in Sequences /\ Head(toServer).by \in {0, 1}
      BY <2>2, <2>4, Packets
    <3>2. server' \in [at : Cells, seq : Sequences]
      BY <2>3, <2>4, <3>1, Numbers
    <3>3. toClient' \in Seq(Answer)
      BY <1>0, <2>4, <3>1, Packets DEF TypeOK
    <3> QED BY <1>0, <1>1, <1>2, <2>1, <2>2, <3>2, <3>3 DEF WalkerInv, TypeOK
  <2>5. CASE /\ server' = [server EXCEPT !.seq = 0]
             /\ Send("deny", server.at) \/ Send("update", server.at)
    <3>1. server' \in [at : Cells, seq : Sequences]
      BY <1>0, <2>5, Numbers DEF TypeOK
    <3>2. toClient' \in Seq(Answer)
      <4>1. PICK k \in {"deny", "update"} : toClient' = Append(toClient, [kind |-> k, at |-> server.at])
        BY <2>5 DEF Send
      <4>2. [kind |-> k, at |-> server.at] \in Answer
        BY <2>3, Packets
      <4> QED BY <1>0, <4>1, <4>2 DEF TypeOK
    <3> QED BY <1>0, <1>1, <1>2, <2>1, <2>2, <3>1, <3>2 DEF WalkerInv, TypeOK
  <2> QED BY <1>4, <2>4, <2>5 DEF Serve
<1>5. CASE Teleport
  <2>1. PICK cell \in Cells : server' = [at |-> cell, seq |-> 0] /\ Send("update", cell)
    BY <1>5 DEF Teleport
  <2>2. server' \in [at : Cells, seq : Sequences]
    BY <2>1, Numbers
  <2>3. toClient' \in Seq(Answer) /\ toServer' = toServer
    <3>1. [kind |-> "update", at |-> cell] \in Answer
      BY Packets
    <3> QED BY <1>0, <1>5, <2>1, <3>1 DEF TypeOK, Send, Teleport
  <2>4. left' \in [requests : 0..MaxRequests, others : 0..MaxOthers]
    BY <1>0, <1>5, LeftDown DEF Teleport
  <2> QED BY <1>0, <1>1, <1>2, <2>2, <2>3, <2>4 DEF WalkerInv, TypeOK
<1>6. CASE UNCHANGED vars
  BY <1>0, <1>1, <1>2, <1>6 DEF WalkerInv, TypeOK, vars
<1> QED BY <1>3, <1>4, <1>5, <1>6

LEMMA WindowInvariance == Spec => []WalkerInv
<1>1. WalkerInv /\ [Next]_vars => WalkerInv'
  BY WalkAligns, AnimateAligns, ReceiveAligns, OthersAlign DEF Next
<1> QED BY <1>1, WindowInit, PTL DEF Spec

\* The window and the counters are of their types: no count leaves the array, however
\* often a walk fails.
THEOREM WalkerTypes == Spec => []TypeOK
<1>1. WalkerInv => TypeOK
  BY DEF WalkerInv
<1> QED BY <1>1, WindowInvariance, PTL

\* The window and the queue of steps stay two views of one walk, and the animation
\* only reads slots that exist, also in a walk that failed.
THEOREM WindowMatches == Spec => []WindowMatchesSteps
<1>1. WalkerInv => WindowMatchesSteps
  <2> SUFFICES ASSUME WalkerInv, steps # <<>> PROVE current \in Slots
    BY DEF WalkerInv, Aligned, WindowMatchesSteps
  <2>1. MaxSteps \in Nat /\ current \in Nat /\ Len(steps) \in Nat \ {0}
        /\ current + Len(steps) <= MaxSteps
    BY WalkerAssumption DEF WalkerInv, TypeOK, Tidy
  <2> QED BY <2>1 DEF Slots
<1> QED BY <1>1, WindowInvariance, PTL

-----------------------------------------------------------------------------
(***************************************************************************)
(* The place                                                               *)
(***************************************************************************)
\* Something is under way that will place the player anew: an answer, a request for
\* it, a step that the server, which waits for step 0, has to deny.
Resetting == \E k \in 1..Len(toClient) : IsReset(toClient[k])
Asked == \E k \in 1..Len(toServer) : toServer[k].kind = "resend"
Astray ==
    server.seq = 0 /\ toServer # <<>> /\ toServer[1].kind = "walk" /\ toServer[1].seq # 0

\* Where the player is going, and the requests lead there from the server's cell.
Goal == IF steps = <<>> THEN pos ELSE Last(steps)
Leads(f) ==
    /\ f[0] = server.at /\ f[Len(toServer)] = Goal
    /\ \A j \in 1..Len(toServer) :
          toServer[j].kind = "walk" /\ f[j] = Beyond(f[j - 1], toServer[j].by)
Clean == \E f \in [0..Len(toServer) -> Cells] : Leads(f)

\* The last answer that places the player tells the server's cell, or the server has
\* taken a step 0 since.
LastReset ==
    \A k \in 1..Len(toClient) : IsReset(toClient[k]) =>
        \/ k = Len(toClient) /\ server.seq = 0 /\ server.at = toClient[k].at
        \/ \E m \in k+1..Len(toClient) : IsReset(toClient[m])
        \/ \E m \in k+1..Len(toClient) : toClient[m].kind = "confirm" /\ toClient[m].seq = 0

\* A resend that was asked for is on its way.
Awaited == resent => Asked \/ Resetting

Placing == Resetting \/ Asked \/ Astray \/ crossed \/ Clean

\* The inductive invariant of the place.
PlaceInv == LastReset /\ Awaited /\ Placing

LEMMA PlaceInit == Init => PlaceInv
<1> SUFFICES ASSUME Init PROVE PlaceInv
  OBVIOUS
<1>1. toServer = <<>> /\ toClient = <<>> /\ Len(<<>>) = 0 /\ 1..0 = {} /\ 0..0 = {0}
  BY DEF Init
<1>2. server.at = 0 /\ Goal = 0 /\ ~resent
  BY DEF Init, Goal
<1>3. [j \in {0} |-> 0] \in [0..Len(toServer) -> Cells]
  BY <1>1, Numbers
<1>4. Leads([j \in {0} |-> 0])
  BY <1>1, <1>2 DEF Leads
<1>5. Clean
  BY <1>3, <1>4 DEF Clean
<1> QED BY <1>1, <1>2, <1>5 DEF PlaceInv, LastReset, Awaited, Placing

LEMMA WalkLeads ==
    ASSUME WalkerInv, PlaceInv, Walk
    PROVE  PlaceInv'
<1>0. TypeOK
  BY DEF WalkerInv
<1>1. PICK d \in {0, 1} :
        LET to == Beyond(IF steps = <<>> THEN pos ELSE Last(steps), d)
        IN steps' = Append(steps, to) /\ toServer' = Append(toServer, Walking(sequence, d))
  BY DEF Walk
<1>2. /\ steps' = Append(steps, Beyond(Goal, d)) /\ toServer' = Append(toServer, Walking(sequence, d))
      /\ UNCHANGED <<resent, pos, toClient, server, crossed>>
  BY <1>1 DEF Goal, Walk
<1>3. /\ Len(toServer) \in Nat /\ Len(toServer') = Len(toServer) + 1
      /\ \A j \in 1..Len(toServer) : toServer'[j] = toServer[j]
      /\ toServer'[Len(toServer) + 1] = Walking(sequence, d)
  BY <1>0, <1>2 DEF TypeOK
<1>4. Goal' = Beyond(Goal, d)
  <2>1. /\ steps' # <<>> /\ Len(steps') = Len(steps) + 1
        /\ steps'[Len(steps) + 1] = Beyond(Goal, d)
    BY <1>0, <1>2 DEF TypeOK
  <2> QED BY <2>1 DEF Goal, Last
<1>5. LastReset' /\ (Resetting => Resetting')
  BY <1>2 DEF PlaceInv, LastReset, Resetting
<1>6. Asked => Asked'
  BY <1>3 DEF Asked
<1>7. Astray => Astray'
  <2>1. toServer # <<>> => 1 \in 1..Len(toServer)
    BY <1>0 DEF TypeOK
  <2>2. toServer' # <<>>
    BY <1>0, <1>2 DEF TypeOK
  <2>3. toServer # <<>> => toServer'[1] = toServer[1]
    BY <1>3, <2>1
  <2> QED BY <1>2, <2>2, <2>3 DEF Astray
<1>8. Clean => Clean'
  <2> SUFFICES ASSUME Clean PROVE Clean'
    OBVIOUS
  <2>1. PICK f \in [0..Len(toServer) -> Cells] : Leads(f)
    BY DEF Clean
  <2> DEFINE n == Len(toServer)
             g == [j \in 0..n + 1 |-> IF j = n + 1 THEN Beyond(Goal, d) ELSE f[j]]
  <2>2. Goal \in Cells
    <3>1. f[n] \in Cells /\ f[n] = Goal
      BY <1>3, <2>1 DEF Leads
    <3> QED BY <3>1
  <2>3. g \in [0..Len(toServer') -> Cells]
    BY <1>3, <2>1, <2>2, Numbers
  <2>4. g[0] = server'.at /\ g[Len(toServer')] = Goal'
    BY <1>2, <1>3, <1>4, <2>1 DEF Leads
  <2>5. ASSUME NEW j \in 1..Len(toServer')
        PROVE  toServer'[j].kind = "walk" /\ g[j] = Beyond(g[j - 1], toServer'[j].by)
    <3>1. CASE j = n + 1
      <4>1. g[j] = Beyond(Goal, d) /\ g[j - 1] = Goal
        BY <1>3, <2>1, <3>1 DEF Leads
      <4>2. toServer'[j].kind = "walk" /\ toServer'[j].by = d
        BY <1>3, <3>1 DEF Walking
      <4> QED BY <4>1, <4>2
    <3>2. CASE j \in 1..n
      <4>1. g[j] = f[j] /\ g[j - 1] = f[j - 1] /\ toServer'[j] = toServer[j]
        BY <1>3, <3>2
      <4> QED BY <2>1, <3>2, <4>1 DEF Leads
    <3> QED BY <1>3, <2>5, <3>1, <3>2
  <2>6. PICK h \in [0..Len(toServer') -> Cells] : h = g
    BY <2>3
  <2> HIDE DEF g
  <2>7. Leads(h)'
    BY <2>4, <2>5, <2>6 DEF Leads
  <2> QED BY <2>7 DEF Clean
<1> QED BY <1>2, <1>5, <1>6, <1>7, <1>8 DEF PlaceInv, Awaited, Placing

\* The requests, the answers and the place stay.
LEMMA PlaceStays ==
    ASSUME PlaceInv, UNCHANGED <<toServer, toClient, server, crossed, resent>>, Goal' = Goal
    PROVE  PlaceInv'
<1>1. LastReset' /\ Awaited'
  BY DEF PlaceInv, LastReset, Awaited, Asked, Resetting
<1>2. Clean => Clean'
  BY DEF Clean, Leads
<1> QED BY <1>1, <1>2 DEF PlaceInv, Placing, Resetting, Asked, Astray

LEMMA AnimateLeads ==
    ASSUME WalkerInv, PlaceInv, Animate
    PROVE  PlaceInv'
<1>0. steps \in Seq(Cells) /\ steps # <<>> /\ pos' = Head(steps) /\ steps' = Tail(steps)
  BY DEF WalkerInv, TypeOK, Animate
<1>1. /\ Head(steps) = steps[1] /\ Len(steps) \in Nat \ {0} /\ Len(steps') = Len(steps) - 1
      /\ steps' \in Seq(Cells) /\ \A i \in 1..Len(steps') : steps'[i] = steps[i + 1]
  BY <1>0, TailIs
<1>2. CASE Len(steps) = 1
  <2>1. steps' = <<>>
    BY <1>1, <1>2
  <2> QED BY <1>0, <1>1, <1>2, <2>1, PlaceStays DEF Goal, Last, Animate
<1>3. CASE Len(steps) # 1
  <2>1. steps' # <<>> /\ Len(steps') \in 1..Len(steps') /\ Len(steps') + 1 = Len(steps)
    BY <1>1, <1>3
  <2>2. steps'[Len(steps')] = steps[Len(steps)]
    BY <1>1, <2>1
  <2> QED BY <1>0, <2>1, <2>2, PlaceStays DEF Goal, Last, Animate
<1> QED BY <1>2, <1>3

\* An answer leaves the queue.
LEMMA Answered ==
    ASSUME WalkerInv, PlaceInv, Receive
    PROVE  /\ Head(toClient) = toClient[1] /\ Head(toClient) \in Answer
           /\ Len(toClient) \in Nat \ {0} /\ Len(toClient') = Len(toClient) - 1
           /\ toClient' = Tail(toClient)
           /\ \A k \in 1..Len(toClient') : toClient'[k] = toClient[k + 1]
           /\ LastReset'
<1>1. /\ toClient \in Seq(Answer) /\ toClient # <<>> /\ toClient' = Tail(toClient)
      /\ server' = server
  BY DEF WalkerInv, TypeOK, Receive
<1>2. /\ Head(toClient) = toClient[1] /\ Head(toClient) \in Answer
      /\ Len(toClient) \in Nat \ {0} /\ Len(toClient') = Len(toClient) - 1
      /\ \A k \in 1..Len(toClient') : toClient'[k] = toClient[k + 1]
  BY <1>1, TailIs
<1>3. ASSUME NEW k \in 1..Len(toClient'), IsReset(toClient'[k])
      PROVE  \/ k = Len(toClient') /\ server'.seq = 0 /\ server'.at = toClient'[k].at
             \/ \E m \in k+1..Len(toClient') : IsReset(toClient'[m])
             \/ \E m \in k+1..Len(toClient') : toClient'[m].kind = "confirm" /\ toClient'[m].seq = 0
  <2>1. k + 1 \in 1..Len(toClient) /\ IsReset(toClient[k + 1]) /\ toClient'[k] = toClient[k + 1]
    BY <1>2, <1>3
  <2>2. CASE k + 1 = Len(toClient) /\ server.seq = 0 /\ server.at = toClient[k + 1].at
    BY <1>1, <1>2, <2>1, <2>2
  <2>3. ASSUME NEW m \in (k + 1)+1..Len(toClient)
        PROVE  m - 1 \in k+1..Len(toClient') /\ toClient'[m - 1] = toClient[m]
    BY <1>2, <2>3
  <2> QED BY <2>1, <2>2, <2>3 DEF PlaceInv, LastReset
<1>4. LastReset'
  BY <1>3 DEF LastReset
<1> QED BY <1>1, <1>2, <1>4

LEMMA ConfirmLeads ==
    ASSUME WalkerInv, PlaceInv, Receive, Head(toClient).kind = "confirm"
    PROVE  PlaceInv'
<1>0. TypeOK
  BY DEF WalkerInv
<1>1. /\ ConfirmWalk(Head(toClient).seq) /\ UNCHANGED <<steps, pos, crossed, server>>
  BY DEF Receive
<1>2. Goal' = Goal
  BY <1>1 DEF Goal
<1>3. Resetting => Resetting'
  <2> SUFFICES ASSUME Resetting PROVE Resetting'
    OBVIOUS
  <2>1. PICK k \in 1..Len(toClient) : IsReset(toClient[k])
    BY DEF Resetting
  <2>2. k # 1
    BY <2>1, Answered DEF IsReset
  <2>3. k - 1 \in 1..Len(toClient') /\ toClient'[k - 1] = toClient[k]
    BY <2>2, Answered
  <2> QED BY <2>1, <2>3 DEF Resetting
<1>4. CASE toServer' = Append(toServer, [kind |-> "resend"])
  <2>1. Len(toServer') \in 1..Len(toServer') /\ toServer'[Len(toServer')].kind = "resend"
    BY <1>0, <1>4 DEF TypeOK
  <2>2. Asked'
    BY <2>1 DEF Asked
  <2> QED BY <2>2, Answered DEF PlaceInv, Awaited, Placing
<1>5. CASE toServer' = toServer /\ (resent' => resent)
  <2>1. (Asked' <=> Asked) /\ (Astray' <=> Astray) /\ (Clean' <=> Clean)
    BY <1>1, <1>2, <1>5 DEF Asked, Astray, Clean, Leads
  <2> QED BY <1>1, <1>3, <1>5, <2>1, Answered DEF PlaceInv, Awaited, Placing
<1> QED BY <1>1, <1>4, <1>5 DEF ConfirmWalk, Ask

LEMMA PlacedLeads ==
    ASSUME WalkerInv, PlaceInv, Receive, IsReset(Head(toClient))
    PROVE  PlaceInv'
<1>0. TypeOK
  BY DEF WalkerInv
<1>1. /\ resent' = FALSE /\ steps' = <<>> /\ pos' = Head(toClient).at /\ server' = server
      /\ toServer' = toServer /\ crossed' = (Zero(toServer) \/ Zero(toClient'))
  BY DEF Receive, Placed, Reset, IsReset
<1>2. Awaited' /\ LastReset'
  BY <1>1, Answered DEF Awaited
<1>3. SUFFICES ASSUME ~Zero(toServer), ~Zero(toClient'), ~Resetting', ~Asked, ~Astray
               PROVE  Clean'
  BY <1>1, <1>2 DEF PlaceInv, Placing, Asked, Astray
<1>4. server.seq = 0 /\ server.at = Head(toClient).at
  <2>1. 1 \in 1..Len(toClient) /\ IsReset(toClient[1]) /\ Head(toClient) = toClient[1]
    BY Answered
  <2>2. ASSUME NEW m \in 1+1..Len(toClient)
        PROVE  ~IsReset(toClient[m]) /\ ~(toClient[m].kind = "confirm" /\ toClient[m].seq = 0)
    <3>1. m - 1 \in 1..Len(toClient') /\ toClient'[m - 1] = toClient[m]
      BY <2>2, Answered
    <3> QED BY <1>3, <3>1 DEF Resetting, Zero
  <2> QED BY <2>1, <2>2 DEF PlaceInv, LastReset
<1>5. toServer = <<>>
  <2>1. SUFFICES ASSUME toServer # <<>> PROVE FALSE
    OBVIOUS
  <2>2. 1 \in 1..Len(toServer) /\ toServer[1] \in Request
    BY <1>0, <2>1, TailIs DEF TypeOK
  <2>3. toServer[1].kind = "walk"
    BY <1>3, <2>2, Packets DEF Asked
  <2> QED BY <1>3, <1>4, <2>1, <2>2, <2>3 DEF Astray, Zero
<1>6. Len(toServer') = 0 /\ 1..0 = {} /\ 0..0 = {0}
  BY <1>1, <1>5
<1>7. Goal' = server'.at /\ server'.at \in Cells
  BY <1>0, <1>1, <1>4 DEF Goal, TypeOK
<1>8. [j \in {0} |-> server'.at] \in [0..Len(toServer') -> Cells]
  BY <1>6, <1>7
<1>9. Leads([j \in {0} |-> server.at])'
  BY <1>6, <1>7 DEF Leads
<1> QED BY <1>8, <1>9 DEF Clean

\* The server tells its cell, and waits for step 0.
LEMMA ToldPlace ==
    ASSUME WalkerInv, NEW k \in {"deny", "update"}, NEW c,
           toClient' = Append(toClient, [kind |-> k, at |-> c]),
           server'.seq = 0, server'.at = c
    PROVE  PlaceInv'
<1>1. /\ Len(toClient) \in Nat /\ Len(toClient') = Len(toClient) + 1
      /\ toClient'[Len(toClient) + 1] = [kind |-> k, at |-> c]
  BY DEF WalkerInv, TypeOK
<1>2. IsReset(toClient'[Len(toClient) + 1])
  BY <1>1 DEF IsReset
<1>3. Resetting'
  BY <1>1, <1>2 DEF Resetting
<1>4. LastReset'
  <2> SUFFICES ASSUME NEW j \in 1..Len(toClient')
               PROVE  \/ j = Len(toClient') /\ server'.seq = 0 /\ server'.at = toClient'[j].at
                      \/ \E m \in j+1..Len(toClient') : IsReset(toClient'[m])
    BY DEF LastReset
  <2>1. CASE j = Len(toClient) + 1
    BY <1>1, <2>1
  <2>2. CASE j # Len(toClient) + 1
    <3>1. Len(toClient) + 1 \in j+1..Len(toClient')
      BY <1>1, <2>2
    <3> QED BY <1>2, <3>1
  <2> QED BY <2>1, <2>2
<1> QED BY <1>3, <1>4 DEF PlaceInv, Awaited, Placing

\* The server takes a step.
LEMMA TakenLeads ==
    ASSUME WalkerInv, PlaceInv, Serve, NEW r, r = Head(toServer), r.kind = "walk",
           server.seq # 0 \/ r.seq = 0,
           server' = [at |-> Beyond(server.at, r.by), seq |-> NextSequence(r.seq)],
           toClient' = Append(toClient, [kind |-> "confirm", seq |-> r.seq])
    PROVE  PlaceInv'
<1>0. TypeOK
  BY DEF WalkerInv
<1>1. toServer # <<>> /\ toServer' = Tail(toServer) /\ UNCHANGED <<steps, pos, resent, crossed>>
  BY DEF Serve, client
<1>2. /\ r = toServer[1] /\ Len(toServer) \in Nat \ {0} /\ Len(toServer') = Len(toServer) - 1
      /\ \A j \in 1..Len(toServer') : toServer'[j] = toServer[j + 1]
  BY <1>0, <1>1, TailIs DEF TypeOK
<1>3. /\ Len(toClient) \in Nat /\ Len(toClient') = Len(toClient) + 1
      /\ \A k \in 1..Len(toClient) : toClient'[k] = toClient[k]
      /\ toClient'[Len(toClient) + 1] = [kind |-> "confirm", seq |-> r.seq]
  BY <1>0 DEF TypeOK
<1>4. Resetting => Resetting'
  BY <1>3 DEF Resetting
<1>5. LastReset'
  <2> SUFFICES ASSUME NEW k \in 1..Len(toClient'), IsReset(toClient'[k])
               PROVE  \/ \E m \in k+1..Len(toClient') : IsReset(toClient'[m])
                      \/ \E m \in k+1..Len(toClient') : toClient'[m].kind = "confirm"
                                                         /\ toClient'[m].seq = 0
    BY DEF LastReset
  <2>1. k \in 1..Len(toClient)
    BY <1>3 DEF IsReset
  <2>2. IsReset(toClient[k])
    BY <1>3, <2>1
  <2>3. CASE k = Len(toClient) /\ server.seq = 0
    <3>1. Len(toClient) + 1 \in k+1..Len(toClient') /\ r.seq = 0
      BY <1>3, <2>3
    <3> QED BY <1>3, <3>1
  <2>4. ASSUME NEW m \in k+1..Len(toClient)
        PROVE  m \in k+1..Len(toClient') /\ toClient'[m] = toClient[m]
    BY <1>3, <2>1, <2>4
  <2> QED BY <2>1, <2>2, <2>3, <2>4 DEF PlaceInv, LastReset
<1>6. Asked => Asked'
  <2> SUFFICES ASSUME Asked PROVE Asked'
    OBVIOUS
  <2>1. PICK k \in 1..Len(toServer) : toServer[k].kind = "resend"
    BY DEF Asked
  <2>2. k # 1
    BY <1>2, <2>1
  <2>3. k - 1 \in 1..Len(toServer') /\ toServer'[k - 1] = toServer[k]
    BY <1>2, <2>2
  <2> QED BY <2>1, <2>3 DEF Asked
<1>7. ~Astray
  BY <1>2 DEF Astray
<1>8. Clean => Clean'
  <2> SUFFICES ASSUME Clean PROVE Clean'
    OBVIOUS
  <2>1. PICK f \in [0..Len(toServer) -> Cells] : Leads(f)
    BY DEF Clean
  <2> DEFINE n == Len(toServer')
             g == [j \in 0..n |-> f[j + 1]]
  <2>2. n \in Nat /\ n + 1 = Len(toServer)
    BY <1>2
  <2>3. g \in [0..n -> Cells]
    BY <2>1, <2>2
  <2>4. g[0] = server'.at /\ g[n] = Goal'
    <3>1. g[0] = f[1] /\ f[1] = Beyond(f[1 - 1], toServer[1].by) /\ 1 - 1 = 0
      BY <2>1, <2>2 DEF Leads
    <3>2. g[n] = Goal /\ Goal' = Goal
      BY <1>1, <2>1, <2>2 DEF Leads, Goal
    <3> QED BY <1>2, <2>1, <3>1, <3>2 DEF Leads
  <2>5. ASSUME NEW j \in 1..n
        PROVE  toServer'[j].kind = "walk" /\ g[j] = Beyond(g[j - 1], toServer'[j].by)
    <3>1. /\ g[j] = f[j + 1] /\ g[j - 1] = f[j] /\ (j + 1) - 1 = j
          /\ toServer'[j] = toServer[j + 1] /\ j + 1 \in 1..Len(toServer)
      BY <1>2, <2>2
    <3> QED BY <2>1, <3>1 DEF Leads
  <2>6. PICK h \in [0..Len(toServer') -> Cells] : h = g
    BY <2>3
  <2> HIDE DEF g
  <2>7. Leads(h)'
    BY <2>4, <2>5, <2>6 DEF Leads
  <2> QED BY <2>7 DEF Clean
<1> QED BY <1>1, <1>4, <1>5, <1>6, <1>7, <1>8 DEF PlaceInv, Awaited, Placing

LEMMA OthersLead ==
    ASSUME WalkerInv, PlaceInv, Resend \/ Serve \/ Teleport
    PROVE  PlaceInv'
<1>0. TypeOK /\ server.at \in Cells
  BY DEF WalkerInv, TypeOK
<1>1. CASE Resend
  <2>1. /\ toServer' = Append(toServer, [kind |-> "resend"])
        /\ UNCHANGED <<toClient, server>>
    BY <1>1 DEF Resend
  <2>2. Len(toServer') \in 1..Len(toServer') /\ toServer'[Len(toServer')].kind = "resend"
    BY <1>0, <2>1 DEF TypeOK
  <2>3. Asked' /\ LastReset'
    BY <2>1, <2>2 DEF Asked, PlaceInv, LastReset
  <2> QED BY <2>3 DEF PlaceInv, Awaited, Placing
<1>2. CASE Serve
  <2>1. CASE /\ Head(toServer).kind = "walk" /\ (server.seq # 0 \/ Head(toServer).seq = 0)
             /\ server' = [at |-> Beyond(server.at, Head(toServer).by),
                           seq |-> NextSequence(Head(toServer).seq)]
             /\ toClient' = Append(toClient, [kind |-> "confirm", seq |-> Head(toServer).seq])
    BY <1>2, <2>1, TakenLeads
  <2>2. CASE /\ server' = [server EXCEPT !.seq = 0]
             /\ Send("deny", server.at) \/ Send("update", server.at)
    <3>1. server'.seq = 0 /\ server'.at = server.at
      BY <1>0, <2>2 DEF TypeOK
    <3> QED BY <2>2, <3>1, ToldPlace DEF Send
  <2> QED BY <1>2, <2>1, <2>2 DEF Serve
<1>3. CASE Teleport
  <2>1. PICK cell \in Cells : server' = [at |-> cell, seq |-> 0] /\ Send("update", cell)
    BY <1>3 DEF Teleport
  <2>2. server'.seq = 0 /\ server'.at = cell
    BY <2>1
  <2> QED BY <2>1, <2>2, ToldPlace DEF Send
<1> QED BY <1>1, <1>2, <1>3

\* When nothing is under way the player stands where the server has it, whatever was
\* denied, teleported or confirmed out of turn, but for the crossed step 0.
THEOREM PlayerInSync == Spec => []InSync
<1>1. WalkerInv /\ PlaceInv /\ [Next]_vars => PlaceInv'
  <2> SUFFICES ASSUME WalkerInv, PlaceInv, [Next]_vars PROVE PlaceInv'
    OBVIOUS
  <2>1. CASE Receive
    <3>1. Head(toClient).kind = "confirm" \/ IsReset(Head(toClient))
      BY <2>1 DEF Receive, IsReset
    <3> QED BY <2>1, <3>1, ConfirmLeads, PlacedLeads
  <2>2. CASE UNCHANGED vars
    BY <2>2, PlaceStays DEF vars, client, Goal
  <2> QED BY <2>1, <2>2, WalkLeads, AnimateLeads, OthersLead DEF Next
<1>2. WalkerInv /\ PlaceInv => InSync
  <2> SUFFICES ASSUME PlaceInv, toServer = <<>>, toClient = <<>>, steps = <<>>, ~crossed
               PROVE  pos = server.at
    BY DEF InSync
  <2>1. Len(toServer) = 0 /\ ~Resetting /\ ~Asked /\ ~Astray
    BY DEF Resetting, Asked, Astray
  <2>2. PICK f : Leads(f)
    BY <2>1 DEF PlaceInv, Placing, Clean
  <2> QED BY <2>1, <2>2 DEF Leads, Goal
<1> QED BY <1>1, <1>2, PlaceInit, WindowInvariance, PTL DEF Spec

=============================================================================
