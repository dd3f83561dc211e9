------------------------------ MODULE MCStateDB ------------------------------
(***************************************************************************)
(* The instances of StateDB that TLC checks.                               *)
(***************************************************************************)
EXTENDS StateDB

A(data, size) == [data |-> data, size |-> size]

\* The first update changes the last asset in place, the second makes it longer.
\* (Neither touches the first one, which may be streamed: README, section 3.)
ThreePlans == << << A(1, 1), A(2, 1) >>, << A(1, 1), A(3, 1) >>, << A(1, 1), A(4, 2) >> >>
\* The first of these updates.
TwoPlans == SubSeq(ThreePlans, 1, 2)
=============================================================================
