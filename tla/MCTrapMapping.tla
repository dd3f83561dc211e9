----------------------------- MODULE MCTrapMapping -----------------------------
(***************************************************************************)
(* The instance of TrapMapping that TLC checks.                            *)
(***************************************************************************)
EXTENDS TrapMapping, TLC

\* Two blocks that share the first page; the second one straddles.
Straddle == (1 :> {1}) @@ (2 :> {1, 2})
\* The entry table ends on the first page, before them.
TableFirst == (1 :> {1}) @@ (2 :> {1})
=============================================================================
