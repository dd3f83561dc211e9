-------------------------------- MODULE MCTrap --------------------------------
(***************************************************************************)
(* The instances of Trap that TLC checks.                                  *)
(***************************************************************************)
EXTENDS Trap, TLC

\* Two blocks that share the first page; the second one straddles.
Straddle == (1 :> {1}) @@ (2 :> {1, 2})
\* The entry table ends on the first page, before them.
TableFirst == (1 :> {1}) @@ (2 :> {1})
\* One block on one page.
OneBlock == 1 :> {1}
\* A loose file: it has no table.
NoTable == 1 :> {}
Symmetry == Permutations(Threads)
=============================================================================
