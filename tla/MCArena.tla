------------------------------- MODULE MCArena -------------------------------
(***************************************************************************)
(* The instance of Arena that TLC checks: a pack with a fetched part, a    *)
(* refined one that streams and a reserved slot, and a loose file that     *)
(* streams.  The pack fits the budget, its parts and the loose file do not.*)
(***************************************************************************)
EXTENDS Arena, TLC

CONSTANTS a, b, c, hole, pack, loose, t1, t2

FileIn == [g \in Granules |-> IF g = c THEN loose ELSE pack]
Sizes == (a :> 2) @@ (b :> 1) @@ (c :> 2) @@ (hole :> 0)
=============================================================================
