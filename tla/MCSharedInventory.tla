------------------------- MODULE MCSharedInventory --------------------------
(***************************************************************************)
(* Two processes, started again and again, and two objects: one is always  *)
(* applied, the other one comes and goes.                                  *)
(***************************************************************************)
EXTENDS SharedInventory, TLC

Symmetry == Permutations(Runners)
=============================================================================
