----------------------------- MODULE MCInstance -----------------------------
(***************************************************************************)
(* Instance for TLC: controllers and data directories are interchangeable.  *)
(***************************************************************************)
EXTENDS Instance, TLC

Symmetry == Permutations(Controller) \cup Permutations(Directory)
=============================================================================
