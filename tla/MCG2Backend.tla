---------------------------- MODULE MCG2Backend -----------------------------
(***************************************************************************)
(* Instances of G2Backend for TLC.                                         *)
(***************************************************************************)
EXTENDS G2Backend, TLC

Symmetry == Permutations(Sessions)
=============================================================================
