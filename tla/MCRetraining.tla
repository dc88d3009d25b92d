---------------------------- MODULE MCRetraining ----------------------------
(***************************************************************************)
(* Small instances of Retraining.                                          *)
(***************************************************************************)
EXTENDS Retraining, TLC

Symmetry == Permutations(Properties)
=============================================================================
