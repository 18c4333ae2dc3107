----------------------------- MODULE MCCutover -----------------------------
(* A state directory with a few messages, backups and restores.              *)
EXTENDS Cutover, TLC

Symmetry == Permutations(Requests)
=============================================================================
