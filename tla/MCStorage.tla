------------------------------ MODULE MCStorage ------------------------------
(* Instances of Storage for TLC.                                               *)
EXTENDS Storage, TLC

Windows == Permutations(Window)
=============================================================================
