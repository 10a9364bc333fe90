------------------------------ MODULE MCUsers -----------------------------
(* Instances of Users for TLC.                                             *)
EXTENDS Users, TLC

CONSTANTS k1, k2, s1

Symmetry == Permutations({k1, k2})
===========================================================================
