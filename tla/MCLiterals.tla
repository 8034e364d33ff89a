----------------------------- MODULE MCLiterals -----------------------------
(* Instances of the literal pools for TLC.  Addresses and constants are all  *)
(* alike to the pools, so the values may be exchanged for one another.       *)
EXTENDS Literals, TLC

Symmetry == Permutations(Values)
=============================================================================
