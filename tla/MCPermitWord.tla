---------------------------- MODULE MCPermitWord ----------------------------
(* Instances of PermitWord for TLC: usize wider than the requests, as on   *)
(* 64-bit targets, and as wide, as on 32-bit targets.                      *)
EXTENDS PermitWord, TLC

Symmetry == Permutations(Slots)
=============================================================================
