-------------------------- MODULE MCSemaphoreInner --------------------------
(* Instances of SemaphoreInner for TLC.  Slots and contexts are             *)
(* interchangeable: no definition tells one from another.                   *)
EXTENDS SemaphoreInner, TLC

Symmetry == Permutations(Futures) \cup Permutations(Contexts)
=============================================================================
