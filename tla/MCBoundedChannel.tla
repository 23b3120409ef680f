-------------------------- MODULE MCBoundedChannel --------------------------
(* Instances of BoundedChannel for TLC.  Sender handles, tasks and values   *)
(* are interchangeable.                                                     *)
EXTENDS BoundedChannel, TLC

Symmetry == Permutations(Txs) \cup Permutations(Contexts) \cup Permutations(Values)
=============================================================================
