----------------------------- MODULE MCOneshot ------------------------------
(* An instance of Oneshot for TLC.                                         *)
EXTENDS Oneshot
=============================================================================
