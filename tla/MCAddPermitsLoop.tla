-------------------------- MODULE MCAddPermitsLoop --------------------------
(* AddPermitsLoop for TLC: its constants are given in the configuration.   *)
EXTENDS AddPermitsLoop
=============================================================================
