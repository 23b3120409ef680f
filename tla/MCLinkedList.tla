---------------------------- MODULE MCLinkedList ----------------------------
(* LinkedList for TLC: its constants are given in the configuration.       *)
EXTENDS LinkedList
=============================================================================
