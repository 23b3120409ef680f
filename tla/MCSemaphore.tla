---------------------------- MODULE MCSemaphore -----------------------------
(* An instance of Semaphore for TLC.                                       *)
EXTENDS Semaphore
=============================================================================
