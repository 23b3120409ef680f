----------------------------- MODULE MCOnceCell -----------------------------
(* Instances of OnceCell for TLC.                                          *)
EXTENDS OnceCell
=============================================================================
