------------------------- MODULE MCUnboundedChannel -------------------------
(* An instance of UnboundedChannel for TLC.                                *)
EXTENDS UnboundedChannel
=============================================================================
