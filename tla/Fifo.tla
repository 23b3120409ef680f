-------------------------------- MODULE Fifo --------------------------------
(***************************************************************************)
(* What a channel of src/mpsc promises: the values sent arrive in order,   *)
(* each once, there are never more of them than there is room for, and     *)
(* nothing is sent once the channel is closed, while what was sent before  *)
(* can still be received.                                                  *)
(***************************************************************************)
EXTENDS Sequences

CONSTANTS Values, Room(_)

VARIABLES queue, closed

Init == queue = <<>> /\ closed = FALSE

Send(v) ==
    /\ ~closed
    /\ Room(queue)
    /\ queue' = Append(queue, v)
    /\ UNCHANGED closed

Receive == queue # <<>> /\ queue' = Tail(queue) /\ UNCHANGED closed

Close == closed' = TRUE /\ UNCHANGED queue

\* The receiver is gone.
Discard == closed /\ queue' = <<>> /\ UNCHANGED closed

Next == (\E v \in Values : Send(v)) \/ Receive \/ Close \/ Discard

Spec == Init /\ [][Next]_<<queue, closed>>
=============================================================================
