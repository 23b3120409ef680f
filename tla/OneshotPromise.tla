--------------------------- MODULE OneshotPromise ---------------------------
(***************************************************************************)
(* What src/oneshot.rs promises its users: one send, one answer to it, and *)
(* one outcome for the receiver that agrees with that answer.  A value     *)
(* that send accepted is received, even after a close, or dropped with the *)
(* receiver; a value that it refused is given back, and never received.    *)
(***************************************************************************)
VARIABLES
    sent,      \* what became of the sender: "none" yet, "ok", "err", "dropped"
    received,  \* the receiver's outcome: "none" yet, "value" or "error"
    closed     \* the receiver has closed the channel or is gone

Init == sent = "none" /\ received = "none" /\ closed = FALSE

\* Any send after the close fails, none before it does.
Send ==
    /\ sent = "none"
    /\ sent' = IF closed THEN "err" ELSE "ok"
    /\ UNCHANGED <<received, closed>>

DropSender ==
    /\ sent = "none"
    /\ sent' = "dropped"
    /\ UNCHANGED <<received, closed>>

Close == closed' = TRUE /\ UNCHANGED <<sent, received>>

Receive ==
    /\ received = "none"
    /\ sent = "ok"
    /\ received' = "value"
    /\ UNCHANGED <<sent, closed>>

\* The receiver is told that there is no value only if there is none to come.
Fail ==
    /\ received = "none"
    /\ sent \in {"err", "dropped"} \/ (sent = "none" /\ closed)
    /\ received' = "error"
    /\ UNCHANGED <<sent, closed>>

Next == Send \/ DropSender \/ Close \/ Receive \/ Fail

Spec == Init /\ [][Next]_<<sent, received, closed>>
=============================================================================
