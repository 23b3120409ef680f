----------------------------- MODULE ValueQueue -----------------------------
(***************************************************************************)
(* What Queue of src/mpsc/block.rs promises to Chan, and by its # Safety   *)
(* comments asks of it: a queue of values, popped only when it is not      *)
(* empty and freed once, when it is.                                       *)
(***************************************************************************)
EXTENDS Sequences

CONSTANTS Values, Uninit

VARIABLES
    queue,
    popped,  \* what the last pop returned
    live     \* the queue has not been freed

Init == queue = <<>> /\ popped = Uninit /\ live = TRUE

Push(v) == live /\ queue' = Append(queue, v) /\ UNCHANGED <<popped, live>>

Pop ==
    /\ live
    /\ queue # <<>>
    /\ popped' = Head(queue)
    /\ queue' = Tail(queue)
    /\ UNCHANGED live

Free == live /\ queue = <<>> /\ live' = FALSE /\ UNCHANGED <<queue, popped>>

Next == (\E v \in Values : Push(v)) \/ Pop \/ Free

Spec == Init /\ [][Next]_<<queue, popped, live>>
=============================================================================
