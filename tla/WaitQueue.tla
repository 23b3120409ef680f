----------------------------- MODULE WaitQueue ------------------------------
(***************************************************************************)
(* What src/linked_list.rs promises to the semaphore: a queue, joined at   *)
(* one end (push_front), served at the other (pop_back), that any element  *)
(* can leave (remove).  `result` is what the last call returned.           *)
(***************************************************************************)
EXTENDS Sequences, Functions, Queues

CONSTANTS Nodes, Null

VARIABLES queue, result

Init == queue = <<>> /\ result = Null

Oldest == IF queue = <<>> THEN Null ELSE Head(queue)

PushFront(n) ==
    /\ n \notin Range(queue)
    /\ queue' = Append(queue, n)
    /\ result' = Null

PopBack ==
    /\ result' = Oldest
    /\ queue' = IF queue = <<>> THEN queue ELSE Tail(queue)

Remove(n) ==
    /\ result' = IF n \in Range(queue) THEN n ELSE Null
    /\ queue' = Without(queue, n)

Last == result' = Oldest /\ UNCHANGED queue

Next ==
    \/ \E n \in Nodes : PushFront(n) \/ Remove(n)
    \/ PopBack
    \/ Last

Spec == Init /\ [][Next]_<<queue, result>>
=============================================================================
