--------------------------- MODULE BoundedChannel ---------------------------
(***************************************************************************)
(* The bounded channel of src/mpsc/bounded.rs: Chan with the semaphore of  *)
(* SemaphoreInner, which holds one permit for each free place of the       *)
(* queue.  A send acquires one and keeps it: what the queue holds is what  *)
(* has been taken from the semaphore, and recv gives it back.              *)
(*                                                                         *)
(* A handle of `Txs` has at most one send under way, whose Acquire future  *)
(* borrows it; concurrent sends are those of several handles.              *)
(***************************************************************************)
EXTENDS Integers, Sequences, FiniteSets

CONSTANTS
    Txs, Contexts, None, Values,
    Buffer,      \* the argument of channel
    MaxPermits   \* Inner::MAX_PERMITS

ASSUME BoundedChannelAssumption ==
    /\ IsFiniteSet(Txs)
    /\ None \notin Contexts
    /\ Buffer \in Nat
    /\ MaxPermits \in Nat
    /\ Buffer <= MaxPermits

VARIABLES
    permits, closed, waiters, acq, balance,  \* those of SemaphoreInner
    queue,                                   \* the values in Chan.queue
    txs, rx                                  \* those of Chan

Inner == INSTANCE SemaphoreInner WITH
    Futures <- Txs, Amounts <- 0..Buffer \cup {1}, InitialPermits <- Buffer,
    MaxBalance <- 2 * Buffer

C == INSTANCE Chan WITH len <- Len(queue)

innerVars == <<permits, closed, waiters, acq, balance>>
chanVars == <<queue, txs, rx>>
vars == <<innerVars, chanVars>>
-----------------------------------------------------------------------------
Init == Inner!Init /\ C!Init /\ queue = <<>>

\* While the values of a dropped receiver are destroyed, only what their
\* destructors may call happens: dropping senders, and their pending sends.
Running == rx.phase # "dropping"

\* send starts; its first poll follows.
Send(t) ==
    /\ Running
    /\ t \in txs
    /\ Inner!Acquire(t, 1)
    /\ UNCHANGED chanVars

\* The acquire is ready, and the poll goes on to put the value into the queue.
PollSendReady(t, v) ==
    /\ Running
    /\ Inner!PollFast(t) \/ Inner!PollAssigned(t)
    /\ C!Send
    /\ queue' = Append(queue, v)

PollSendWait(t) ==
    /\ Running
    /\ \E c \in Contexts : Inner!PollPending(t, c)
    /\ UNCHANGED chanVars

PollSendError(t) ==
    /\ Running
    /\ Inner!PollClosed(t)
    /\ UNCHANGED chanVars

\* The send is cancelled, or has returned its error.
DropSend(t) ==
    /\ Inner!DropAcquire(t)
    /\ UNCHANGED chanVars

CloneTx(t, u) ==
    /\ Running
    /\ C!CloneTx(t, u)
    /\ UNCHANGED <<innerVars, queue>>

\* The last sender to go closes the semaphore.
DropTx(t) ==
    /\ acq[t].phase = "none"
    /\ C!DropTx(t)
    /\ UNCHANGED queue
    /\ IF txs = {t} THEN Inner!Close ELSE UNCHANGED innerVars

\* Mutant: the place of the value is not given back.
RecvKeepingPermit ==
    /\ C!Pop
    /\ queue' = Tail(queue)
    /\ UNCHANGED innerVars

\* Mutant: the place goes to the word, past the sends that wait.
RecvToWord ==
    /\ C!Pop
    /\ queue' = Tail(queue)
    /\ permits' = permits + 1
    /\ balance' = balance + 1
    /\ UNCHANGED <<closed, waiters, acq>>

\* recv or try_recv takes a value and gives its place back.
Recv ==
    /\ C!Pop
    /\ queue' = Tail(queue)
    /\ Inner!Release(1)

RecvNone ==
    /\ C!RecvNone
    /\ UNCHANGED <<innerVars, queue>>

RecvPending ==
    /\ \E c \in Contexts : C!RecvPending(c)
    /\ UNCHANGED <<innerVars, queue>>

CancelRecv ==
    /\ C!CancelRecv
    /\ UNCHANGED <<innerVars, queue>>

CloseRx ==
    /\ C!CloseRx
    /\ Inner!Close
    /\ UNCHANGED queue

\* Mutant: the receiver goes without telling the senders.
DropRxOpen ==
    /\ C!DropRx
    /\ UNCHANGED <<innerVars, queue>>

DropRx ==
    /\ C!DropRx
    /\ Inner!Close
    /\ UNCHANGED queue

\* add_permits returns early if there was nothing in the queue.
DrainRx ==
    /\ C!EndDropRx
    /\ queue' = <<>>
    /\ IF queue = <<>> THEN UNCHANGED innerVars ELSE Inner!Release(Len(queue))

PollSend(t) == (\E v \in Values : PollSendReady(t, v)) \/ PollSendWait(t) \/ PollSendError(t)

PollRecv == Recv \/ RecvNone \/ RecvPending

Next ==
    \/ \E t \in Txs :
          \/ Send(t) \/ PollSend(t) \/ DropSend(t)
          \/ \E u \in Txs : CloneTx(t, u)
          \/ DropTx(t)
    \/ PollRecv \/ CancelRecv \/ CloseRx \/ DropRx \/ DrainRx

Spec == Init /\ [][Next]_vars

\* The executor polls the tasks that have been woken, and a destructor returns;
\* the receiver's task calls recv again when that has returned, but a recv that
\* waits is polled only if it has been woken.
Fairness ==
    /\ \A t \in Txs : /\ WF_vars(acq[t].notified /\ PollSend(t))
                      /\ WF_vars(acq[t].phase = "failed" /\ DropSend(t))
    /\ WF_vars((rx.waiting => rx.notified) /\ PollRecv)
    /\ WF_vars(DrainRx)

FairSpec == Spec /\ Fairness
-----------------------------------------------------------------------------
\* Each place of the buffer is free, promised to a send that waits, or taken by
\* a value, whatever is cancelled, closed or dropped: the queue never outgrows
\* the buffer, and no place is ever lost to the senders that are left.  A sender
\* that is dropped takes its send with it, so none of the promises is stranded.
CapacityAccounted ==
    /\ permits + Cardinality(Inner!AssignedUnits) + Len(queue) = Buffer
    /\ \A t \in Txs \ txs : acq[t].phase = "none"

\* A waiting receiver is woken by a value and by the end of the channel.
NoLostWakeup == C!NoLostWakeup

\* The channel is a queue of at most Buffer values, closed for good by a call of
\* close or when a side is gone: the values arrive in order and none is sent after.
HasRoom(q) == Len(q) < Buffer

F == INSTANCE Fifo WITH Room <- HasRoom, closed <- closed \/ rx.phase # "alive" \/ txs = {}

FifoSpec == F!Spec

\* The channel uses the low level semaphore by its own steps, so what is proved
\* of SemaphoreInner holds in it: its sends are served in order.
InnerSpec == Inner!Spec

\* A send that waits is eventually let through, or learns that the receiver is
\* gone, as long as the receiver receives what there is.
SendsAnswered ==
    \A t \in Txs : Inner!Waiting(t) ~> ~Inner!Waiting(t)

\* A receiver that waits gets the value that is there, or the end.
RecvAnswered ==
    rx.waiting /\ (queue # <<>> \/ txs = {}) ~> ~rx.waiting

\* What the doc of TryRecvError::Empty says: data may yet become available.
EmptyMayFill ==
    rx.phase = "alive" /\ queue = <<>> /\ C!TryRecvError = "Empty" => ~closed
=============================================================================
