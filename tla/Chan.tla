-------------------------------- MODULE Chan --------------------------------
(***************************************************************************)
(* The part of src/mpsc/chan.rs that the bounded and the unbounded channel *)
(* share: the count of senders, and the receiver with its waker.  The      *)
(* queue, of which these steps read the length alone, and the semaphore, a *)
(* type parameter of Chan, are left to BoundedChannel and UnboundedChannel,*)
(* whose actions join their steps to these.                                *)
(***************************************************************************)
EXTENDS Naturals

CONSTANTS
    Txs,       \* the sender handles that may exist
    Contexts,  \* the tasks that poll the receiver
    None       \* no waker, no context

VARIABLES
    len,  \* the length of Chan.queue
    txs,  \* the live Tx handles, which Chan.tx_count counts
    rx    \* the Rx handle with Chan.rx_waker, and the task that polls it

(***************************************************************************)
(* `waiting` says that the last recv was pending and is still awaited,     *)
(* `cx` by which context, `notified` whether that was woken since.  Rx is  *)
(* "dropping" while the destructors of the values it leaves behind run.    *)
(***************************************************************************)
Receiver == [phase    : {"alive", "dropping", "gone"},
             waker    : Contexts \cup {None},
             waiting  : BOOLEAN,
             cx       : Contexts \cup {None},
             notified : BOOLEAN]

Idle(r) == [r EXCEPT !.waiting = FALSE, !.cx = None, !.notified = FALSE]

\* rx_waker is taken and woken.
Woken(r) == [r EXCEPT !.waker = None,
                      !.notified = @ \/ (r.waiting /\ r.waker = r.cx)]
-----------------------------------------------------------------------------
\* Chan::new, with one Tx and the Rx
Init ==
    /\ \E t \in Txs : txs = {t}
    /\ rx = [phase |-> "alive", waker |-> None, waiting |-> FALSE, cx |-> None,
             notified |-> FALSE]

\* Mutant: the receiver is not woken.
SendSilently == UNCHANGED <<txs, rx>>

\* Tx::send, of a channel that is not closed
Send == rx' = Woken(rx) /\ UNCHANGED txs

\* Tx::clone
CloneTx(t, u) ==
    /\ t \in txs
    /\ u \notin txs
    /\ txs' = txs \cup {u}
    /\ UNCHANGED rx

\* Mutant: the receiver is woken one sender early.
DropTxEarly(t) ==
    /\ t \in txs
    /\ txs' = txs \ {t}
    /\ rx' = IF \E u \in Txs : txs = {t, u} /\ u # t THEN Woken(rx) ELSE rx

\* Drop for Tx: the last one wakes the receiver.
DropTx(t) ==
    /\ t \in txs
    /\ txs' = txs \ {t}
    /\ rx' = IF txs = {t} THEN Woken(rx) ELSE rx

\* Rx::recv and Rx::try_recv that find a value
Pop ==
    /\ rx.phase = "alive"
    /\ len > 0
    /\ rx' = Idle(rx)
    /\ UNCHANGED txs

\* Rx::recv that finds the channel at its end
RecvNone ==
    /\ rx.phase = "alive"
    /\ len = 0
    /\ txs = {}
    /\ rx' = Idle(rx)
    /\ UNCHANGED txs

\* Mutant: the waker of an earlier poll is kept.
RecvPendingKeepWaker(c) ==
    /\ rx.phase = "alive"
    /\ len = 0
    /\ txs # {}
    /\ rx' = [rx EXCEPT !.waker = IF @ = None THEN c ELSE @, !.waiting = TRUE,
                        !.cx = c, !.notified = FALSE]
    /\ UNCHANGED txs

\* Rx::recv that has to wait
RecvPending(c) ==
    /\ rx.phase = "alive"
    /\ len = 0
    /\ txs # {}
    /\ rx' = [rx EXCEPT !.waker = c, !.waiting = TRUE, !.cx = c, !.notified = FALSE]
    /\ UNCHANGED txs

\* The future of recv is dropped; its waker stays.
CancelRecv ==
    /\ rx.phase = "alive"
    /\ rx.waiting
    /\ rx' = Idle(rx)
    /\ UNCHANGED txs

\* Rx::close, which leaves the rest to the semaphore
CloseRx ==
    /\ rx.phase = "alive"
    /\ rx' = Idle(rx)
    /\ UNCHANGED txs

\* Drop for Rx: its start, with the closing of the semaphore, and its end
DropRx ==
    /\ rx.phase = "alive"
    /\ rx' = [Idle(rx) EXCEPT !.phase = "dropping"]
    /\ UNCHANGED txs

EndDropRx ==
    /\ rx.phase = "dropping"
    /\ rx' = [rx EXCEPT !.phase = "gone"]
    /\ UNCHANGED txs

\* try_recv without a value to return
TryRecvError == IF txs = {} THEN "Disconnected" ELSE "Empty"
-----------------------------------------------------------------------------
\* A receiver that waits is woken by a value or by the end of the channel,
\* whichever task polled it last.
NoLostWakeup ==
    rx.waiting /\ (len > 0 \/ txs = {}) => rx.notified
=============================================================================
