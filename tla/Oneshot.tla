------------------------------ MODULE Oneshot -------------------------------
(***************************************************************************)
(* The oneshot channel of src/oneshot.rs: the four bits of Inner.state,    *)
(* the value cell, and the two uninitialised memory cells for wakers that  *)
(* the bits guard.                                                         *)
(*                                                                         *)
(* A call is one step, except where a poll replaces its waker: dropping    *)
(* the old waker and cloning the new one runs code of the executor, which  *)
(* may release a task and with it the handle at the other end, or use that *)
(* handle.  The poll is at that point while `swapping` holds its context;  *)
(* it is a call within the poll, so that only the handle at the other end  *)
(* may act, and not by polling.                                            *)
(***************************************************************************)
CONSTANTS
    Contexts,  \* the tasks that poll either handle
    None       \* an uninitialised cell, no context

ASSUME OneshotAssumption == None \notin Contexts

VARIABLES
    complete, closed, rxSet, txSet,  \* the bits of State
    value,           \* the cell Inner.value holds a value
    rxTask, txTask,  \* the cells Inner.rx_task and Inner.tx_task
    rx, tx,          \* the handles, and the tasks that poll them
    sent, received   \* history: how the sender, the receiver have ended

vars == <<complete, closed, rxSet, txSet, value, rxTask, txTask, rx, tx, sent,
          received>>
-----------------------------------------------------------------------------
(***************************************************************************)
(* A handle.  `open` means that it still refers to the Inner.  `waiting`   *)
(* says that its last poll was pending and nothing else was done with it   *)
(* since; `cx` is the context of that poll, `notified` whether that        *)
(* context was woken since.                                                *)
(***************************************************************************)
Handle == [open     : BOOLEAN,
           waiting  : BOOLEAN,
           cx       : Contexts \cup {None},
           notified : BOOLEAN,
           swapping : Contexts \cup {None}]

Fresh == [open |-> TRUE, waiting |-> FALSE, cx |-> None, notified |-> FALSE,
          swapping |-> None]

\* The handle h is left by a call that does not wait.
Idle(h) == [h EXCEPT !.waiting = FALSE, !.cx = None, !.notified = FALSE,
                     !.swapping = None]

Gone(h) == [Idle(h) EXCEPT !.open = FALSE]

Pending(h, c) == [h EXCEPT !.waiting = TRUE, !.cx = c, !.notified = FALSE,
                           !.swapping = None]

\* wake_by_ref on a task cell: it wakes the task that polls h if it is that one.
Notify(h, task) == [h EXCEPT !.notified = @ \/ (h.waiting /\ h.cx = task)]

\* The calls of one end run while it is not in a poll itself; those that only
\* change the state may run inside a poll of the other end.
CanCall(h) == h.open /\ h.swapping = None
CanPoll(h, other) == CanCall(h) /\ other.swapping = None

\* Inner is dropped with the second of its handles, and the wakers with it whose
\* bits are set, and the value.
Release(rxSet1, rxTask1, value1, other) ==
    IF other.open
    THEN rxTask' = rxTask1 /\ value' = value1 /\ UNCHANGED txTask
    ELSE /\ rxTask' = IF rxSet1 THEN None ELSE rxTask1
         /\ txTask' = IF txSet THEN None ELSE txTask
         /\ value' = FALSE
-----------------------------------------------------------------------------
Init ==
    /\ complete = FALSE /\ closed = FALSE /\ rxSet = FALSE /\ txSet = FALSE
    /\ value = FALSE
    /\ rxTask = None /\ txTask = None
    /\ rx = Fresh /\ tx = Fresh
    /\ sent = "none" /\ received = "none"

\* Mutant: the receiver is not woken when the channel is completed empty.
CompleteSilently == complete' = TRUE /\ UNCHANGED rx

\* Inner::complete
Complete ==
    /\ complete' = TRUE
    /\ rx' = IF rxSet /\ ~closed THEN Notify(rx, rxTask) ELSE rx

\* Mutant: send looks for the receiver's handle, not at the flag.
SendToHandle ==
    /\ CanCall(tx)
    /\ Complete
    /\ sent' = IF rx.open THEN "ok" ELSE "err"
    /\ tx' = Gone(tx)
    /\ Release(rxSet, rxTask, rx.open, rx)
    /\ UNCHANGED <<closed, rxSet, txSet, received>>

\* Sender::send: the value is put into the cell, and taken back if the channel
\* turns out to be closed.
Send ==
    /\ CanCall(tx)
    /\ Complete
    /\ sent' = IF closed THEN "err" ELSE "ok"
    /\ tx' = Gone(tx)
    /\ Release(rxSet, rxTask, ~closed, rx)
    /\ UNCHANGED <<closed, rxSet, txSet, received>>

DropSender ==
    /\ CanCall(tx)
    /\ Complete
    /\ sent' = "dropped"
    /\ tx' = Gone(tx)
    /\ Release(rxSet, rxTask, value, rx)
    /\ UNCHANGED <<closed, rxSet, txSet, received>>

\* poll_closed, which is ready at once, waits with the waker it has, ...
PollClosedReady ==
    /\ CanPoll(tx, rx)
    /\ closed
    /\ tx' = Idle(tx)
    /\ UNCHANGED <<complete, closed, rxSet, txSet, value, rxTask, txTask, rx, sent,
                   received>>

PollClosedSame(c) ==
    /\ CanPoll(tx, rx)
    /\ ~closed
    /\ txSet /\ txTask = c
    /\ tx' = Pending(tx, c)
    /\ UNCHANGED <<complete, closed, rxSet, txSet, value, rxTask, txTask, rx, sent,
                   received>>

\* ... or drops that waker, if there is one, and clones another.
PollClosedSwap(c) ==
    /\ CanPoll(tx, rx)
    /\ ~closed
    /\ ~(txSet /\ txTask = c)
    /\ txSet' = FALSE
    /\ txTask' = None
    /\ tx' = [Idle(tx) EXCEPT !.swapping = c]
    /\ UNCHANGED <<complete, closed, rxSet, value, rxTask, rx, sent, received>>

\* Mutant: the poll does not look at the state again.
EndClosedSwapBlind ==
    /\ tx.swapping # None
    /\ txSet' = TRUE
    /\ txTask' = tx.swapping
    /\ tx' = Pending(tx, tx.swapping)
    /\ UNCHANGED <<complete, closed, rxSet, value, rxTask, rx, sent, received>>

\* set_tx_task returns the state after the update: a close from within the
\* poll is seen here.
EndClosedSwap ==
    /\ tx.swapping # None
    /\ txSet' = TRUE
    /\ txTask' = tx.swapping
    /\ tx' = IF closed THEN Idle(tx) ELSE Pending(tx, tx.swapping)
    /\ UNCHANGED <<complete, closed, rxSet, value, rxTask, rx, sent, received>>

\* The future of Sender::closed is dropped; its waker stays in the cell.
CancelClosed ==
    /\ tx.open /\ tx.waiting
    /\ tx' = Idle(tx)
    /\ UNCHANGED <<complete, closed, rxSet, txSet, value, rxTask, txTask, rx, sent,
                   received>>
-----------------------------------------------------------------------------
\* Inner::close, for which h is what becomes of the receiver.
Close(h) ==
    /\ closed' = TRUE
    /\ tx' = IF txSet /\ ~complete THEN Notify(tx, txTask) ELSE tx
    /\ rx' = h

\* Receiver::close
CloseReceiver ==
    /\ CanCall(rx)
    /\ Close(Idle(rx))
    /\ UNCHANGED <<complete, rxSet, txSet, value, rxTask, txTask, sent, received>>

\* Drop for Receiver, of one that still refers to the Inner.
DropReceiver ==
    /\ CanCall(rx)
    /\ Close(Gone(rx))
    /\ Release(rxSet, rxTask, value, tx)
    /\ UNCHANGED <<complete, rxSet, txSet, sent, received>>

\* The receiver takes the value and lets go of the Inner.
TakeValue(rxSet1, rxTask1) ==
    /\ value
    /\ received' = "value"
    /\ rx' = Gone(rx)
    /\ Release(rxSet1, rxTask1, FALSE, tx)

\* Receiver::try_recv lets go of the Inner when it finds that nothing will come,
TryRecvValue ==
    /\ CanCall(rx)
    /\ complete
    /\ TakeValue(rxSet, rxTask)
    /\ UNCHANGED <<complete, closed, rxSet, txSet, tx, sent>>

TryRecvClosed ==
    /\ CanCall(rx)
    /\ IF complete THEN ~value ELSE closed
    /\ received' = "error"
    /\ rx' = Gone(rx)
    /\ Release(rxSet, rxTask, value, tx)
    /\ UNCHANGED <<complete, closed, rxSet, txSet, tx, sent>>

TryRecvEmpty ==
    /\ CanCall(rx)
    /\ ~complete /\ ~closed
    /\ rx' = Idle(rx)
    /\ UNCHANGED <<complete, closed, rxSet, txSet, value, rxTask, txTask, tx, sent,
                   received>>

\* while Future::poll keeps it when poll_recv fails: the `?` leaves first.
PollRecvValue ==
    /\ CanPoll(rx, tx)
    /\ complete
    /\ TakeValue(rxSet, rxTask)
    /\ UNCHANGED <<complete, closed, rxSet, txSet, tx, sent>>

PollRecvError ==
    /\ CanPoll(rx, tx)
    /\ IF complete THEN ~value ELSE closed
    /\ received' = "error"
    /\ rx' = Idle(rx)
    /\ UNCHANGED <<complete, closed, rxSet, txSet, value, rxTask, txTask, tx, sent>>

PollRecvSame(c) ==
    /\ CanPoll(rx, tx)
    /\ ~complete /\ ~closed
    /\ rxSet /\ rxTask = c
    /\ rx' = Pending(rx, c)
    /\ UNCHANGED <<complete, closed, rxSet, txSet, value, rxTask, txTask, tx, sent,
                   received>>

\* Mutant: the old waker is dropped and its bit is left set.
PollRecvSwapSet(c) ==
    /\ CanPoll(rx, tx)
    /\ ~complete /\ ~closed
    /\ ~(rxSet /\ rxTask = c)
    /\ rxTask' = None
    /\ rx' = [Idle(rx) EXCEPT !.swapping = c]
    /\ UNCHANGED <<complete, closed, rxSet, txSet, value, txTask, tx, sent, received>>

PollRecvSwap(c) ==
    /\ CanPoll(rx, tx)
    /\ ~complete /\ ~closed
    /\ ~(rxSet /\ rxTask = c)
    /\ rxSet' = FALSE
    /\ rxTask' = None
    /\ rx' = [Idle(rx) EXCEPT !.swapping = c]
    /\ UNCHANGED <<complete, closed, txSet, value, txTask, tx, sent, received>>

\* As in EndClosedSwap, the state is looked at again.
EndRecvSwap ==
    /\ rx.swapping # None
    /\ rxSet' = TRUE
    /\ \/ /\ complete
          /\ TakeValue(TRUE, rx.swapping)
       \/ /\ complete
          /\ ~value
          /\ received' = "error"
          /\ rx' = Idle(rx)
          /\ rxTask' = rx.swapping
          /\ UNCHANGED <<value, txTask>>
       \/ /\ ~complete
          /\ rx' = Pending(rx, rx.swapping)
          /\ rxTask' = rx.swapping
          /\ UNCHANGED <<value, txTask, received>>
    /\ UNCHANGED <<complete, closed, txSet, tx, sent>>

PollClosed == PollClosedReady \/ \E c \in Contexts : PollClosedSame(c) \/ PollClosedSwap(c)

PollRecv ==
    \/ PollRecvValue
    \/ PollRecvError
    \/ \E c \in Contexts : PollRecvSame(c) \/ PollRecvSwap(c)

Next ==
    \/ Send \/ DropSender \/ CancelClosed
    \/ PollClosed \/ EndClosedSwap
    \/ CloseReceiver \/ DropReceiver
    \/ TryRecvValue \/ TryRecvClosed \/ TryRecvEmpty
    \/ PollRecv \/ EndRecvSwap

Spec == Init /\ [][Next]_vars

\* The executor polls a task that it has been asked to run, however often the
\* others are polled, and the code of a waker returns.
Fairness ==
    /\ SF_vars(tx.notified /\ PollClosed)
    /\ SF_vars(rx.notified /\ PollRecv)
    /\ WF_vars(EndClosedSwap)
    /\ WF_vars(EndRecvSwap)

FairSpec == Spec /\ Fairness
-----------------------------------------------------------------------------
\* The bits give the uninitialised cells their type: a cell holds a waker
\* exactly if its bit is set, and once both handles have let go of the Inner no
\* waker is left in it.  So none is used before it is written, none is dropped
\* twice and none is leaked.
Cell(set) == IF set /\ (rx.open \/ tx.open) THEN Contexts ELSE {None}

TypeOK ==
    /\ complete \in BOOLEAN /\ closed \in BOOLEAN
    /\ rxSet \in BOOLEAN /\ txSet \in BOOLEAN
    /\ value \in BOOLEAN
    /\ rxTask \in Cell(rxSet) /\ txTask \in Cell(txSet)
    /\ rx \in Handle /\ tx \in Handle
    /\ sent \in {"none", "ok", "err", "dropped"}
    /\ received \in {"none", "value", "error"}

\* Neither end sleeps through what it waits for, whichever task polled it last,
\* even if the other end acted while the poll was replacing its waker.
NoLostWakeup ==
    /\ rx.waiting /\ complete => rx.notified
    /\ tx.waiting /\ closed => tx.notified

\* What these and the promise rest on: a pending poll has its waker in the cell
\* and can be woken still; and the value is in the cell from a send that was
\* accepted until the receiver takes it or goes.
Registered ==
    /\ rx.waiting => rx.open /\ ~closed /\ rxSet /\ rxTask = rx.cx
    /\ tx.waiting => tx.open /\ txSet /\ txTask = tx.cx
    /\ rx.swapping # None => rx.open /\ ~closed /\ received = "none" /\ ~rxSet
    /\ tx.swapping # None => tx.open /\ ~txSet

ValueKept ==
    /\ tx.open <=> sent = "none"
    /\ complete <=> sent # "none"
    /\ value => sent = "ok"
    /\ rx.open /\ sent = "ok" => value /\ received = "none"
    /\ received = "error" => sent # "ok" /\ (closed \/ complete)
    /\ received = "value" => sent = "ok" /\ ~rx.open

\* The inductive invariant: see OneshotProofs.
IndInv == TypeOK /\ NoLostWakeup /\ Registered /\ ValueKept

\* Who waits at one end is answered after the other end has done its part.
WaitersAnswered ==
    /\ rx.waiting /\ complete ~> ~rx.waiting
    /\ tx.waiting /\ closed ~> ~tx.waiting

\* The bits, the cells and the handles together keep the promise of the channel.
Promise == INSTANCE OneshotPromise

PromiseSpec == Promise!Spec
=============================================================================
