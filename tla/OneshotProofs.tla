--------------------------- MODULE OneshotProofs ----------------------------
(***************************************************************************)
(* The bits and cells of Oneshot are sound, no wakeup is lost, and the     *)
(* channel keeps the promise of OneshotPromise, for any set of tasks.      *)
(***************************************************************************)
EXTENDS Oneshot, TLAPS

LEMMA IdleFacts ==
    ASSUME NEW h \in Handle
    PROVE  /\ Idle(h) \in Handle
           /\ Idle(h).open = h.open /\ ~Idle(h).waiting /\ Idle(h).swapping = None
           /\ Gone(h) \in Handle
           /\ ~Gone(h).open /\ ~Gone(h).waiting /\ Gone(h).swapping = None
  BY DEF Handle, Idle, Gone

LEMMA NotifyFacts ==
    ASSUME NEW h \in Handle, NEW task
    PROVE  /\ Notify(h, task) \in Handle
           /\ Notify(h, task).open = h.open
           /\ Notify(h, task).waiting = h.waiting
           /\ Notify(h, task).cx = h.cx
           /\ Notify(h, task).swapping = h.swapping
           /\ h.notified => Notify(h, task).notified
           /\ h.waiting /\ h.cx = task => Notify(h, task).notified
  BY DEF Handle, Notify

LEMMA PollFacts ==
    ASSUME NEW h \in Handle, NEW c \in Contexts
    PROVE  /\ Pending(h, c) \in Handle
           /\ Pending(h, c).open = h.open /\ Pending(h, c).waiting
           /\ Pending(h, c).cx = c /\ Pending(h, c).swapping = None
           /\ [Idle(h) EXCEPT !.swapping = c] \in Handle
           /\ [Idle(h) EXCEPT !.swapping = c].open = h.open
           /\ ~[Idle(h) EXCEPT !.swapping = c].waiting
           /\ [Idle(h) EXCEPT !.swapping = c].swapping = c
  BY DEF Handle, Idle, Pending

LEMMA InitInv == Init => IndInv /\ Promise!Init
<1>. SUFFICES ASSUME Init PROVE IndInv /\ Promise!Init
  OBVIOUS
<1>1. /\ Fresh \in Handle
      /\ Fresh.open /\ ~Fresh.waiting /\ Fresh.swapping = None
  BY DEF Fresh, Handle
<1>2. /\ rx \in Handle /\ rx.open /\ ~rx.waiting /\ rx.swapping = None
      /\ tx \in Handle /\ tx.open /\ ~tx.waiting /\ tx.swapping = None
  BY <1>1 DEF Init
<1>3. TypeOK /\ NoLostWakeup
  BY <1>2 DEF Init, TypeOK, Cell, NoLostWakeup
<1>4. Registered /\ ValueKept
  BY <1>2 DEF Init, Registered, ValueKept
<1>. QED
  BY <1>3, <1>4 DEF IndInv, Init, Promise!Init

\* The receiver takes the value at once, by try_recv or a poll.
LEMMA TakeLemma ==
    ASSUME IndInv, complete, rx.open, rx.swapping = None, TakeValue(rxSet, rxTask),
           UNCHANGED <<complete, closed, rxSet, txSet, tx, sent>>
    PROVE  IndInv' /\ [Promise!Next]_<<sent, received, closed>>
<1>. USE OneshotAssumption DEF IndInv, TypeOK, Cell, NoLostWakeup, Registered, ValueKept
<1>1. /\ rx' \in Handle /\ ~rx'.open /\ ~rx'.waiting /\ rx'.swapping = None
  BY IdleFacts DEF TakeValue
<1>2. /\ received' = "value" /\ value' = FALSE
      /\ tx.open = FALSE
      /\ rxTask' = IF rxSet THEN None ELSE rxTask
      /\ txTask' = IF txSet THEN None ELSE txTask
  BY DEF TakeValue, Release
<1>3. TypeOK' /\ NoLostWakeup'
  BY <1>1, <1>2
<1>4. Registered'
  BY <1>1, <1>2
<1>4a. sent = "ok" /\ tx.open = FALSE /\ complete
  BY DEF TakeValue
<1>4b. ValueKept'
  BY <1>1, <1>2, <1>4a
<1>5. Promise!Receive
  BY <1>2 DEF Promise!Receive, TakeValue
<1>. QED
  BY <1>3, <1>4, <1>4b, <1>5 DEF Promise!Next

LEMMA Step ==
    ASSUME IndInv, [Next]_vars
    PROVE  IndInv' /\ [Promise!Next]_<<sent, received, closed>>
<1>. DEFINE Goal == IndInv' /\ [Promise!Next]_<<sent, received, closed>>
<1>. SUFFICES Goal
  OBVIOUS
<1>. USE OneshotAssumption DEF IndInv, TypeOK, Cell, NoLostWakeup, Registered, ValueKept
<1>0. rx \in Handle /\ tx \in Handle
  OBVIOUS
<1>1. CASE Send
  <2>1. /\ tx' \in Handle /\ ~tx'.open /\ ~tx'.waiting /\ tx'.swapping = None
    BY <1>0, <1>1, IdleFacts, NotifyFacts DEF Send
  <2>2. /\ rx' \in Handle /\ rx'.open = rx.open /\ rx'.waiting = rx.waiting
        /\ rx'.cx = rx.cx /\ rx'.swapping = rx.swapping
        /\ rx.waiting => rx'.notified
    BY <1>0, <1>1, IdleFacts, NotifyFacts DEF Send, Complete
  <2>3. /\ tx.open /\ complete' = TRUE
        /\ sent' = IF closed THEN "err" ELSE "ok"
        /\ UNCHANGED <<closed, rxSet, txSet, received>>
        /\ rx.open => value' = ~closed /\ rxTask' = rxTask /\ txTask' = txTask
        /\ ~rx.open => /\ rxTask' = IF rxSet THEN None ELSE rxTask
                       /\ txTask' = IF txSet THEN None ELSE txTask
                       /\ value' = FALSE
    BY <1>1 DEF Send, Complete, CanCall, Release
  <2>4. IndInv'
    BY <2>1, <2>2, <2>3
  <2>5. Promise!Send
    BY <2>3 DEF Promise!Send
  <2>. QED
    BY <2>4, <2>5 DEF Promise!Next
<1>2. CASE DropSender
  <2>1. /\ tx' \in Handle /\ ~tx'.open /\ ~tx'.waiting /\ tx'.swapping = None
    BY <1>0, <1>2, IdleFacts DEF DropSender
  <2>2. /\ rx' \in Handle /\ rx'.open = rx.open /\ rx'.waiting = rx.waiting
        /\ rx'.cx = rx.cx /\ rx'.swapping = rx.swapping
        /\ rx.waiting => rx'.notified
    BY <1>0, <1>2, NotifyFacts DEF DropSender, Complete
  <2>3. /\ tx.open /\ complete' = TRUE
        /\ sent' = "dropped"
        /\ UNCHANGED <<closed, rxSet, txSet, received>>
        /\ rx.open => value' = value /\ rxTask' = rxTask /\ txTask' = txTask
        /\ ~rx.open => /\ rxTask' = IF rxSet THEN None ELSE rxTask
                       /\ txTask' = IF txSet THEN None ELSE txTask
                       /\ value' = FALSE
    BY <1>2 DEF DropSender, Complete, CanCall, Release
  <2>4. IndInv'
    <3>1. TypeOK' /\ NoLostWakeup'
      BY <2>1, <2>2, <2>3
    <3>2. Registered'
      BY <2>1, <2>2, <2>3
    <3>3. ValueKept'
      BY <2>1, <2>2, <2>3
    <3>. QED
      BY <3>1, <3>2, <3>3
  <2>5. Promise!DropSender
    BY <2>3 DEF Promise!DropSender
  <2>. QED
    BY <2>4, <2>5 DEF Promise!Next
<1>3. CASE CancelClosed
  BY <1>0, <1>3, IdleFacts, NotifyFacts DEF CancelClosed
<1>4. CASE PollClosed
  <2>1. CASE PollClosedReady
    BY <1>0, <2>1, IdleFacts DEF PollClosedReady, CanPoll, CanCall
  <2>2. ASSUME NEW c \in Contexts, PollClosedSame(c) PROVE Goal
    <3>1. /\ tx' \in Handle /\ tx'.open = tx.open /\ tx'.waiting
          /\ tx'.cx = c /\ tx'.swapping = None
      BY <1>0, <2>2, PollFacts DEF PollClosedSame
    <3>. QED
      BY <2>2, <3>1 DEF PollClosedSame, CanPoll, CanCall
  <2>3. ASSUME NEW c \in Contexts, PollClosedSwap(c) PROVE Goal
    <3>1. /\ tx' \in Handle /\ tx'.open = tx.open /\ ~tx'.waiting /\ tx'.swapping = c
      BY <1>0, <2>3, PollFacts DEF PollClosedSwap
    <3>. QED
      BY <2>3, <3>1 DEF PollClosedSwap, CanPoll, CanCall
  <2>. HIDE DEF Goal
  <2>. QED
    BY <1>4, <2>1, <2>2, <2>3 DEF PollClosed
<1>5. CASE EndClosedSwap
  <2>0. tx.swapping \in Contexts /\ tx.open
    BY <1>0, <1>5 DEF EndClosedSwap, Handle
  <2>1. /\ tx' \in Handle /\ tx'.open = tx.open /\ tx'.swapping = None
        /\ tx'.waiting => (~closed /\ tx'.cx = tx.swapping)
    <3>1. tx' = IF closed THEN Idle(tx) ELSE Pending(tx, tx.swapping)
      BY <1>5 DEF EndClosedSwap
    <3>2. CASE closed
      BY <1>0, <3>1, <3>2, IdleFacts
    <3>3. CASE ~closed
      BY <1>0, <2>0, <3>1, <3>3, PollFacts
    <3>. QED
      BY <3>2, <3>3
  <2>. QED
    BY <1>5, <2>0, <2>1 DEF EndClosedSwap
<1>6. CASE CloseReceiver
  <2>1. /\ rx' \in Handle /\ rx'.open = rx.open /\ ~rx'.waiting /\ rx'.swapping = None
    BY <1>0, <1>6, IdleFacts DEF CloseReceiver, Close
  <2>2. /\ tx' \in Handle /\ tx'.open = tx.open /\ tx'.waiting = tx.waiting
        /\ tx'.cx = tx.cx /\ tx'.swapping = tx.swapping
        /\ tx.waiting => tx'.notified
    BY <1>0, <1>6, NotifyFacts DEF CloseReceiver, Close
  <2>3. /\ rx.open /\ closed' = TRUE
        /\ UNCHANGED <<complete, rxSet, txSet, value, rxTask, txTask, sent, received>>
    BY <1>6 DEF CloseReceiver, Close, CanCall
  <2>4. IndInv'
    BY <2>1, <2>2, <2>3
  <2>5. Promise!Close
    BY <2>3 DEF Promise!Close
  <2>. QED
    BY <2>4, <2>5 DEF Promise!Next
<1>7. CASE DropReceiver
  <2>1. /\ rx' \in Handle /\ ~rx'.open /\ ~rx'.waiting /\ rx'.swapping = None
    BY <1>0, <1>7, IdleFacts DEF DropReceiver, Close
  <2>2. /\ tx' \in Handle /\ tx'.open = tx.open /\ tx'.waiting = tx.waiting
        /\ tx'.cx = tx.cx /\ tx'.swapping = tx.swapping
        /\ tx.waiting => tx'.notified
    BY <1>0, <1>7, NotifyFacts DEF DropReceiver, Close
  <2>3. /\ rx.open /\ closed' = TRUE
        /\ UNCHANGED <<complete, rxSet, txSet, sent, received>>
        /\ tx.open => value' = value /\ rxTask' = rxTask /\ txTask' = txTask
        /\ ~tx.open => /\ rxTask' = IF rxSet THEN None ELSE rxTask
                       /\ txTask' = IF txSet THEN None ELSE txTask
                       /\ value' = FALSE
    BY <1>7 DEF DropReceiver, Close, CanCall, Release
  <2>4. IndInv'
    <3>1. TypeOK' /\ NoLostWakeup'
      BY <2>1, <2>2, <2>3
    <3>2. Registered'
      BY <2>1, <2>2, <2>3
    <3>3. ValueKept'
      BY <2>1, <2>2, <2>3
    <3>. QED
      BY <3>1, <3>2, <3>3
  <2>5. Promise!Close
    BY <2>3 DEF Promise!Close
  <2>. QED
    BY <2>4, <2>5 DEF Promise!Next
<1>8. CASE TryRecvValue
  <2>1. /\ complete /\ rx.open /\ rx.swapping = None
        /\ TakeValue(rxSet, rxTask)
        /\ UNCHANGED <<complete, closed, rxSet, txSet, tx, sent>>
    BY <1>8 DEF TryRecvValue, CanCall
  <2>. HIDE DEF IndInv
  <2>. QED
    BY <2>1, TakeLemma
<1>9. CASE TryRecvClosed
  <2>1. /\ rx' \in Handle /\ ~rx'.open /\ ~rx'.waiting /\ rx'.swapping = None
    BY <1>0, <1>9, IdleFacts DEF TryRecvClosed
  <2>2. /\ rx.open /\ (IF complete THEN ~value ELSE closed)
        /\ received' = "error"
        /\ UNCHANGED <<complete, closed, rxSet, txSet, tx, sent>>
        /\ tx.open => value' = value /\ rxTask' = rxTask /\ txTask' = txTask
        /\ ~tx.open => /\ rxTask' = IF rxSet THEN None ELSE rxTask
                       /\ txTask' = IF txSet THEN None ELSE txTask
                       /\ value' = FALSE
    BY <1>9 DEF TryRecvClosed, CanCall, Release
  <2>3. sent # "ok" /\ received # "value" /\ (closed \/ complete)
    BY <2>2
  <2>4. TypeOK' /\ NoLostWakeup'
    BY <2>1, <2>2
  <2>5. Registered'
    BY <2>1, <2>2
  <2>6. ValueKept'
    BY <2>1, <2>2, <2>3
  <2>7. Promise!Fail \/ UNCHANGED <<sent, received, closed>>
    BY <2>2, <2>3 DEF Promise!Fail
  <2>. QED
    BY <2>4, <2>5, <2>6, <2>7 DEF Promise!Next
<1>10. CASE TryRecvEmpty
  BY <1>0, <1>10, IdleFacts, NotifyFacts DEF TryRecvEmpty, CanCall
<1>11. CASE PollRecv
  <2>1. CASE PollRecvValue
    BY <2>1, TakeLemma DEF PollRecvValue, CanPoll, CanCall
  <2>2. CASE PollRecvError
    BY <1>0, <2>2, IdleFacts, NotifyFacts
       DEF PollRecvError, CanPoll, CanCall, Promise!Next, Promise!Fail
  <2>3. ASSUME NEW c \in Contexts, PollRecvSame(c) PROVE Goal
    <3>1. /\ rx' \in Handle /\ rx'.open = rx.open /\ rx'.waiting
          /\ rx'.cx = c /\ rx'.swapping = None
      BY <1>0, <2>3, PollFacts DEF PollRecvSame
    <3>. QED
      BY <2>3, <3>1 DEF PollRecvSame, CanPoll, CanCall
  <2>4. ASSUME NEW c \in Contexts, PollRecvSwap(c) PROVE Goal
    <3>1. /\ rx' \in Handle /\ rx'.open = rx.open /\ ~rx'.waiting /\ rx'.swapping = c
      BY <1>0, <2>4, PollFacts DEF PollRecvSwap
    <3>2. /\ rx.open /\ ~complete /\ ~closed /\ received = "none" /\ rxSet' = FALSE
          /\ rxTask' = None
          /\ UNCHANGED <<complete, closed, txSet, value, txTask, tx, sent, received>>
      BY <2>4 DEF PollRecvSwap, CanPoll, CanCall
    <3>. QED
      BY <3>1, <3>2
  <2>. HIDE DEF Goal
  <2>. QED
    BY <1>11, <2>1, <2>2, <2>3, <2>4 DEF PollRecv
<1>12. CASE EndRecvSwap
  <2>0. /\ rx.swapping \in Contexts /\ rx.open /\ ~closed /\ received = "none"
        /\ rxSet' = TRUE
        /\ UNCHANGED <<complete, closed, txSet, tx, sent>>
    BY <1>0, <1>12 DEF EndRecvSwap, Handle
  <2>1. CASE complete /\ value
    <3>1. /\ rx' \in Handle /\ ~rx'.open /\ ~rx'.waiting /\ rx'.swapping = None
      BY <1>0, <1>12, <2>1, IdleFacts DEF EndRecvSwap, TakeValue
    <3>2. /\ received' = "value"
          /\ tx.open = FALSE
          /\ rxTask' = None
          /\ txTask' = IF txSet THEN None ELSE txTask
          /\ value' = FALSE
      BY <1>12, <2>1 DEF EndRecvSwap, TakeValue, Release
    <3>3. IndInv'
      BY <2>0, <2>1, <3>1, <3>2
    <3>4. Promise!Receive
      BY <2>0, <2>1, <3>2 DEF Promise!Receive
    <3>. QED
      BY <3>3, <3>4 DEF Promise!Next
  <2>2. CASE complete /\ ~value
    <3>1. /\ rx' \in Handle /\ rx'.open /\ ~rx'.waiting /\ rx'.swapping = None
      <4>1. rx' = Idle(rx)
        BY <1>12, <2>2 DEF EndRecvSwap, TakeValue
      <4>. QED
        BY <1>0, <2>0, <4>1, IdleFacts
    <3>2. /\ received' = "error"
          /\ rxTask' = rx.swapping
          /\ UNCHANGED <<value, txTask>>
      BY <1>12, <2>2 DEF EndRecvSwap, TakeValue
    <3>3. IndInv'
      BY <2>0, <2>2, <3>1, <3>2
    <3>4. Promise!Fail
      BY <2>0, <2>2, <3>2 DEF Promise!Fail
    <3>. QED
      BY <3>3, <3>4 DEF Promise!Next
  <2>3. CASE ~complete
    <3>1. /\ rx' \in Handle /\ rx'.open /\ rx'.waiting /\ rx'.cx = rx.swapping
          /\ rx'.swapping = None
      <4>1. rx' = Pending(rx, rx.swapping)
        BY <1>12, <2>3 DEF EndRecvSwap
      <4>. QED
        BY <1>0, <2>0, <4>1, PollFacts
    <3>2. /\ rxTask' = rx.swapping
          /\ UNCHANGED <<value, txTask, received>>
      BY <1>12, <2>3 DEF EndRecvSwap
    <3>. QED
      BY <2>0, <2>3, <3>1, <3>2
  <2>. QED
    BY <2>1, <2>2, <2>3
<1>13. CASE UNCHANGED vars
  BY <1>13 DEF vars
<1>. HIDE DEF Goal
<1>. QED
  BY <1>1, <1>2, <1>3, <1>4, <1>5, <1>6, <1>7, <1>8, <1>9, <1>10, <1>11, <1>12,
     <1>13 DEF Next

\* The invariant of the channel: its bits, cells, handles and history agree.
THEOREM Invariance == Spec => []IndInv
<1>1. IndInv /\ [Next]_vars => IndInv'
  BY Step
<1>. QED
  BY <1>1, InitInv, PTL DEF Spec

\* A waker cell is initialised exactly if its bit is set, and is emptied in the
\* end: no use before the write, no double drop, no leak.
THEOREM CellsMatchBits == Spec => []TypeOK
<1>1. IndInv => TypeOK
  BY DEF IndInv
<1>. QED
  BY <1>1, Invariance, PTL

\* Neither end sleeps through what it waits for.
THEOREM WakeupsAreNotLost == Spec => []NoLostWakeup
<1>1. IndInv => NoLostWakeup
  BY DEF IndInv
<1>. QED
  BY <1>1, Invariance, PTL

\* The channel keeps its promise.
THEOREM KeepsPromise == Spec => PromiseSpec
<1>1. IndInv /\ [Next]_vars => [Promise!Next]_<<sent, received, closed>>
  BY Step
<1>. QED
  BY <1>1, InitInv, Invariance, PTL DEF Spec, PromiseSpec, Promise!Spec
=============================================================================
