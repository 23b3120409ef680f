------------------------- MODULE BoundedChannelProofs ------------------------
(***************************************************************************)
(* The wakeups of the receiver of BoundedChannel, the account of its       *)
(* places, its use of the semaphore and the queue it promises, for any     *)
(* number of senders and values and any size of the buffer.                *)
(*                                                                         *)
(* The account is that of the semaphore: SemaphoreInnerProofs shows that   *)
(* what it holds and what its futures are assigned make up `balance`, and  *)
(* here `balance` is shown to be what the queue leaves free of the buffer. *)
(***************************************************************************)
EXTENDS BoundedChannel, TLAPS

\* What a channel knows of the task that awaits a value: only one that holds the
\* receiver waits, and its waker is that of its last poll unless it was woken.
RxSound ==
    /\ rx \in C!Receiver
    /\ rx.phase # "alive" => ~rx.waiting
    /\ rx.waiting => rx.waker = rx.cx \/ rx.notified

IndInv == RxSound /\ NoLostWakeup

LEMMA WokenSound ==
    ASSUME RxSound
    PROVE  /\ C!Woken(rx) \in C!Receiver
           /\ C!Woken(rx).phase = rx.phase
           /\ C!Woken(rx).waiting = rx.waiting
           /\ C!Woken(rx).waiting => C!Woken(rx).notified
  BY DEF RxSound, C!Woken, C!Receiver

LEMMA IdleSound ==
    ASSUME RxSound
    PROVE  /\ C!Idle(rx) \in C!Receiver
           /\ C!Idle(rx).phase = rx.phase
           /\ ~C!Idle(rx).waiting
  BY DEF RxSound, C!Idle, C!Receiver

\* The receiver sleeps no more, or has been woken: nothing can be lost on it.
LEMMA AwakeSound ==
    ASSUME rx' \in C!Receiver,
           rx'.phase # "alive" => ~rx'.waiting,
           rx'.waiting => rx'.notified
    PROVE  IndInv'
  BY DEF IndInv, RxSound, NoLostWakeup, C!NoLostWakeup

LEMMA IdleStep ==
    ASSUME RxSound, rx' = C!Idle(rx) PROVE IndInv'
  BY IdleSound, AwakeSound

LEMMA WokenStep ==
    ASSUME RxSound, rx' = C!Woken(rx) PROVE IndInv'
<1>1. RxSound /\ rx' \in C!Receiver /\ rx'.phase = rx.phase
      /\ rx'.waiting = rx.waiting /\ (rx'.waiting => rx'.notified)
  BY WokenSound
<1>. QED
  BY <1>1, AwakeSound DEF RxSound

\* The receiver and the reasons to wake it are left alone.
LEMMA QuietStep ==
    ASSUME IndInv, rx' = rx,
           Len(queue)' > 0 => Len(queue) > 0, txs' = {} => txs = {}
    PROVE  IndInv'
  BY DEF IndInv, RxSound, NoLostWakeup, C!NoLostWakeup

LEMMA PendingSound ==
    ASSUME RxSound, NEW c \in Contexts, C!RecvPending(c), queue' = queue
    PROVE  IndInv'
<1>1. rx' \in C!Receiver /\ rx'.phase = "alive" /\ rx'.waker = rx'.cx
  BY DEF RxSound, C!RecvPending, C!Receiver
<1>2. ~(Len(queue) > 0) /\ txs # {} /\ txs' = txs
  BY DEF C!RecvPending
<1>. QED
  BY <1>1, <1>2 DEF IndInv, RxSound, NoLostWakeup, C!NoLostWakeup

LEMMA DropTxSound ==
    ASSUME IndInv, NEW t \in Txs, C!DropTx(t), queue' = queue
    PROVE  IndInv'
<1>1. RxSound
  BY DEF IndInv
<1>2. CASE txs = {t}
  BY <1>1, <1>2, WokenStep DEF C!DropTx
<1>3. CASE txs # {t}
  BY <1>3, QuietStep DEF C!DropTx
<1>. QED
  BY <1>2, <1>3

LEMMA DropRxSound ==
    ASSUME RxSound, C!DropRx PROVE IndInv'
<1>1. rx' = [C!Idle(rx) EXCEPT !.phase = "dropping"]
  BY DEF C!DropRx
<1>2. rx' \in C!Receiver /\ ~rx'.waiting
  BY <1>1, IdleSound DEF C!Receiver
<1>. QED
  BY <1>2, AwakeSound

LEMMA EndDropRxSound ==
    ASSUME RxSound, C!EndDropRx PROVE IndInv'
<1>1. rx' \in C!Receiver /\ ~rx'.waiting
  BY DEF RxSound, C!EndDropRx, C!Receiver
<1>. QED
  BY <1>1, AwakeSound

LEMMA InitSound == Init => IndInv
<1>. SUFFICES ASSUME Init PROVE IndInv
  OBVIOUS
<1>1. rx \in C!Receiver /\ ~rx.waiting
  BY DEF Init, C!Init, C!Receiver
<1>. QED
  BY <1>1 DEF IndInv, RxSound, NoLostWakeup, C!NoLostWakeup

LEMMA StepSound == IndInv /\ [Next]_vars => IndInv'
<1>. SUFFICES ASSUME IndInv, [Next]_vars PROVE IndInv'
  OBVIOUS
<1>0. RxSound
  BY DEF IndInv
<1>q. ASSUME UNCHANGED chanVars PROVE IndInv'
  <2>1. rx' = rx /\ txs' = txs /\ queue' = queue
    BY <1>q DEF chanVars
  <2>. QED
    BY <2>1, QuietStep
<1>1. ASSUME NEW t \in Txs, Send(t) PROVE IndInv'
  BY <1>1, <1>q DEF Send
<1>2. ASSUME NEW t \in Txs, PollSend(t) PROVE IndInv'
  <2>1. ASSUME NEW v \in Values, PollSendReady(t, v) PROVE IndInv'
    BY <1>0, <2>1, WokenStep DEF PollSendReady, C!Send
  <2>2. CASE PollSendWait(t) \/ PollSendError(t)
    BY <1>q, <2>2 DEF PollSendWait, PollSendError
  <2>. QED
    BY <1>2, <2>1, <2>2 DEF PollSend
<1>3. ASSUME NEW t \in Txs, DropSend(t) PROVE IndInv'
  BY <1>3, <1>q DEF DropSend
<1>4. ASSUME NEW t \in Txs, NEW u \in Txs, CloneTx(t, u) PROVE IndInv'
  <2>1. rx' = rx /\ queue' = queue /\ txs' # {}
    BY <1>4 DEF CloneTx, C!CloneTx
  <2>. QED
    BY <2>1, QuietStep
<1>5. ASSUME NEW t \in Txs, DropTx(t) PROVE IndInv'
  BY <1>5, DropTxSound DEF DropTx
<1>6. CASE PollRecv
  <2>1. CASE Recv \/ RecvNone
    BY <1>0, <2>1, IdleStep DEF Recv, RecvNone, C!Pop, C!RecvNone
  <2>2. CASE RecvPending
    <3>1. PICK c \in Contexts : C!RecvPending(c)
      BY <2>2 DEF RecvPending
    <3>2. queue' = queue
      BY <2>2 DEF RecvPending
    <3>. QED
      BY <1>0, <3>1, <3>2, PendingSound
  <2>. QED
    BY <1>6, <2>1, <2>2 DEF PollRecv
<1>7. CASE CancelRecv \/ CloseRx
  BY <1>0, <1>7, IdleStep DEF CancelRecv, CloseRx, C!CancelRecv, C!CloseRx
<1>8. CASE DropRx
  BY <1>0, <1>8, DropRxSound DEF DropRx
<1>9. CASE DrainRx
  BY <1>0, <1>9, EndDropRxSound DEF DrainRx
<1>10. CASE UNCHANGED vars
  BY <1>10, <1>q DEF vars
<1>. QED
  BY <1>1, <1>2, <1>3, <1>4, <1>5, <1>6, <1>7, <1>8, <1>9, <1>10 DEF Next

\* A receiver that waits does not sleep through a value or the end of the
\* channel, whoever polls it, cancels it, or drops the senders.
THEOREM WakeupsAreNotLost == Spec => []NoLostWakeup
<1>1. IndInv => NoLostWakeup
  BY DEF IndInv
<1>. QED
  BY <1>1, InitSound, StepSound, PTL DEF Spec
-----------------------------------------------------------------------------
(***************************************************************************)
(* The low level semaphore, with what is proved of it.  The definitions of *)
(* P and of Inner are the same.                                            *)
(***************************************************************************)
P == INSTANCE SemaphoreInnerProofs WITH
    Futures <- Txs, Amounts <- 0..Buffer \cup {1}, InitialPermits <- Buffer,
    MaxBalance <- 2 * Buffer

LEMMA InnerAssumption == P!SemaphoreAssumption
<1>1. \A S : P!IsFiniteSet(S) <=> IsFiniteSet(S)
  BY DEF P!IsFiniteSet, IsFiniteSet
<1>. QED
  BY <1>1, BoundedChannelAssumption DEF P!SemaphoreAssumption

LEMMA SameAddPermits ==
    ASSUME NEW rem, NEW avail, NEW q, NEW a
    PROVE  P!AddPermits(rem, avail, q, a) <=> Inner!AddPermits(rem, avail, q, a)
  BY DEF P!AddPermits, Inner!AddPermits, P!Served, Inner!Served, P!Woken, Inner!Woken

LEMMA SameNext ==
    /\ Inner!Init => P!Init
    /\ [Inner!Next]_(Inner!vars) => [P!Next]_(P!vars)
<1>. USE DEF P!NoFuture, Inner!NoFuture
<1>1. ASSUME NEW f, NEW n PROVE P!Acquire(f, n) <=> Inner!Acquire(f, n)
  BY DEF P!Acquire, Inner!Acquire, P!NewFuture, Inner!NewFuture
<1>2. ASSUME NEW f PROVE P!PollClosed(f) <=> Inner!PollClosed(f)
  BY DEF P!PollClosed, Inner!PollClosed
<1>3. ASSUME NEW f PROVE P!PollFast(f) <=> Inner!PollFast(f)
  BY DEF P!PollFast, Inner!PollFast
<1>4. ASSUME NEW f PROVE P!PollAssigned(f) <=> Inner!PollAssigned(f)
  BY SameAddPermits DEF P!PollAssigned, Inner!PollAssigned
<1>5. ASSUME NEW f, NEW c PROVE P!PollPending(f, c) <=> Inner!PollPending(f, c)
  BY DEF P!PollPending, Inner!PollPending
<1>6. ASSUME NEW f PROVE P!DropAcquire(f) <=> Inner!DropAcquire(f)
  BY SameAddPermits DEF P!DropAcquire, Inner!DropAcquire, P!Without, Inner!Without,
                        P!Range, Inner!Range
<1>7. ASSUME NEW n PROVE P!TryAcquire(n) <=> Inner!TryAcquire(n)
  BY DEF P!TryAcquire, Inner!TryAcquire
<1>8. ASSUME NEW n PROVE P!Release(n) <=> Inner!Release(n)
  BY SameAddPermits DEF P!Release, Inner!Release
<1>9. P!Close <=> Inner!Close
  BY DEF P!Close, Inner!Close, P!Range, Inner!Range, P!Woken, Inner!Woken
<1>10. P!Init <=> Inner!Init
  BY DEF P!Init, Inner!Init
<1>. HIDE DEF P!NoFuture, Inner!NoFuture
<1>11. ASSUME NEW f PROVE P!Poll(f) <=> Inner!Poll(f)
  BY <1>2, <1>3, <1>4, <1>5 DEF P!Poll, Inner!Poll
<1>12. Inner!Next => P!Next
  BY <1>1, <1>6, <1>7, <1>8, <1>9, <1>11 DEF P!Next, Inner!Next
<1>. QED
  BY <1>10, <1>12 DEF P!vars, Inner!vars

LEMMA InnerStep ==
    ASSUME P!FairInv, P!Tally, [Inner!Next]_(Inner!vars)
    PROVE  P!FairInv' /\ P!Tally'
<1>1. [P!Next]_(P!vars)
  BY SameNext
<1>2. P!FairInv'
  BY <1>1, InnerAssumption, P!FairInductive
<1>3. CASE P!Next
  BY <1>2, <1>3, InnerAssumption, P!TallyStep
<1>4. CASE UNCHANGED P!vars
  BY <1>2, <1>4 DEF P!vars, P!Tally
<1>. QED
  BY <1>1, <1>3, <1>4

LEMMA InnerFacts ==
    ASSUME P!FairInv, P!Tally
    PROVE  /\ permits \in Nat
           /\ closed \in BOOLEAN
           /\ balance \in Int
           /\ acq \in [Txs -> P!Future]
           /\ P!Assigned(acq) \in Nat
           /\ permits + P!Assigned(acq) = balance
  BY InnerAssumption, P!FairFacts, P!TallyFacts

(***************************************************************************)
(* Where the places of the buffer are: the balance of the semaphore is what*)
(* the queue leaves free, and each send asks for one place.                *)
(***************************************************************************)
Account ==
    /\ P!FairInv
    /\ P!Tally
    /\ queue \in Seq(Values)
    /\ balance = Buffer - Len(queue)
    /\ txs \subseteq Txs
    /\ \A t \in Txs : acq[t].phase # "none" => acq[t].num = 1 /\ t \in txs
    /\ rx.phase # "alive" => closed

AccountFacts ==
    /\ permits \in Nat
    /\ closed \in BOOLEAN
    /\ acq \in [Txs -> P!Future]
    /\ queue \in Seq(Values)
    /\ Len(queue) \in 0..Buffer
    /\ balance = Buffer - Len(queue)
    /\ balance \in Int
    /\ Buffer \in Nat
    /\ txs \subseteq Txs

LEMMA AccountHolds == ASSUME Account PROVE AccountFacts
<1>1. /\ permits \in Nat
      /\ closed \in BOOLEAN
      /\ balance \in Int
      /\ acq \in [Txs -> P!Future]
  BY InnerFacts DEF Account
<1>. DEFINE x == P!Assigned(acq)
            n == Len(queue)
<1>2. x \in Nat /\ permits + x = balance
  BY InnerFacts DEF Account
<1>3. n \in Nat /\ balance = Buffer - n /\ Buffer \in Nat
  BY BoundedChannelAssumption DEF Account
<1>. HIDE DEF x, n
<1>4. n \in 0..Buffer
  BY <1>1, <1>2, <1>3
<1>. QED
  BY <1>1, <1>3, <1>4 DEF Account, AccountFacts, n

\* No send begins, and none that goes on is for another count.
Kept ==
    \A t \in Txs : acq'[t].phase # "none" =>
                      acq[t].phase # "none" /\ acq'[t].num = acq[t].num

LEMMA NoFutureType == P!NoFuture \in P!Future /\ P!NoFuture.phase = "none"
  BY DEF P!NoFuture, P!Future

LEMMA SameNoFuture == P!NoFuture = Inner!NoFuture
  BY DEF P!NoFuture, Inner!NoFuture

\* Dropping a future keeps the others, with the release that may follow.
LEMMA DropKeeps ==
    ASSUME Account, NEW f \in Txs, NEW rem, NEW avail, NEW q,
           Inner!AddPermits(rem, avail, q, [acq EXCEPT ![f] = Inner!NoFuture])
    PROVE  Kept
<1>. DEFINE a == [acq EXCEPT ![f] = P!NoFuture]
<1>1. /\ a \in [Txs -> P!Future]
      /\ a[f].phase = "none"
      /\ \A t \in Txs : t # f => a[t] = acq[t]
  BY AccountHolds, NoFutureType DEF AccountFacts
<1>2. P!AddPermits(rem, avail, q, a)
  BY SameAddPermits, SameNoFuture
<1>. HIDE DEF a
<1>3. \A t \in Txs : acq'[t].phase = a[t].phase /\ acq'[t].num = a[t].num
  BY <1>1, <1>2, InnerAssumption, P!ReleaseKeeps
<1>. QED
  BY <1>1, <1>3 DEF Kept

LEMMA ReadyEffect ==
    ASSUME Account, NEW f \in Txs, Inner!PollFast(f) \/ Inner!PollAssigned(f)
    PROVE  /\ Kept
           /\ acq[f].phase = "live"
           /\ closed = FALSE /\ closed' = FALSE
           /\ balance' = balance - 1
<1>0. AccountFacts
  BY AccountHolds
<1>1. /\ acq[f].phase = "live"
      /\ closed = FALSE /\ closed' = FALSE
      /\ balance' = balance - acq[f].num
  BY <1>0 DEF AccountFacts, Inner!PollFast, Inner!PollAssigned
<1>2. acq[f].num = 1
  BY <1>1 DEF Account
<1>3. CASE Inner!PollFast(f)
  <2>1. acq' = [acq EXCEPT ![f] = P!NoFuture]
    BY <1>3, SameNoFuture DEF Inner!PollFast
  <2>2. \A t \in Txs : acq'[t] = IF t = f THEN P!NoFuture ELSE acq[t]
    BY <1>0, <2>1 DEF AccountFacts
  <2>3. Kept
    BY <2>2, NoFutureType DEF Kept
  <2>. QED
    BY <1>1, <1>2, <2>3
<1>4. CASE Inner!PollAssigned(f)
  <2>1. Kept
    BY <1>4, DropKeeps DEF Inner!PollAssigned
  <2>. QED
    BY <1>1, <1>2, <2>1
<1>. QED
  BY <1>3, <1>4

LEMMA WaitEffect ==
    ASSUME Account, NEW f \in Txs,
           \/ \E c \in Contexts : Inner!PollPending(f, c)
           \/ Inner!PollClosed(f)
           \/ Inner!DropAcquire(f)
    PROVE  Kept /\ closed' = closed /\ balance' = balance
<1>0. AccountFacts
  BY AccountHolds
<1>1. ASSUME NEW c \in Contexts, Inner!PollPending(f, c)
      PROVE  Kept /\ closed' = closed /\ balance' = balance
  <2>1. closed' = closed /\ balance' = balance /\ acq[f].phase = "live"
    BY <1>0, <1>1 DEF AccountFacts, Inner!PollPending
  <2>2. /\ acq'[f].num = acq[f].num
        /\ \A t \in Txs : t # f => acq'[t] = acq[t]
    <3>1. acq[f] \in P!Future
      BY <1>0 DEF AccountFacts
    <3>. QED
      BY <1>0, <1>1, <3>1 DEF AccountFacts, Inner!PollPending, P!Future
  <2>. QED
    BY <2>1, <2>2 DEF Kept
<1>2. CASE Inner!PollClosed(f)
  <2>1. closed' = closed /\ balance' = balance /\ acq[f].phase = "live"
    BY <1>2 DEF Inner!PollClosed
  <2>2. /\ acq'[f].num = acq[f].num
        /\ \A t \in Txs : t # f => acq'[t] = acq[t]
    <3>1. acq[f] \in P!Future
      BY <1>0 DEF AccountFacts
    <3>. QED
      BY <1>0, <1>2, <3>1 DEF AccountFacts, Inner!PollClosed, P!Future
  <2>. QED
    BY <2>1, <2>2 DEF Kept
<1>3. CASE Inner!DropAcquire(f)
  <2>1. closed' = closed /\ balance' = balance
    BY <1>3 DEF Inner!DropAcquire
  <2>2. CASE acq[f].queued
    BY <1>3, <2>1, <2>2, DropKeeps DEF Inner!DropAcquire
  <2>3. CASE ~acq[f].queued
    <3>1. acq' = [acq EXCEPT ![f] = P!NoFuture]
      BY <1>3, <2>3, SameNoFuture DEF Inner!DropAcquire
    <3>2. \A t \in Txs : acq'[t] = IF t = f THEN P!NoFuture ELSE acq[t]
      BY <1>0, <3>1 DEF AccountFacts
    <3>. QED
      BY <2>1, <3>2, NoFutureType DEF Kept
  <2>. QED
    BY <2>2, <2>3
<1>. QED
  BY <1>1, <1>2, <1>3

LEMMA ReleaseEffect ==
    ASSUME Account, NEW n, Inner!Release(n)
    PROVE  Kept /\ closed' = closed /\ balance' = balance + n
<1>1. acq \in [Txs -> P!Future]
  BY AccountHolds DEF AccountFacts
<1>2. /\ P!AddPermits(n, permits, waiters, acq)
      /\ closed' = closed
      /\ balance' = balance + n
  BY SameAddPermits DEF Inner!Release
<1>3. \A t \in Txs : acq'[t].phase = acq[t].phase /\ acq'[t].num = acq[t].num
  BY <1>1, <1>2, InnerAssumption, P!ReleaseKeeps
<1>. QED
  BY <1>2, <1>3 DEF Kept

LEMMA CloseEffect ==
    ASSUME Account, Inner!Close
    PROVE  Kept /\ closed' = TRUE /\ balance' = balance
<1>1. acq \in [Txs -> P!Future]
  BY AccountHolds DEF AccountFacts
<1>2. Kept
  <2>. SUFFICES ASSUME NEW t \in Txs
                PROVE  acq'[t].phase = acq[t].phase /\ acq'[t].num = acq[t].num
    BY DEF Kept
  <2>1. acq[t] \in P!Future
    BY <1>1
  <2>2. acq'[t] = Inner!Woken(acq[t]) \/ acq'[t] = acq[t]
    BY DEF Inner!Close
  <2>. QED
    BY <2>1, <2>2 DEF Inner!Woken, P!Future
<1>. QED
  BY <1>2 DEF Inner!Close

LEMMA NextFacts == Account' => AccountFacts'
<1>1. Account => AccountFacts
  BY AccountHolds
<1>. QED
  BY <1>1, PTL

LEMMA InitAccount == Init => Account /\ Inner!Init /\ F!Init
<1>. SUFFICES ASSUME Init PROVE Account /\ Inner!Init /\ F!Init
  OBVIOUS
<1>1. /\ Inner!Init
      /\ queue = <<>>
      /\ rx.phase = "alive"
      /\ \E t \in Txs : txs = {t}
  BY DEF Init, C!Init
<1>2. P!FairInv /\ P!Tally
  BY <1>1, SameNext, InnerAssumption, P!FairInit, P!TallyInit
<1>3. /\ closed = FALSE
      /\ balance = Buffer % (MaxPermits + 1)
      /\ acq = [f \in Txs |-> P!NoFuture]
  BY <1>1, SameNoFuture DEF Inner!Init
<1>4. balance = Buffer
  BY <1>3, BoundedChannelAssumption
<1>5. queue \in Seq(Values) /\ Len(queue) = 0
  BY <1>1
<1>6. Account
  BY <1>1, <1>2, <1>3, <1>4, <1>5, NoFutureType, BoundedChannelAssumption DEF Account
<1>. QED
  BY <1>1, <1>3, <1>6 DEF F!Init

\* The account goes on through a step that begins no send.
LEMMA AccountStep ==
    ASSUME Account, [Inner!Next]_(Inner!vars), Kept,
           queue' \in Seq(Values),
           balance' = Buffer - Len(queue'),
           txs' \subseteq Txs,
           \A t \in Txs : acq'[t].phase # "none" => t \in txs',
           rx'.phase # "alive" => closed'
    PROVE  Account'
<1>1. P!FairInv' /\ P!Tally'
  BY InnerStep DEF Account
<1>2. \A t \in Txs : acq'[t].phase # "none" => acq'[t].num = 1
  BY DEF Account, Kept
<1>. QED
  BY <1>1, <1>2 DEF Account

\* The channel is closed, or a side is gone.
Over == closed \/ rx.phase # "alive" \/ txs = {}

FifoStep == [F!Next]_<<queue, Over>>

LEMMA FifoQuiet == ASSUME queue' = queue, Over => Over' PROVE FifoStep
<1>1. CASE Over'
  <2>1. F!Close
    BY <1>1 DEF F!Close, Over
  <2>. QED
    BY <2>1 DEF F!Next, FifoStep
<1>2. CASE ~Over'
  <2>1. Over' = Over
    BY <1>2 DEF Over
  <2>. QED
    BY <2>1 DEF FifoStep
<1>. QED
  BY <1>1, <1>2

Effect ==
    /\ Account'
    /\ [Inner!Next]_(Inner!vars)
    /\ FifoStep

\* A step that leaves the queue alone, and the senders and the receiver at
\* least as far gone as they are.
LEMMA QuietEffect ==
    ASSUME Account, [Inner!Next]_(Inner!vars), Kept,
           queue' = queue, balance' = balance,
           txs' \subseteq Txs,
           \A t \in Txs : acq'[t].phase # "none" => t \in txs',
           closed => closed',
           txs = {} => txs' = {},
           rx.phase # "alive" => rx'.phase # "alive",
           rx'.phase # "alive" => closed'
    PROVE  Effect
<1>1. Account'
  BY AccountStep, AccountHolds DEF AccountFacts
<1>2. Over => Over'
  BY DEF Over
<1>. QED
  BY <1>1, <1>2, FifoQuiet DEF Effect

\* A step of the semaphore that takes and gives nothing, with a queue and two
\* sides that stay as they are.
LEMMA InnerEffect ==
    ASSUME Account, Inner!Next, Kept, UNCHANGED chanVars,
           closed' = closed, balance' = balance
    PROVE  Effect
<1>1. queue' = queue /\ txs' = txs /\ rx' = rx
  BY DEF chanVars
<1>2. \A t \in Txs : acq'[t].phase # "none" => t \in txs'
  BY <1>1 DEF Account, Kept
<1>. QED
  BY <1>1, <1>2, QuietEffect DEF Account

\* A step of the senders or the receiver alone, in which no sender goes that
\* has a send under way.
LEMMA SidesEffect ==
    ASSUME Account, UNCHANGED <<innerVars, queue>>,
           txs' \subseteq Txs,
           \A t \in txs : t \in txs' \/ acq[t].phase = "none",
           txs = {} => txs' = {},
           rx'.phase = rx.phase
    PROVE  Effect
<1>1. /\ acq' = acq /\ closed' = closed /\ balance' = balance /\ queue' = queue
      /\ UNCHANGED Inner!vars
  BY DEF innerVars, Inner!vars
<1>2. Kept
  BY <1>1 DEF Kept
<1>3. \A t \in Txs : acq'[t].phase # "none" => t \in txs'
  BY <1>1 DEF Account
<1>. QED
  BY <1>1, <1>2, <1>3, QuietEffect DEF Account

LEMMA SendEffect ==
    ASSUME Account, NEW t \in Txs, Send(t) PROVE Effect
<1>0. AccountFacts
  BY AccountHolds
<1>1. /\ t \in txs
      /\ Inner!Acquire(t, 1)
      /\ queue' = queue /\ txs' = txs /\ rx' = rx
  BY DEF Send, chanVars
<1>2. /\ closed' = closed /\ balance' = balance
      /\ acq' = [acq EXCEPT ![t] = Inner!NewFuture(1)]
  BY <1>1 DEF Inner!Acquire
<1>3. Inner!NewFuture(1).num = 1
  BY DEF Inner!NewFuture
<1>4. \A u \in Txs : acq'[u].phase # "none" => acq'[u].num = 1 /\ u \in txs'
  BY <1>0, <1>1, <1>2, <1>3 DEF Account, AccountFacts
<1>5. Inner!Next
  <2>1. 1 \in 0..Buffer \cup {1}
    OBVIOUS
  <2>. QED
    BY <1>1, <2>1 DEF Inner!Next
<1>6. Account'
  BY <1>1, <1>2, <1>4, <1>5, InnerStep DEF Account
<1>7. FifoStep
  BY <1>1, <1>2, FifoQuiet DEF Over
<1>. QED
  BY <1>5, <1>6, <1>7 DEF Effect

LEMMA PollSendReadyEffect ==
    ASSUME Account, NEW t \in Txs, NEW v \in Values, PollSendReady(t, v)
    PROVE  Effect
<1>0. AccountFacts
  BY AccountHolds
<1>1. /\ Kept
      /\ acq[t].phase = "live"
      /\ closed = FALSE /\ closed' = FALSE
      /\ balance' = balance - 1
  BY ReadyEffect DEF PollSendReady
<1>2. /\ queue' = Append(queue, v)
      /\ rx'.phase = rx.phase
      /\ txs' = txs
      /\ t \in txs
      /\ rx.phase = "alive"
  BY <1>1 DEF PollSendReady, C!Send, C!Woken, Account
<1>3. Inner!Next
  BY DEF PollSendReady, Inner!Next, Inner!Poll
<1>4. queue' \in Seq(Values) /\ Len(queue') = Len(queue) + 1 /\ Len(queue) \in Int
  BY <1>0, <1>2 DEF AccountFacts
<1>5. balance' = Buffer - Len(queue')
  BY <1>0, <1>1, <1>4 DEF AccountFacts
<1>6. \A u \in Txs : acq'[u].phase # "none" => u \in txs'
  BY <1>1, <1>2 DEF Account, Kept
<1>7. Account'
  BY <1>1, <1>2, <1>3, <1>4, <1>5, <1>6, AccountStep DEF AccountFacts, Account
<1>8. Len(queue) < Buffer
  <2>1. Len(queue') \in 0..Buffer
    BY <1>7, NextFacts DEF AccountFacts
  <2>. QED
    BY <1>0, <1>4, <2>1 DEF AccountFacts
<1>9. F!Send(v)
  BY <1>1, <1>2, <1>8 DEF F!Send, HasRoom
<1>10. FifoStep
  BY <1>9 DEF FifoStep, F!Next
<1>. QED
  BY <1>3, <1>7, <1>10 DEF Effect

LEMMA PollSendEffect ==
    ASSUME Account, NEW t \in Txs, PollSend(t) PROVE Effect
<1>1. ASSUME NEW v \in Values, PollSendReady(t, v) PROVE Effect
  BY <1>1, PollSendReadyEffect
<1>2. CASE PollSendWait(t) \/ PollSendError(t)
  <2>1. Kept /\ closed' = closed /\ balance' = balance /\ UNCHANGED chanVars
    BY <1>2, WaitEffect DEF PollSendWait, PollSendError
  <2>2. Inner!Next
    BY <1>2 DEF PollSendWait, PollSendError, Inner!Next, Inner!Poll
  <2>. QED
    BY <2>1, <2>2, InnerEffect
<1>. QED
  BY <1>1, <1>2 DEF PollSend

LEMMA DropSendEffect ==
    ASSUME Account, NEW t \in Txs, DropSend(t) PROVE Effect
<1>1. Kept /\ closed' = closed /\ balance' = balance /\ UNCHANGED chanVars
  BY WaitEffect DEF DropSend
<1>2. Inner!Next
  BY DEF DropSend, Inner!Next
<1>. QED
  BY <1>1, <1>2, InnerEffect

LEMMA CloneTxEffect ==
    ASSUME Account, NEW t \in Txs, NEW u \in Txs, CloneTx(t, u) PROVE Effect
<1>1. /\ UNCHANGED <<innerVars, queue>>
      /\ t \in txs
      /\ txs' = txs \cup {u}
      /\ rx' = rx
  BY DEF CloneTx, C!CloneTx
<1>. QED
  BY <1>1, SidesEffect DEF Account

LEMMA DropTxEffect ==
    ASSUME Account, NEW t \in Txs, DropTx(t) PROVE Effect
<1>1. /\ acq[t].phase = "none"
      /\ txs' = txs \ {t}
      /\ rx'.phase = rx.phase
      /\ queue' = queue
  BY DEF DropTx, C!DropTx, C!Woken
<1>2. CASE txs = {t}
  <2>1. Inner!Close
    BY <1>2 DEF DropTx
  <2>2. Kept /\ closed' = TRUE /\ balance' = balance
    BY <2>1, CloseEffect
  <2>3. Inner!Next
    BY <2>1 DEF Inner!Next
  <2>4. \A u \in Txs : acq'[u].phase # "none" => u \in txs'
    BY <1>1, <2>2 DEF Account, Kept
  <2>. QED
    BY <1>1, <1>2, <2>2, <2>3, <2>4, QuietEffect DEF Account
<1>3. CASE txs # {t}
  <2>1. UNCHANGED <<innerVars, queue>>
    BY <1>1, <1>3 DEF DropTx
  <2>. QED
    BY <1>1, <2>1, SidesEffect DEF Account
<1>. QED
  BY <1>2, <1>3

\* A value is received: it is the first of the queue, and its place is free.
LEMMA RecvEffect ==
    ASSUME Account, Recv PROVE Effect
<1>0. AccountFacts
  BY AccountHolds
<1>1. Kept /\ closed' = closed /\ balance' = balance + 1 /\ Inner!Release(1)
  BY ReleaseEffect DEF Recv
<1>2. /\ queue' = Tail(queue)
      /\ Len(queue) > 0
      /\ rx'.phase = rx.phase
      /\ txs' = txs
  BY DEF Recv, C!Pop, C!Idle
<1>3. Inner!Next
  <2>1. 1 \in 0..Buffer \cup {1}
    OBVIOUS
  <2>. QED
    BY <1>1, <2>1 DEF Inner!Next
<1>4. /\ queue # <<>>
      /\ Tail(queue) \in Seq(Values)
      /\ Len(Tail(queue)) = Len(queue) - 1
      /\ Len(queue) \in Int
  BY <1>0, <1>2 DEF AccountFacts
<1>5. balance' = Buffer - Len(queue')
  BY <1>0, <1>1, <1>2, <1>4 DEF AccountFacts
<1>6. \A t \in Txs : acq'[t].phase # "none" => t \in txs'
  BY <1>1, <1>2 DEF Account, Kept
<1>7. Account'
  BY <1>1, <1>2, <1>3, <1>4, <1>5, <1>6, AccountStep DEF Account
<1>8. Over' = Over
  BY <1>1, <1>2 DEF Over
<1>9. FifoStep
  <2>1. F!Receive
    BY <1>2, <1>4, <1>8 DEF F!Receive, Over
  <2>. QED
    BY <2>1 DEF FifoStep, F!Next
<1>. QED
  BY <1>3, <1>7, <1>9 DEF Effect

LEMMA QuietRecvEffect ==
    ASSUME Account, RxSound, RecvNone \/ RecvPending \/ CancelRecv
    PROVE  Effect
<1>1. UNCHANGED <<innerVars, queue>>
  BY DEF RecvNone, RecvPending, CancelRecv
<1>2. txs' = txs /\ rx'.phase = rx.phase
  <2>1. CASE RecvNone \/ CancelRecv
    BY <2>1, IdleSound DEF RecvNone, CancelRecv, C!RecvNone, C!CancelRecv
  <2>2. CASE RecvPending
    BY <2>2 DEF RecvPending, C!RecvPending, RxSound, C!Receiver
  <2>. QED
    BY <2>1, <2>2
<1>. QED
  BY <1>1, <1>2, SidesEffect DEF Account

LEMMA CloseRxEffect ==
    ASSUME Account, CloseRx \/ DropRx PROVE Effect
<1>1. Inner!Close /\ queue' = queue /\ txs' = txs /\ rx.phase = "alive"
  BY DEF CloseRx, DropRx, C!CloseRx, C!DropRx
<1>2. Kept /\ closed' = TRUE /\ balance' = balance
  BY <1>1, CloseEffect
<1>3. Inner!Next
  BY <1>1 DEF Inner!Next
<1>4. \A t \in Txs : acq'[t].phase # "none" => t \in txs'
  BY <1>1, <1>2 DEF Account, Kept
<1>. QED
  BY <1>1, <1>2, <1>3, <1>4, QuietEffect DEF Account

\* What is left in the queue is given up, all its places at once.
LEMMA DrainRxEffect ==
    ASSUME Account, DrainRx PROVE Effect
<1>0. AccountFacts
  BY AccountHolds
<1>1. /\ queue' = <<>> /\ txs' = txs
      /\ rx.phase = "dropping" /\ rx'.phase # "alive"
      /\ closed
  <2>1. rx.phase = "dropping" /\ rx' = [rx EXCEPT !.phase = "gone"]
    BY DEF DrainRx, C!EndDropRx
  <2>. QED
    BY <2>1 DEF DrainRx, C!EndDropRx, Account
<1>2. queue' \in Seq(Values) /\ Len(queue') = 0
  BY <1>1
<1>3. Kept /\ closed' = closed /\ balance' = Buffer /\ [Inner!Next]_(Inner!vars)
  <2>1. CASE queue = <<>>
    <3>1. UNCHANGED innerVars /\ Len(queue) = 0
      BY <2>1 DEF DrainRx
    <3>. QED
      BY <1>0, <3>1 DEF innerVars, Inner!vars, Kept, AccountFacts
  <2>2. CASE queue # <<>>
    <3>1. Inner!Release(Len(queue))
      BY <2>2 DEF DrainRx
    <3>2. Kept /\ closed' = closed /\ balance' = balance + Len(queue)
      BY <3>1, ReleaseEffect
    <3>3. balance' = Buffer
      BY <1>0, <3>2 DEF AccountFacts
    <3>4. Inner!Next
      BY <1>0, <3>1 DEF Inner!Next, AccountFacts
    <3>. QED
      BY <3>2, <3>3, <3>4
  <2>. QED
    BY <2>1, <2>2
<1>4. \A t \in Txs : acq'[t].phase # "none" => t \in txs'
  BY <1>1, <1>3 DEF Account, Kept
<1>5. balance' = Buffer - Len(queue')
  BY <1>0, <1>2, <1>3 DEF AccountFacts
<1>6. Account'
  BY <1>0, <1>1, <1>2, <1>3, <1>4, <1>5, AccountStep DEF AccountFacts
<1>7. FifoStep
  <2>1. Over /\ Over'
    BY <1>1, <1>3 DEF Over
  <2>2. F!Discard
    BY <1>1, <2>1 DEF F!Discard, Over
  <2>. QED
    BY <2>2 DEF FifoStep, F!Next
<1>. QED
  BY <1>3, <1>6, <1>7 DEF Effect

LEMMA StepEffect == Account /\ IndInv /\ [Next]_vars => Effect
<1>. SUFFICES ASSUME Account, RxSound, [Next]_vars PROVE Effect
  BY DEF IndInv
<1>1. ASSUME NEW t \in Txs, Send(t) \/ PollSend(t) \/ DropSend(t) \/ DropTx(t)
      PROVE  Effect
  BY <1>1, SendEffect, PollSendEffect, DropSendEffect, DropTxEffect
<1>2. ASSUME NEW t \in Txs, NEW u \in Txs, CloneTx(t, u) PROVE Effect
  BY <1>2, CloneTxEffect
<1>3. CASE PollRecv \/ CancelRecv
  BY <1>3, RecvEffect, QuietRecvEffect DEF PollRecv
<1>4. CASE CloseRx \/ DropRx
  BY <1>4, CloseRxEffect
<1>5. CASE DrainRx
  BY <1>5, DrainRxEffect
<1>6. CASE UNCHANGED vars
  <2>1. UNCHANGED <<innerVars, queue>> /\ txs' = txs /\ rx' = rx
    BY <1>6 DEF vars, chanVars
  <2>. QED
    BY <2>1, SidesEffect DEF Account
<1>. QED
  BY <1>1, <1>2, <1>3, <1>4, <1>5, <1>6 DEF Next

LEMMA AccountIsCapacity == Account => CapacityAccounted
<1>. SUFFICES ASSUME Account PROVE CapacityAccounted
  OBVIOUS
<1>0. AccountFacts
  BY AccountHolds
<1>1. permits + Cardinality(Inner!AssignedUnits) = balance
  <2>1. P!FairInv /\ P!Tally
    BY DEF Account
  <2>2. P!PermitsConserved
    BY <2>1, InnerAssumption, P!TallyIsConservation
  <2>3. P!AssignedUnits = Inner!AssignedUnits
    BY DEF P!AssignedUnits, Inner!AssignedUnits
  <2>4. P!Cardinality(P!AssignedUnits) = Cardinality(P!AssignedUnits)
    BY DEF P!Cardinality, Cardinality
  <2>. QED
    BY <2>2, <2>3, <2>4 DEF P!PermitsConserved
<1>2. permits + Cardinality(Inner!AssignedUnits) + Len(queue) = Buffer
  <2>. DEFINE n == Len(queue)
  <2>1. n \in Int /\ balance = Buffer - n
    BY <1>0 DEF AccountFacts
  <2>2. balance + n = Buffer
    <3>. HIDE DEF n
    <3>. QED
      BY <1>0, <2>1 DEF AccountFacts
  <2>. QED
    BY <1>1, <2>2
<1>. QED
  BY <1>2 DEF Account, CapacityAccounted

\* Every place of the buffer is free, promised to a send that waits, or taken by
\* a value, through every poll, cancellation, close and drop.
THEOREM CapacityIsAccounted == Spec => []CapacityAccounted
<1>1. Account /\ IndInv /\ [Next]_vars => Account'
  BY StepEffect DEF Effect
<1>. QED
  BY <1>1, InitSound, StepSound, InitAccount, AccountIsCapacity, PTL DEF Spec

\* The channel uses the semaphore by its own steps.
THEOREM SendsUseInner == Spec => InnerSpec
<1>1. Account /\ IndInv /\ [Next]_vars => Account' /\ [Inner!Next]_(Inner!vars)
  BY StepEffect DEF Effect
<1>. QED
  BY <1>1, InitSound, StepSound, InitAccount, PTL DEF Spec, InnerSpec, Inner!Spec

\* The bounded channel is a queue of at most Buffer values, closed for good.
THEOREM ImplementsFifo == Spec => FifoSpec
<1>1. Account /\ IndInv /\ [Next]_vars => Account' /\ FifoStep
  BY StepEffect DEF Effect
<1>. QED
  BY <1>1, InitSound, StepSound, InitAccount, PTL DEF Spec, FifoSpec, F!Spec, FifoStep, Over
=============================================================================
