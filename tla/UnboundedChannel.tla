-------------------------- MODULE UnboundedChannel --------------------------
(***************************************************************************)
(* The unbounded channel of src/mpsc/unbounded.rs: Chan with the blocks of *)
(* BlockQueue and `Unlimited` of src/mpsc/semaphore.rs, a semaphore that   *)
(* only knows if it is closed.  A send never waits.  The channel is        *)
(* followed to the end of its memory, and the destructors of the values it *)
(* destroys may drop senders, and may panic.                               *)
(***************************************************************************)
EXTENDS Integers, Sequences

CONSTANTS
    Txs, Contexts, None, Values,
    Blocks, Null, BlockCap, Uninit,
    MaxLen  \* bound of the model: values in the queue

ASSUME BlockQueueAssumption ==
    /\ Null \notin Blocks
    /\ BlockCap \in Nat \ {0}
    /\ Uninit \notin Values
    /\ MaxLen \in Nat

VARIABLES
    closed,                                 \* Unlimited.closed
    head, tail, len,
    next, begin, end, cells, heap, popped,  \* those of BlockQueue
    txs, rx,                                \* those of Chan
    leaked   \* a panic has ended Drop for Chan

Blk == INSTANCE BlockQueue
C == INSTANCE Chan

blockVars == <<head, tail, len, next, begin, end, cells, heap, popped>>
vars == <<closed, blockVars, txs, rx, leaked>>
-----------------------------------------------------------------------------
Init ==
    /\ closed = FALSE
    /\ Blk!Init
    /\ C!Init
    /\ leaked = FALSE

\* As in BoundedChannel, while the values that a receiver leaves are destroyed
\* only what their destructors may call happens; a send from there is refused.
Running == rx.phase # "dropping"

\* send; one that finds the channel closed changes nothing.
Send(t, v) ==
    /\ Running
    /\ t \in txs
    /\ ~closed
    /\ Blk!Push(v)
    /\ C!Send
    /\ UNCHANGED <<closed, leaked>>

CloneTx(t, u) ==
    /\ Running
    /\ C!CloneTx(t, u)
    /\ UNCHANGED <<closed, blockVars, leaked>>

DropTx(t) ==
    /\ C!DropTx(t)
    /\ closed' = (closed \/ txs = {t})
    /\ UNCHANGED <<blockVars, leaked>>

Recv == C!Pop /\ Blk!Pop /\ UNCHANGED <<closed, leaked>>

RecvNone == C!RecvNone /\ UNCHANGED <<closed, blockVars, leaked>>

RecvPending ==
    /\ \E c \in Contexts : C!RecvPending(c)
    /\ UNCHANGED <<closed, blockVars, leaked>>

CancelRecv == C!CancelRecv /\ UNCHANGED <<closed, blockVars, leaked>>

CloseRx == C!CloseRx /\ closed' = TRUE /\ UNCHANGED <<blockVars, leaked>>

\* Mutant: the semaphore stays open.
DropRxOpen == C!DropRx /\ UNCHANGED <<closed, blockVars, leaked>>

DropRx == C!DropRx /\ closed' = TRUE /\ UNCHANGED <<blockVars, leaked>>

\* The receiver destroys a value it leaves.  A panic of its destructor ends the
\* drop, and the rest stays in the queue.
DestroyValue ==
    /\ rx.phase = "dropping"
    /\ len > 0
    /\ Blk!Pop
    /\ C!EndDropRx \/ UNCHANGED <<txs, rx>>
    /\ UNCHANGED <<closed, leaked>>

\* add_permits of Unlimited does nothing.
EndDropRx ==
    /\ C!EndDropRx
    /\ len = 0
    /\ UNCHANGED <<closed, blockVars, leaked>>

\* Drop for Chan, when the last handle has gone: first the values, with a panic
\* that leaves the rest for good, then the blocks.
Orphan == txs = {} /\ rx.phase = "gone" /\ head # Null /\ ~leaked

DropChanValue ==
    /\ Orphan
    /\ len > 0
    /\ Blk!Pop
    /\ leaked' \in BOOLEAN
    /\ UNCHANGED <<closed, txs, rx>>

\* Mutant: the drop of the receiver is trusted to have emptied the queue.
FreeChanAtOnce ==
    /\ Orphan
    /\ Blk!FreeBlocks
    /\ UNCHANGED <<closed, txs, rx, leaked>>

FreeChan ==
    /\ Orphan
    /\ len = 0
    /\ Blk!FreeBlocks
    /\ UNCHANGED <<closed, txs, rx, leaked>>

PollRecv == Recv \/ RecvNone \/ RecvPending

Next ==
    \/ \E t \in Txs :
          \/ \E v \in Values : Send(t, v)
          \/ \E u \in Txs : CloneTx(t, u)
          \/ DropTx(t)
    \/ PollRecv \/ CancelRecv \/ CloseRx \/ DropRx
    \/ DestroyValue \/ EndDropRx \/ DropChanValue \/ FreeChan

Spec == Init /\ [][Next]_vars

\* As in BoundedChannel.
Fairness ==
    WF_vars((rx.waiting => rx.notified) /\ PollRecv)

FairSpec == Spec /\ Fairness
-----------------------------------------------------------------------------
\* The blocks behind the channel are sound and are not hoarded.
ChainSound == Blk!ChainSound
FewBlocks == Blk!FewBlocks

\* The callers of the unsafe functions keep to what these ask for, and get a
\* queue of values: nothing is popped of an empty queue, whatever panics no
\* block is freed under a value, and the blocks are freed once.
QueueSpec == Blk!QueueSpec

\* A waiting receiver is woken by a value and by the end of the channel.
NoLostWakeup == C!NoLostWakeup

\* The values arrive in the order in which they were sent, and none is sent
\* after a call of close or after a side has gone: what Drop for Chan finds in
\* the queue is what a panic has left there.
HasRoom(q) == TRUE

F == INSTANCE Fifo WITH
    Room <- HasRoom,
    queue <- Blk!Stored,
    closed <- closed \/ rx.phase # "alive" \/ txs = {}

FifoSpec == F!Spec

\* A receiver that waits gets the value that is there, or the end.
RecvAnswered ==
    rx.waiting /\ (len > 0 \/ txs = {}) ~> ~rx.waiting
=============================================================================
