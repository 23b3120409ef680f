------------------------ MODULE UnboundedChannelProofs -----------------------
(***************************************************************************)
(* The wakeups of UnboundedChannel, the soundness of its blocks, and the   *)
(* queue that they and the channel promise, for any number of senders,     *)
(* values and blocks, and blocks of any size.                              *)
(***************************************************************************)
EXTENDS UnboundedChannel, FiniteSets, FiniteSetTheorems, SequenceTheorems,
        WellFoundedInduction, NaturalsInduction, TLAPS

\* What a channel knows of the task that awaits a value: only one that holds the
\* receiver waits, and its waker is that of its last poll unless it was woken.
RxSound ==
    /\ rx \in C!Receiver
    /\ rx.phase # "alive" => ~rx.waiting
    /\ rx.waiting => rx.waker = rx.cx \/ rx.notified

IndInv == RxSound /\ NoLostWakeup

LEMMA WokenSound ==
    ASSUME RxSound
    PROVE  /\ C!Woken(rx) \in C!Receiver
           /\ C!Woken(rx).phase = rx.phase
           /\ C!Woken(rx).waiting = rx.waiting
           /\ C!Woken(rx).waiting => C!Woken(rx).notified
  BY DEF RxSound, C!Woken, C!Receiver

LEMMA IdleSound ==
    ASSUME RxSound
    PROVE  /\ C!Idle(rx) \in C!Receiver
           /\ C!Idle(rx).phase = rx.phase
           /\ ~C!Idle(rx).waiting
  BY DEF RxSound, C!Idle, C!Receiver

\* The receiver sleeps no more, or has been woken: nothing can be lost on it.
LEMMA AwakeSound ==
    ASSUME rx' \in C!Receiver,
           rx'.phase # "alive" => ~rx'.waiting,
           rx'.waiting => rx'.notified
    PROVE  IndInv'
  BY DEF IndInv, RxSound, NoLostWakeup, C!NoLostWakeup

LEMMA IdleStep ==
    ASSUME RxSound, rx' = C!Idle(rx) PROVE IndInv'
  BY IdleSound, AwakeSound

LEMMA WokenStep ==
    ASSUME RxSound, rx' = C!Woken(rx) PROVE IndInv'
<1>1. RxSound /\ rx' \in C!Receiver /\ rx'.phase = rx.phase
      /\ rx'.waiting = rx.waiting /\ (rx'.waiting => rx'.notified)
  BY WokenSound
<1>. QED
  BY <1>1, AwakeSound DEF RxSound

\* The receiver and the reasons to wake it are left alone.
LEMMA QuietStep ==
    ASSUME IndInv, rx' = rx,
           len' > 0 => len > 0, txs' = {} => txs = {}
    PROVE  IndInv'
  BY DEF IndInv, RxSound, NoLostWakeup, C!NoLostWakeup

LEMMA PendingSound ==
    ASSUME RxSound, NEW c \in Contexts, C!RecvPending(c), len' = len
    PROVE  IndInv'
<1>1. rx' \in C!Receiver /\ rx'.phase = "alive" /\ rx'.waker = rx'.cx
  BY DEF RxSound, C!RecvPending, C!Receiver
<1>2. ~(len > 0) /\ txs # {} /\ txs' = txs
  BY DEF C!RecvPending
<1>. QED
  BY <1>1, <1>2 DEF IndInv, RxSound, NoLostWakeup, C!NoLostWakeup

LEMMA DropTxSound ==
    ASSUME IndInv, NEW t \in Txs, C!DropTx(t), len' = len
    PROVE  IndInv'
<1>1. RxSound
  BY DEF IndInv
<1>2. CASE txs = {t}
  BY <1>1, <1>2, WokenStep DEF C!DropTx
<1>3. CASE txs # {t}
  BY <1>3, QuietStep DEF C!DropTx
<1>. QED
  BY <1>2, <1>3

LEMMA DropRxSound ==
    ASSUME RxSound, C!DropRx PROVE IndInv'
<1>1. rx' = [C!Idle(rx) EXCEPT !.phase = "dropping"]
  BY DEF C!DropRx
<1>2. rx' \in C!Receiver /\ ~rx'.waiting
  BY <1>1, IdleSound DEF C!Receiver
<1>. QED
  BY <1>2, AwakeSound

LEMMA EndDropRxSound ==
    ASSUME RxSound, C!EndDropRx PROVE IndInv'
<1>1. rx' \in C!Receiver /\ ~rx'.waiting
  BY DEF RxSound, C!EndDropRx, C!Receiver
<1>. QED
  BY <1>1, AwakeSound

LEMMA InitSound == Init => IndInv
<1>. SUFFICES ASSUME Init PROVE IndInv
  OBVIOUS
<1>1. rx \in C!Receiver /\ ~rx.waiting
  BY DEF Init, C!Init, C!Receiver
<1>. QED
  BY <1>1 DEF IndInv, RxSound, NoLostWakeup, C!NoLostWakeup

\* What the steps of the block queue do to its length.
LEMMA BlockSteps ==
    /\ \A v \in Values : Blk!Push(v) => len' = len + 1
    /\ Blk!FreeBlocks => len' = len
  BY DEF Blk!Push, Blk!FreeBlocks

LEMMA StepSound == IndInv /\ [Next]_vars => IndInv'
<1>. SUFFICES ASSUME IndInv, [Next]_vars PROVE IndInv'
  OBVIOUS
<1>0. RxSound
  BY DEF IndInv
<1>1. ASSUME NEW t \in Txs, NEW v \in Values, Send(t, v) PROVE IndInv'
  BY <1>0, <1>1, WokenStep DEF Send, C!Send
<1>2. ASSUME NEW t \in Txs, NEW u \in Txs, CloneTx(t, u) PROVE IndInv'
  <2>1. rx' = rx /\ len' = len /\ txs' # {}
    BY <1>2 DEF CloneTx, C!CloneTx, blockVars
  <2>. QED
    BY <2>1, QuietStep
<1>3. ASSUME NEW t \in Txs, DropTx(t) PROVE IndInv'
  BY <1>3, DropTxSound DEF DropTx, blockVars
<1>4. CASE PollRecv
  <2>1. CASE Recv \/ RecvNone
    BY <1>0, <2>1, IdleStep DEF Recv, RecvNone, C!Pop, C!RecvNone
  <2>2. CASE RecvPending
    <3>1. PICK c \in Contexts : C!RecvPending(c)
      BY <2>2 DEF RecvPending
    <3>2. len' = len
      BY <2>2 DEF RecvPending, blockVars
    <3>. QED
      BY <1>0, <3>1, <3>2, PendingSound
  <2>. QED
    BY <1>4, <2>1, <2>2 DEF PollRecv
<1>5. CASE CancelRecv \/ CloseRx
  BY <1>0, <1>5, IdleStep DEF CancelRecv, CloseRx, C!CancelRecv, C!CloseRx
<1>6. CASE DropRx
  BY <1>0, <1>6, DropRxSound DEF DropRx
<1>7. CASE DestroyValue
  <2>1. CASE C!EndDropRx
    BY <1>0, <2>1, EndDropRxSound
  <2>2. CASE UNCHANGED <<txs, rx>>
    BY <1>0, <1>7, <2>2, AwakeSound DEF DestroyValue, RxSound
  <2>. QED
    BY <1>7, <2>1, <2>2 DEF DestroyValue
<1>8. CASE EndDropRx
  BY <1>0, <1>8, EndDropRxSound DEF EndDropRx
<1>9. CASE DropChanValue \/ FreeChan
  BY <1>0, <1>9, AwakeSound DEF DropChanValue, FreeChan, Orphan, RxSound
<1>10. CASE UNCHANGED vars
  BY <1>10, QuietStep DEF vars, blockVars
<1>. QED
  BY <1>1, <1>2, <1>3, <1>4, <1>5, <1>6, <1>7, <1>8, <1>9, <1>10 DEF Next

\* A receiver that waits does not sleep through a value or the end of the
\* channel, whoever polls it, cancels it, or drops the senders.
THEOREM WakeupsAreNotLost == Spec => []NoLostWakeup
<1>1. IndInv => NoLostWakeup
  BY DEF IndInv
<1>. QED
  BY <1>1, InitSound, StepSound, PTL DEF Spec
-----------------------------------------------------------------------------
\* Numbers, divided by the size of a block.
LEMMA ProductGrows ==
    ASSUME NEW m \in Nat, NEW a \in Int, NEW b \in Int, a <= b
    PROVE  a * m <= b * m
<1>. DEFINE d == b - a
<1>1. d \in Nat /\ b = a + d
  OBVIOUS
<1>. HIDE DEF d
<1>2. b * m = a * m + d * m
  BY <1>1
<1>3. d * m \in Nat
  BY <1>1
<1>. QED
  BY <1>2, <1>3

LEMMA EarlierBlock ==
    ASSUME NEW m \in Nat \ {0}, NEW x \in Int, NEW y \in Int, x < y,
           NEW u \in 0..m-1, NEW w \in Nat
    PROVE  x * m + u < y * m + w
<1>1. (x + 1) * m <= y * m
  BY ProductGrows
<1>2. (x + 1) * m = x * m + m
  OBVIOUS
<1>. DEFINE xm == x * m
            ym == y * m
<1>3. xm \in Int /\ ym \in Int /\ xm + m <= ym
  BY <1>1, <1>2
<1>. HIDE DEF xm, ym
<1>4. xm + u < ym + w
  BY <1>3
<1>. QED
  BY <1>4 DEF xm, ym

LEMMA PlaceIsUnique ==
    ASSUME NEW m \in Nat \ {0}, NEW q \in Int, NEW p \in Int,
           NEW r \in 0..m-1, NEW s \in 0..m-1,
           q * m + r = p * m + s
    PROVE  q = p /\ r = s
<1>1. ~(q < p) /\ ~(p < q)
  BY EarlierBlock
<1>2. q = p
  BY <1>1
<1>. QED
  BY <1>2

LEMMA PlaceOf ==
    ASSUME NEW m \in Nat \ {0}, NEW a \in Nat
    PROVE  /\ a \div m \in Nat
           /\ a % m \in 0..m-1
           /\ a = (a \div m) * m + (a % m)
  OBVIOUS

LEMMA PlaceAt ==
    ASSUME NEW m \in Nat \ {0}, NEW q \in Nat, NEW r \in 0..m-1
    PROVE  /\ q * m + r \in Nat
           /\ (q * m + r) \div m = q
           /\ (q * m + r) % m = r
<1>. DEFINE a == q * m + r
<1>1. a \in Nat
  <2>1. q * m \in Nat
    OBVIOUS
  <2>. QED
    BY <2>1
<1>2. a \div m \in Nat /\ a % m \in 0..m-1 /\ a = (a \div m) * m + (a % m)
  BY <1>1, PlaceOf
<1>. DEFINE d == a \div m
            e == a % m
<1>3. d * m + e = q * m + r /\ d \in Int /\ e \in 0..m-1
  BY <1>2
<1>. HIDE DEF d, e
<1>4. d = q /\ e = r
  BY <1>3, PlaceIsUnique
<1>. QED
  BY <1>1, <1>4 DEF d, e
-----------------------------------------------------------------------------
(***************************************************************************)
(* The chain c of the blocks, and the position t of the tail in it.        *)
(***************************************************************************)
Types ==
    /\ next \in [Blocks -> Blocks \cup {Null}]
    /\ begin \in [Blocks -> Nat]
    /\ end \in [Blocks -> Nat]
    /\ cells \in [Blocks -> [0..BlockCap - 1 -> Values \cup {Uninit}]]
    /\ len \in Nat
    /\ heap \subseteq Blocks
    /\ IsFiniteSet(heap)

Layout(c, t) ==
    /\ c \in Seq(Blocks)
    /\ t \in 1..Len(c)
    /\ c[1] = head
    /\ c[t] = tail
    /\ \A i, j \in 1..Len(c) : c[i] = c[j] => i = j
    /\ \A i \in 1..Len(c) : next[c[i]] = IF i = Len(c) THEN Null ELSE c[i + 1]
    /\ \A b : b \in heap <=> \E i \in 1..Len(c) : c[i] = b
    /\ Cardinality(heap) = Len(c)

Indices(c, t) ==
    /\ \A i \in 1..Len(c) : /\ i < t => end[c[i]] = BlockCap
                            /\ i > t => end[c[i]] = 0
                            /\ i > 1 => begin[c[i]] = 0
    /\ end[tail] < BlockCap
    /\ begin[head] < BlockCap
    /\ begin[head] <= end[head]
    /\ len = (t - 1) * BlockCap + end[tail] - begin[head]

Filled ==
    /\ \A b \in Blocks : \A i \in 0..BlockCap - 1 :
          IF begin[b] <= i /\ i < end[b] THEN cells[b][i] \in Values
                                         ELSE cells[b][i] = Uninit
    /\ \A b \in Blocks \ heap : next[b] = Null /\ begin[b] = 0 /\ end[b] = 0

Sound(c, t) == Types /\ Layout(c, t) /\ Indices(c, t) /\ Filled

LEMMA SameCardinality ==
    ASSUME NEW S
    PROVE  Blk!Cardinality(S) = Cardinality(S)
  BY DEF Blk!Cardinality, Cardinality

\* A set of numbers has a least one, unless it is empty.
LEMMA Least ==
    ASSUME NEW T, T \subseteq Nat, T # {}
    PROVE  \E m \in T : \A n \in T : m <= n
<1>1. \E m \in T : \A n \in T : <<n, m>> \notin OpToRel(<, Nat)
  BY NatLessThanWellFounded, WFMin
<1>2. PICK m \in T : \A n \in T : <<n, m>> \notin OpToRel(<, Nat)
  BY <1>1
<1>3. \A n \in T : ~(n < m)
  BY <1>2 DEF OpToRel
<1>. QED
  BY <1>3

\* There is one walk along the blocks: two that start at the head go the same way.
LEMMA WalkAgrees ==
    ASSUME NEW c \in Seq(Blocks), NEW d \in Seq(Blocks), c # <<>>, d # <<>>,
           Blk!IsWalk(c), Blk!IsWalk(d)
    PROVE  \A i \in 1..Len(c) : i <= Len(d) /\ c[i] = d[i]
<1>. DEFINE T == {i \in 1..Len(c) : ~(i <= Len(d) /\ c[i] = d[i])}
<1>0. /\ Len(c) \in Nat /\ Len(c) >= 1 /\ Len(d) \in Nat /\ Len(d) >= 1
      /\ \A i \in 1..Len(c) : c[i] \in Blocks
      /\ \A i \in 1..Len(d) : d[i] \in Blocks
  BY EmptySeq
<1>1. CASE T = {}
  BY <1>1
<1>2. CASE T # {}
  <2>1. T \subseteq Nat
    OBVIOUS
  <2>2. PICK m \in T : \A n \in T : m <= n
    BY <1>2, <2>1, Least
  <2>3. m \in 1..Len(c) /\ ~(m <= Len(d) /\ c[m] = d[m])
    BY <2>2
  <2>4. m # 1
    BY <1>0, <2>3 DEF Blk!IsWalk
  <2>. DEFINE k == m - 1
  <2>5. k \in 1..Len(c) /\ k # Len(c) /\ m = k + 1 /\ k \notin T
    BY <1>0, <2>2, <2>3, <2>4
  <2>6. k <= Len(d) /\ c[k] = d[k]
    BY <2>5
  <2>7. next[c[k]] = c[k + 1]
    BY <1>0, <2>5 DEF Blk!IsWalk
  <2>8. next[d[k]] = IF k = Len(d) THEN Null ELSE d[k + 1]
    BY <1>0, <2>5, <2>6 DEF Blk!IsWalk
  <2>9. c[k + 1] # Null
    BY <1>0, <2>3, <2>5, BlockQueueAssumption
  <2>10. k # Len(d) /\ c[m] = d[m]
    BY <2>5, <2>6, <2>7, <2>8, <2>9
  <2>. QED
    BY <1>0, <2>3, <2>5, <2>6, <2>10
<1>. QED
  BY <1>1, <1>2

\* The chain is a walk.
LEMMA ChainWalks ==
    ASSUME NEW c, NEW t, Types, Layout(c, t)
    PROVE  c \in Blk!Walks /\ Blk!IsWalk(c)
<1>1. /\ c \in Seq(Blocks) /\ Len(c) \in Nat /\ Len(c) >= 1
      /\ \A i \in 1..Len(c) : c[i] \in heap
      /\ DOMAIN c = 1..Len(c)
  BY DEF Layout
<1>2. Blk!IsWalk(c)
  BY <1>1 DEF Layout, Blk!IsWalk
<1>3. c \in [1..Len(c) -> heap]
  BY <1>1
<1>4. Len(c) \in 1..Blk!Cardinality(heap)
  BY <1>1, SameCardinality DEF Layout
<1>. QED
  BY <1>2, <1>3, <1>4 DEF Blk!Walks

LEMMA ChainIs ==
    ASSUME NEW c, NEW t, Types, Layout(c, t)
    PROVE  Blk!Chain = c
<1>1. /\ c \in Seq(Blocks) /\ Len(c) \in Nat /\ Len(c) >= 1 /\ c # <<>>
      /\ DOMAIN c = 1..Len(c)
  BY EmptySeq DEF Layout
<1>2. c \in Blk!Walks /\ Blk!IsWalk(c)
  BY ChainWalks
<1>. DEFINE d == Blk!Chain
<1>4. d \in Blk!Walks /\ Blk!IsWalk(d)
  BY <1>2 DEF Blk!Chain
<1>. HIDE DEF d
<1>5. /\ d \in Seq(Blocks) /\ d # <<>> /\ DOMAIN d = 1..Len(d)
      /\ Len(d) \in Nat /\ Len(d) >= 1
  <2>1. PICK n \in 1..Blk!Cardinality(heap) : d \in [1..n -> heap]
    BY <1>4 DEF Blk!Walks
  <2>2. n \in Nat /\ n >= 1 /\ heap \subseteq Blocks
    BY DEF Types
  <2>3. d \in Seq(heap) /\ Len(d) = n
    BY <2>1, <2>2
  <2>. QED
    BY <2>2, <2>3
<1>6. \A i \in 1..Len(c) : i <= Len(d) /\ c[i] = d[i]
  BY <1>1, <1>2, <1>4, <1>5, WalkAgrees
<1>7. \A i \in 1..Len(d) : i <= Len(c) /\ c[i] = d[i]
  BY <1>1, <1>2, <1>4, <1>5, WalkAgrees
<1>8. Len(d) = Len(c)
  <2>1. Len(c) \in 1..Len(c) /\ Len(d) \in 1..Len(d)
    BY <1>1, <1>5
  <2>2. Len(c) <= Len(d) /\ Len(d) <= Len(c)
    BY <1>6, <1>7, <2>1
  <2>3. Len(c) \in Int /\ Len(d) \in Int
    BY <1>1, <1>5
  <2>. QED
    BY <2>2, <2>3
<1>9. d = c
  BY <1>1, <1>5, <1>6, <1>8, SeqEqual
<1>. QED
  BY <1>9 DEF d
-----------------------------------------------------------------------------
LEMMA SoundFacts ==
    ASSUME NEW c, NEW t, Sound(c, t)
    PROVE  /\ c \in Seq(Blocks) /\ Len(c) \in Nat /\ t \in 1..Len(c) /\ t \in Nat
           /\ \A i \in 1..Len(c) : c[i] \in Blocks /\ c[i] \in heap
           /\ head = c[1] /\ tail = c[t]
           /\ head \in Blocks /\ tail \in Blocks /\ head \in heap /\ tail \in heap
           /\ BlockCap \in Nat /\ BlockCap > 0
           /\ begin[head] \in Nat /\ end[head] \in Nat
           /\ begin[tail] \in Nat /\ end[tail] \in Nat
           /\ begin[tail] <= end[tail]
           /\ (t - 1) * BlockCap \in Nat
<1>1. /\ c \in Seq(Blocks) /\ Len(c) \in Nat /\ t \in 1..Len(c) /\ t \in Nat
      /\ \A i \in 1..Len(c) : c[i] \in Blocks /\ c[i] \in heap
      /\ head = c[1] /\ tail = c[t]
  BY DEF Sound, Layout
<1>2. 1 \in 1..Len(c)
  BY <1>1
<1>3. head \in Blocks /\ tail \in Blocks /\ head \in heap /\ tail \in heap
  BY <1>1, <1>2
<1>4. /\ begin[head] \in Nat /\ end[head] \in Nat
      /\ begin[tail] \in Nat /\ end[tail] \in Nat
  BY <1>3 DEF Sound, Types
<1>5. begin[tail] <= end[tail]
  <2>1. CASE t = 1
    BY <1>1, <2>1 DEF Sound, Indices
  <2>2. CASE t > 1
    <3>1. begin[tail] = 0
      BY <1>1, <2>2 DEF Sound, Indices
    <3>. QED
      BY <1>4, <3>1
  <2>. QED
    BY <1>1, <2>1, <2>2
<1>6. BlockCap \in Nat /\ BlockCap > 0
  BY BlockQueueAssumption
<1>7. (t - 1) * BlockCap \in Nat
  <2>1. t - 1 \in Nat
    BY <1>1
  <2>. QED
    BY <1>6, <2>1
<1>. QED
  BY <1>1, <1>3, <1>4, <1>5, <1>6, <1>7

(***************************************************************************)
(* push_unchecked: the value goes to the cell behind the last.             *)
(***************************************************************************)
Pushed(v) ==
    /\ head' = head
    /\ begin' = begin
    /\ popped' = popped
    /\ len' = len + 1
    /\ end' \in [Blocks -> Nat]
    /\ cells' \in [Blocks -> [0..BlockCap - 1 -> Values \cup {Uninit}]]
    /\ \A b \in Blocks : end'[b] = IF b = tail THEN end[tail] + 1 ELSE end[b]
    /\ \A b \in Blocks : \A i \in 0..BlockCap - 1 :
          cells'[b][i] = IF b = tail /\ i = end[tail] THEN v ELSE cells[b][i]

LEMMA PushEffect ==
    ASSUME NEW c, NEW t, Sound(c, t), NEW v \in Values, Blk!Push(v)
    PROVE  Pushed(v)
<1>0. /\ tail \in Blocks /\ end[tail] \in Nat /\ end[tail] < BlockCap
      /\ BlockCap \in Nat
      /\ end \in [Blocks -> Nat]
      /\ cells \in [Blocks -> [0..BlockCap - 1 -> Values \cup {Uninit}]]
  BY SoundFacts DEF Sound, Types, Indices
<1>1. /\ head' = head /\ begin' = begin /\ popped' = popped /\ len' = len + 1
      /\ end' = [end EXCEPT ![tail] = @ + 1]
      /\ cells' = [cells EXCEPT ![tail][end[tail]] = v]
  BY DEF Blk!Push
<1>2. /\ end' \in [Blocks -> Nat]
      /\ \A b \in Blocks : end'[b] = IF b = tail THEN end[tail] + 1 ELSE end[b]
  BY <1>0, <1>1
<1>3. end[tail] \in 0..BlockCap - 1
  BY <1>0
<1>4. cells' = [cells EXCEPT ![tail] = [cells[tail] EXCEPT ![end[tail]] = v]]
  BY <1>1
<1>5. [cells[tail] EXCEPT ![end[tail]] = v] \in [0..BlockCap - 1 -> Values \cup {Uninit}]
  BY <1>0, <1>3
<1>6. cells' \in [Blocks -> [0..BlockCap - 1 -> Values \cup {Uninit}]]
  BY <1>0, <1>4, <1>5
<1>7. \A b \in Blocks : \A i \in 0..BlockCap - 1 :
         cells'[b][i] = IF b = tail /\ i = end[tail] THEN v ELSE cells[b][i]
  BY <1>0, <1>3, <1>4
<1>. QED
  BY <1>1, <1>2, <1>6, <1>7 DEF Pushed

LEMMA PushHead ==
    ASSUME NEW c, NEW t, Sound(c, t), NEW v, Pushed(v)
    PROVE  begin'[head'] < BlockCap /\ begin'[head'] <= end'[head']
<1>0. head \in Blocks /\ begin[head] \in Nat /\ end[head] \in Nat
  BY SoundFacts
<1>1. begin[head] < BlockCap /\ begin[head] <= end[head]
  BY DEF Sound, Indices
<1>2. begin'[head'] = begin[head]
  BY DEF Pushed
<1>3. end'[head'] = end[head] \/ end'[head'] = end[head] + 1
  BY <1>0 DEF Pushed
<1>. QED
  BY <1>0, <1>1, <1>2, <1>3

LEMMA PushFills ==
    ASSUME NEW c, NEW t, Sound(c, t), NEW v \in Values, Pushed(v),
           heap \subseteq heap',
           \A b \in Blocks \ heap' : next'[b] = Null
    PROVE  Filled'
<1>0. /\ tail \in Blocks /\ tail \in heap
      /\ end[tail] \in Nat /\ begin[tail] \in Nat
      /\ begin[tail] <= end[tail]
      /\ BlockCap \in Nat
      /\ end \in [Blocks -> Nat] /\ begin \in [Blocks -> Nat]
      /\ Filled
  BY SoundFacts DEF Sound, Types
<1>1. ASSUME NEW b \in Blocks, NEW i \in 0..BlockCap - 1
      PROVE  IF begin'[b] <= i /\ i < end'[b] THEN cells'[b][i] \in Values
                                              ELSE cells'[b][i] = Uninit
  <2>0. i \in Nat /\ begin' = begin
    BY <1>0 DEF Pushed
  <2>1. CASE b = tail
    <3>1. end'[b] = end[tail] + 1
      BY <2>1 DEF Pushed
    <3>2. CASE i = end[tail]
      <4>1. cells'[b][i] = v
        BY <2>1, <3>2 DEF Pushed
      <4>. QED
        BY <1>0, <2>0, <2>1, <3>1, <3>2, <4>1
    <3>3. CASE i # end[tail]
      <4>1. cells'[b][i] = cells[b][i]
        BY <3>3 DEF Pushed
      <4>2. i < end[tail] + 1 <=> i < end[tail]
        BY <1>0, <2>0, <3>3
      <4>. QED
        BY <1>0, <2>0, <2>1, <3>1, <4>1, <4>2 DEF Filled
    <3>. QED
      BY <3>2, <3>3
  <2>2. CASE b # tail
    <3>1. end'[b] = end[b] /\ cells'[b][i] = cells[b][i]
      BY <2>2 DEF Pushed
    <3>. QED
      BY <1>0, <2>0, <3>1 DEF Filled
  <2>. QED
    BY <2>1, <2>2
<1>2. ASSUME NEW b \in Blocks \ heap'
      PROVE  next'[b] = Null /\ begin'[b] = 0 /\ end'[b] = 0
  <2>1. b \in Blocks \ heap /\ b # tail
    BY <1>0
  <2>2. end'[b] = end[b] /\ begin'[b] = begin[b]
    BY <2>1 DEF Pushed
  <2>. QED
    BY <1>0, <2>1, <2>2 DEF Filled
<1>. QED
  BY <1>1, <1>2 DEF Filled

\* There is room in the tail.
LEMMA PushInTail ==
    ASSUME NEW c, NEW t, Sound(c, t), NEW v \in Values, Pushed(v),
           end[tail] + 1 < BlockCap,
           tail' = tail, next' = next, heap' = heap
    PROVE  Sound(c, t)'
<1>0. /\ c \in Seq(Blocks) /\ Len(c) \in Nat /\ t \in 1..Len(c) /\ t \in Nat
      /\ \A i \in 1..Len(c) : c[i] \in Blocks
      /\ head = c[1] /\ tail = c[t] /\ head \in Blocks /\ tail \in Blocks
      /\ begin[head] \in Nat /\ end[head] \in Nat /\ end[tail] \in Nat
      /\ begin[tail] \in Nat /\ begin[tail] <= end[tail]
      /\ (t - 1) * BlockCap \in Nat
  BY SoundFacts
<1>1. Types'
  BY DEF Sound, Types, Pushed
<1>2. Layout(c, t)'
  BY DEF Sound, Layout, Pushed
<1>3. Filled'
  BY PushFills DEF Sound, Filled
<1>4. Indices(c, t)'
  <2>1. \A i \in 1..Len(c) : i # t => c[i] # tail
    BY <1>0 DEF Sound, Layout
  <2>2. \A i \in 1..Len(c) : /\ i < t => end'[c[i]] = BlockCap
                             /\ i > t => end'[c[i]] = 0
                             /\ i > 1 => begin'[c[i]] = 0
    <3>. TAKE i \in 1..Len(c)
    <3>1. /\ i < t => end[c[i]] = BlockCap
          /\ i > t => end[c[i]] = 0
          /\ i > 1 => begin[c[i]] = 0
      BY DEF Sound, Indices
    <3>2. i # t => end'[c[i]] = end[c[i]]
      BY <1>0, <2>1 DEF Pushed
    <3>3. begin'[c[i]] = begin[c[i]]
      BY DEF Pushed
    <3>4. (i < t => i # t) /\ (i > t => i # t)
      BY <1>0
    <3>. QED
      BY <3>1, <3>2, <3>3, <3>4
  <2>3. end'[tail'] < BlockCap
    BY <1>0 DEF Pushed
  <2>4. begin'[head'] < BlockCap /\ begin'[head'] <= end'[head']
    BY PushHead
  <2>5. len' = (t - 1) * BlockCap + end'[tail'] - begin'[head']
    <3>. DEFINE x == (t - 1) * BlockCap
    <3>1. len = x + end[tail] - begin[head] /\ x \in Nat
      BY <1>0 DEF Sound, Indices
    <3>2. /\ len' = len + 1 /\ end'[tail'] = end[tail] + 1
          /\ begin'[head'] = begin[head]
      BY <1>0 DEF Pushed
    <3>. HIDE DEF x
    <3>3. len' = x + end'[tail'] - begin'[head']
      BY <1>0, <3>1, <3>2
    <3>. QED
      BY <3>3 DEF x
  <2>. QED
    BY <2>2, <2>3, <2>4, <2>5 DEF Indices
<1>. QED
  BY <1>1, <1>2, <1>3, <1>4 DEF Sound

\* The tail is full, and the one behind it becomes the tail: c may have grown to d.
LEMMA PushFull ==
    ASSUME NEW c, NEW t, Sound(c, t), NEW v \in Values, Pushed(v),
           end[tail] + 1 = BlockCap,
           NEW d \in Seq(Blocks), t + 1 \in 1..Len(d),
           tail' = d[t + 1],
           \A i \in 1..Len(c) : i \in 1..Len(d) /\ d[i] = c[i],
           \A i \in 1..Len(d) : \/ i \in 1..Len(c)
                                \/ i > t /\ end[d[i]] = 0 /\ begin[d[i]] = 0,
           \A i, j \in 1..Len(d) : d[i] = d[j] => i = j
    PROVE  Indices(d, t + 1)'
<1>0. /\ Len(c) \in Nat /\ t \in 1..Len(c) /\ t \in Nat /\ Len(d) \in Nat
      /\ \A i \in 1..Len(d) : d[i] \in Blocks
      /\ head = c[1] /\ tail = c[t] /\ head \in Blocks /\ tail \in Blocks
      /\ begin[head] \in Nat /\ end[head] \in Nat /\ end[tail] \in Nat
      /\ BlockCap \in Nat /\ BlockCap > 0
  <2>1. Len(d) \in Nat /\ \A i \in 1..Len(d) : d[i] \in Blocks
    OBVIOUS
  <2>. QED
    BY <2>1, SoundFacts
<1>1. \A i \in 1..Len(d) : i # t => d[i] # tail
  BY <1>0
<1>2. \A i \in 1..Len(d) : /\ i < t => end[d[i]] = BlockCap
                           /\ i > t => end[d[i]] = 0
                           /\ i > 1 => begin[d[i]] = 0
  BY <1>0 DEF Sound, Indices
<1>3. \A i \in 1..Len(d) : /\ i < t + 1 => end'[d[i]] = BlockCap
                           /\ i > t + 1 => end'[d[i]] = 0
                           /\ i > 1 => begin'[d[i]] = 0
  <2>. TAKE i \in 1..Len(d)
  <2>1. CASE i = t
    <3>1. end'[d[i]] = BlockCap
      BY <1>0, <2>1 DEF Pushed
    <3>. QED
      BY <1>0, <1>2, <2>1, <3>1 DEF Pushed
  <2>2. CASE i # t
    <3>1. end'[d[i]] = end[d[i]]
      BY <1>0, <1>1, <2>2 DEF Pushed
    <3>2. i < t + 1 => i < t
      BY <1>0, <2>2
    <3>3. i > t + 1 => i > t
      BY <1>0
    <3>. QED
      BY <1>2, <3>1, <3>2, <3>3 DEF Pushed
  <2>. QED
    BY <2>1, <2>2
<1>4. end'[tail'] = 0
  <2>1. t + 1 # t /\ t + 1 > t
    BY <1>0
  <2>2. end'[d[t + 1]] = end[d[t + 1]]
    BY <1>0, <1>1, <2>1 DEF Pushed
  <2>. QED
    BY <1>2, <2>1, <2>2
<1>5. begin'[head'] < BlockCap /\ begin'[head'] <= end'[head']
  BY PushHead
<1>6. len' = ((t + 1) - 1) * BlockCap + end'[tail'] - begin'[head']
  <2>. DEFINE x == (t - 1) * BlockCap
              y == ((t + 1) - 1) * BlockCap
  <2>1. y = x + BlockCap /\ x \in Int /\ y \in Int
    BY <1>0
  <2>2. len = x + end[tail] - begin[head] /\ len' = len + 1 /\ begin'[head'] = begin[head]
    BY DEF Sound, Indices, Pushed
  <2>. HIDE DEF x, y
  <2>. DEFINE e == end[tail]
              b == begin[head]
  <2>3. e \in Nat /\ b \in Nat /\ e + 1 = BlockCap /\ len' = (x + e - b) + 1
    BY <1>0, <2>2
  <2>. HIDE DEF e, b
  <2>4. len' = y + 0 - b
    BY <2>1, <2>3
  <2>5. len' = y + end'[tail'] - begin'[head']
    BY <1>4, <2>2, <2>4 DEF b
  <2>. QED
    BY <2>5 DEF y
<1>. QED
  BY <1>0, <1>3, <1>4, <1>5, <1>6 DEF Indices

LEMMA PushRecycled ==
    ASSUME NEW c, NEW t, Sound(c, t), NEW v \in Values, Pushed(v),
           end[tail] + 1 = BlockCap, next[tail] # Null,
           tail' = next[tail], next' = next, heap' = heap
    PROVE  Sound(c, t + 1)' /\ t < Len(c)
<1>0. /\ c \in Seq(Blocks) /\ Len(c) \in Nat /\ t \in 1..Len(c) /\ t \in Nat
      /\ tail = c[t]
  BY SoundFacts
<1>1. t < Len(c) /\ tail' = c[t + 1]
  BY <1>0 DEF Sound, Layout
<1>2. t + 1 \in 1..Len(c)
  BY <1>0, <1>1
<1>3. Types'
  BY DEF Sound, Types, Pushed
<1>4. Layout(c, t + 1)'
  BY <1>1, <1>2 DEF Sound, Layout, Pushed
<1>5. Filled'
  BY PushFills DEF Sound, Filled
<1>6. Indices(c, t + 1)'
  <2>1. \A i, j \in 1..Len(c) : c[i] = c[j] => i = j
    BY DEF Sound, Layout
  <2>. QED
    BY <1>0, <1>1, <1>2, <2>1, PushFull
<1>. QED
  BY <1>1, <1>3, <1>4, <1>5, <1>6 DEF Sound

LEMMA PushNew ==
    ASSUME NEW c, NEW t, Sound(c, t), NEW v \in Values, Pushed(v),
           end[tail] + 1 = BlockCap, next[tail] = Null,
           NEW b \in Blocks \ heap,
           heap' = heap \cup {b}, tail' = b,
           next' = [next EXCEPT ![tail] = b]
    PROVE  Sound(Append(c, b), t + 1)' /\ t = Len(c)
<1>. DEFINE d == Append(c, b)
<1>0. /\ c \in Seq(Blocks) /\ Len(c) \in Nat /\ t \in 1..Len(c) /\ t \in Nat
      /\ \A i \in 1..Len(c) : c[i] \in Blocks /\ c[i] \in heap
      /\ tail = c[t] /\ tail \in Blocks /\ tail \in heap
      /\ next \in [Blocks -> Blocks \cup {Null}]
  BY SoundFacts DEF Sound, Types
<1>1. t = Len(c)
  <2>1. t # Len(c) => next[tail] = c[t + 1] /\ t + 1 \in 1..Len(c)
    BY <1>0 DEF Sound, Layout
  <2>2. t # Len(c) => c[t + 1] # Null
    BY <1>0, <2>1, BlockQueueAssumption
  <2>. QED
    BY <2>1, <2>2
<1>2. /\ d \in Seq(Blocks) /\ Len(d) = Len(c) + 1
      /\ \A i \in 1..Len(c) : d[i] = c[i]
      /\ d[Len(c) + 1] = b
  BY <1>0, AppendProperties
<1>. HIDE DEF d
<1>3. \A i \in 1..Len(d) : i \in 1..Len(c) \/ i = Len(c) + 1
  <2>1. Len(c) \in Nat /\ Len(d) = Len(c) + 1
    BY <1>0, <1>2
  <2>. QED
    BY <2>1
<1>4. \A i, j \in 1..Len(d) : d[i] = d[j] => i = j
  <2>1. \A i, j \in 1..Len(c) : c[i] = c[j] => i = j
    BY DEF Sound, Layout
  <2>. QED
    BY <1>0, <1>2, <1>3, <2>1
<1>5. \A a \in Blocks : next'[a] = IF a = tail THEN b ELSE next[a]
  BY <1>0
<1>6. next[b] = Null /\ begin[b] = 0 /\ end[b] = 0 /\ b # tail
  BY <1>0 DEF Sound, Filled
<1>7. IsFiniteSet(heap') /\ Cardinality(heap') = Len(d)
  <2>1. IsFiniteSet(heap) /\ Cardinality(heap) = Len(c) /\ b \notin heap
    BY DEF Sound, Types, Layout
  <2>2. IsFiniteSet(heap \cup {b}) /\ Cardinality(heap \cup {b}) = Cardinality(heap) + 1
    BY <2>1, FS_AddElement
  <2>. QED
    BY <1>2, <2>1, <2>2
<1>8. Types'
  <2>1. next' \in [Blocks -> Blocks \cup {Null}]
    BY <1>0
  <2>2. len' \in Nat
    BY DEF Sound, Types, Pushed
  <2>3. heap' \subseteq Blocks
    BY DEF Sound, Types
  <2>. QED
    BY <1>7, <2>1, <2>2, <2>3 DEF Sound, Types, Pushed
<1>9. Layout(d, t + 1)'
  <2>1. t + 1 \in 1..Len(d) /\ d[t + 1] = tail'
    BY <1>0, <1>1, <1>2
  <2>2. d[1] = head'
    BY <1>0, <1>2 DEF Sound, Layout, Pushed
  <2>3. \A i \in 1..Len(d) : next'[d[i]] = IF i = Len(d) THEN Null ELSE d[i + 1]
    <3>. TAKE i \in 1..Len(d)
    <3>1. CASE i = Len(c) + 1
      BY <1>2, <1>5, <1>6, <3>1
    <3>2. CASE i = Len(c)
      BY <1>0, <1>1, <1>2, <1>5, <3>2
    <3>3. CASE i \in 1..Len(c) /\ i # Len(c)
      <4>1. d[i] = c[i] /\ d[i + 1] = c[i + 1] /\ i # Len(d)
        BY <1>0, <1>2, <3>3
      <4>2. c[i] # tail
        BY <1>0, <1>1, <3>3 DEF Sound, Layout
      <4>3. next[c[i]] = c[i + 1]
        BY <3>3 DEF Sound, Layout
      <4>. QED
        BY <1>0, <1>5, <3>3, <4>1, <4>2, <4>3
    <3>. QED
      BY <1>3, <3>1, <3>2, <3>3
  <2>4. \A a : a \in heap' <=> \E i \in 1..Len(d) : d[i] = a
    <3>1. \A a : a \in heap <=> \E i \in 1..Len(c) : c[i] = a
      BY DEF Sound, Layout
    <3>2. Len(c) + 1 \in 1..Len(d) /\ \A i \in 1..Len(c) : i \in 1..Len(d)
      BY <1>0, <1>2
    <3>. QED
      BY <1>2, <1>3, <3>1, <3>2
  <2>. QED
    BY <1>2, <1>4, <1>7, <2>1, <2>2, <2>3, <2>4 DEF Layout
<1>10. Filled'
  <2>1. \A a \in Blocks \ heap' : next'[a] = Null
    BY <1>0, <1>5 DEF Sound, Filled
  <2>2. heap \subseteq heap'
    OBVIOUS
  <2>. QED
    BY <2>1, <2>2, PushFills
<1>11. Indices(d, t + 1)'
  <2>1. \A i \in 1..Len(d) : \/ i \in 1..Len(c)
                             \/ i > t /\ end[d[i]] = 0 /\ begin[d[i]] = 0
    BY <1>0, <1>1, <1>2, <1>3, <1>6
  <2>2. t + 1 \in 1..Len(d) /\ tail' = d[t + 1]
    BY <1>0, <1>1, <1>2
  <2>3. \A i \in 1..Len(c) : i \in 1..Len(d) /\ d[i] = c[i]
    BY <1>0, <1>2
  <2>. QED
    BY <1>2, <1>4, <2>1, <2>2, <2>3, PushFull
<1>12. Sound(d, t + 1)'
  BY <1>8, <1>9, <1>10, <1>11 DEF Sound
<1>. QED
  BY <1>1, <1>12 DEF d
(***************************************************************************)
(* pop_unchecked: the value at `begin` of the head is taken out.           *)
(***************************************************************************)
LEMMA NotEmpty ==
    ASSUME NEW c, NEW t, Sound(c, t), len > 0
    PROVE  begin[head] < end[head] /\ (begin[head] + 1 >= BlockCap => t > 1)
<1>0. /\ Len(c) \in Nat /\ t \in 1..Len(c) /\ t \in Nat /\ head = c[1] /\ tail = c[t]
      /\ begin[head] \in Nat /\ end[head] \in Nat /\ BlockCap \in Nat
  BY SoundFacts
<1>1. /\ begin[head] < BlockCap /\ end[tail] < BlockCap
      /\ len = (t - 1) * BlockCap + end[tail] - begin[head]
      /\ \A i \in 1..Len(c) : i < t => end[c[i]] = BlockCap
  BY DEF Sound, Indices
<1>2. CASE t = 1
  <2>1. (t - 1) * BlockCap = 0 /\ tail = head
    BY <1>0, <1>2
  <2>2. len = end[head] - begin[head] /\ end[head] < BlockCap
    BY <1>0, <1>1, <2>1
  <2>. QED
    BY <1>0, <2>2
<1>3. CASE t > 1
  <2>1. 1 \in 1..Len(c) /\ end[c[1]] = BlockCap
    BY <1>0, <1>1, <1>3
  <2>. QED
    BY <1>0, <1>1, <1>3, <2>1
<1>. QED
  BY <1>0, <1>2, <1>3

Popped ==
    /\ popped' = cells[head][begin[head]]
    /\ tail' = tail
    /\ heap' = heap
    /\ len' = len - 1
    /\ cells' \in [Blocks -> [0..BlockCap - 1 -> Values \cup {Uninit}]]
    /\ \A b \in Blocks : \A i \in 0..BlockCap - 1 :
          cells'[b][i] = IF b = head /\ i = begin[head] THEN Uninit ELSE cells[b][i]

LEMMA PopEffect ==
    ASSUME NEW c, NEW t, Sound(c, t), Blk!Pop
    PROVE  Popped
<1>0. /\ head \in Blocks /\ begin[head] \in Nat /\ begin[head] < BlockCap
      /\ BlockCap \in Nat
      /\ cells \in [Blocks -> [0..BlockCap - 1 -> Values \cup {Uninit}]]
  BY SoundFacts DEF Sound, Types, Indices
<1>1. begin[head] \in 0..BlockCap - 1
  BY <1>0
<1>2. /\ popped' = cells[head][begin[head]]
      /\ tail' = tail /\ heap' = heap /\ len' = len - 1
      /\ cells' = [cells EXCEPT ![head] = [cells[head] EXCEPT ![begin[head]] = Uninit]]
  BY DEF Blk!Pop
<1>3. [cells[head] EXCEPT ![begin[head]] = Uninit] \in [0..BlockCap - 1 -> Values \cup {Uninit}]
  BY <1>0, <1>1
<1>4. cells' \in [Blocks -> [0..BlockCap - 1 -> Values \cup {Uninit}]]
  BY <1>0, <1>2, <1>3
<1>5. \A b \in Blocks : \A i \in 0..BlockCap - 1 :
         cells'[b][i] = IF b = head /\ i = begin[head] THEN Uninit ELSE cells[b][i]
  BY <1>0, <1>1, <1>2
<1>. QED
  BY <1>2, <1>4, <1>5 DEF Popped

\* There are more cells to read in the head.
LEMMA PopInHead ==
    ASSUME NEW c, NEW t, Sound(c, t), len > 0, Popped,
           begin[head] + 1 < BlockCap,
           begin' = [begin EXCEPT ![head] = @ + 1],
           head' = head, next' = next, end' = end
    PROVE  Sound(c, t)'
<1>0. /\ c \in Seq(Blocks) /\ Len(c) \in Nat /\ t \in 1..Len(c) /\ t \in Nat
      /\ \A i \in 1..Len(c) : c[i] \in Blocks
      /\ head = c[1] /\ tail = c[t] /\ head \in Blocks /\ head \in heap
      /\ begin[head] \in Nat /\ end[head] \in Nat /\ end[tail] \in Nat
      /\ begin \in [Blocks -> Nat] /\ end \in [Blocks -> Nat]
      /\ (t - 1) * BlockCap \in Nat
      /\ BlockCap \in Nat
  BY SoundFacts DEF Sound, Types
<1>1. begin[head] < end[head]
  BY NotEmpty
<1>2. /\ begin' \in [Blocks -> Nat]
      /\ \A b \in Blocks : begin'[b] = IF b = head THEN begin[head] + 1 ELSE begin[b]
  BY <1>0
<1>3. len' = (t - 1) * BlockCap + end[tail] - begin'[head]
  <2>. DEFINE x == (t - 1) * BlockCap
              e == end[tail]
              b == begin[head]
  <2>1. len = x + e - b
    BY DEF Sound, Indices
  <2>2. len' = len - 1 /\ begin'[head] = b + 1
    BY <1>0, <1>2 DEF Popped
  <2>3. x \in Nat /\ e \in Nat /\ b \in Nat
    BY <1>0
  <2>. HIDE DEF x, e, b
  <2>4. len' = x + e - begin'[head]
    BY <2>1, <2>2, <2>3
  <2>. QED
    BY <2>4 DEF x, e
<1>4. Types'
  <2>1. len' \in Nat
    BY DEF Sound, Types, Popped
  <2>. QED
    BY <1>2, <2>1 DEF Sound, Types, Popped
<1>5. Layout(c, t)'
  BY DEF Sound, Layout, Popped
<1>6. Indices(c, t)'
  <2>1. \A i \in 1..Len(c) : i > 1 => c[i] # head
    <3>1. 1 \in 1..Len(c)
      BY <1>0
    <3>. QED
      BY <1>0, <3>1 DEF Sound, Layout
  <2>2. \A i \in 1..Len(c) : i > 1 => begin'[c[i]] = 0
    BY <1>0, <1>2, <2>1 DEF Sound, Indices
  <2>3. begin'[head] = begin[head] + 1 /\ begin'[head] < BlockCap /\ begin'[head] <= end[head]
    BY <1>0, <1>1, <1>2
  <2>4. tail' = tail
    BY DEF Popped
  <2>. QED
    BY <1>3, <2>2, <2>3, <2>4 DEF Sound, Indices
<1>7. Filled'
  <2>1. ASSUME NEW b \in Blocks, NEW i \in 0..BlockCap - 1
        PROVE  IF begin'[b] <= i /\ i < end'[b] THEN cells'[b][i] \in Values
                                                ELSE cells'[b][i] = Uninit
    <3>0. /\ i \in Nat
          /\ IF begin[b] <= i /\ i < end[b] THEN cells[b][i] \in Values
                                            ELSE cells[b][i] = Uninit
      BY <1>0 DEF Sound, Filled
    <3>1. CASE b # head
      <4>1. begin'[b] = begin[b] /\ cells'[b][i] = cells[b][i]
        BY <1>2, <3>1 DEF Popped
      <4>. QED
        BY <3>0, <4>1
    <3>2. CASE b = head /\ i = begin[head]
      <4>1. begin'[b] = begin[b] + 1 /\ cells'[b][i] = Uninit
        BY <1>2, <3>2 DEF Popped
      <4>. QED
        BY <1>0, <3>0, <3>2, <4>1
    <3>3. CASE b = head /\ i # begin[head]
      <4>1. begin'[b] = begin[b] + 1 /\ cells'[b][i] = cells[b][i]
        BY <1>2, <3>3 DEF Popped
      <4>2. begin[b] + 1 <= i <=> begin[b] <= i
        BY <1>0, <3>0, <3>3
      <4>. QED
        BY <3>0, <4>1, <4>2
    <3>. QED
      BY <3>1, <3>2, <3>3
  <2>2. ASSUME NEW b \in Blocks \ heap'
        PROVE  next'[b] = Null /\ begin'[b] = 0 /\ end'[b] = 0
    <3>1. b \in Blocks \ heap /\ b # head
      BY <1>0 DEF Popped
    <3>. QED
      BY <1>2, <3>1 DEF Sound, Filled
  <2>. QED
    BY <2>1, <2>2 DEF Filled
<1>. QED
  BY <1>4, <1>5, <1>6, <1>7 DEF Sound

\* The head has been read to its end: it goes behind the tail, which comes one
\* place nearer to the head.
Rotated(c, t) ==
    [i \in 1..Len(c) |-> IF i < t THEN c[i + 1] ELSE IF i = t THEN c[1] ELSE c[i]]

LEMMA RotatedFacts ==
    ASSUME NEW c, NEW t, Sound(c, t), t > 1
    PROVE  /\ Rotated(c, t) \in Seq(Blocks)
           /\ Len(Rotated(c, t)) = Len(c)
           /\ \A i \in 1..Len(c) :
                 /\ i < t => Rotated(c, t)[i] = c[i + 1] /\ i + 1 \in 1..Len(c)
                 /\ i = t => Rotated(c, t)[i] = c[1]
                 /\ i > t => Rotated(c, t)[i] = c[i]
           /\ \A i, j \in 1..Len(c) : Rotated(c, t)[i] = Rotated(c, t)[j] => i = j
           /\ \A b : b \in heap <=> \E i \in 1..Len(c) : Rotated(c, t)[i] = b
<1>. DEFINE d == Rotated(c, t)
            n == Len(c)
<1>0. /\ n \in Nat /\ t \in Nat /\ t <= n /\ 1 \in 1..n
      /\ \A i \in 1..n : c[i] \in Blocks
      /\ \A i, j \in 1..n : c[i] = c[j] => i = j
      /\ \A b : b \in heap <=> \E i \in 1..n : c[i] = b
  <2>1. n \in Nat /\ t \in Nat /\ t \in 1..n /\ \A i \in 1..n : c[i] \in Blocks
    BY SoundFacts
  <2>. QED
    BY <2>1 DEF Sound, Layout
<1>1. \A i \in 1..n : d[i] = IF i < t THEN c[i + 1] ELSE IF i = t THEN c[1] ELSE c[i]
  BY DEF Rotated
<1>2. d \in [1..n -> Blocks]
  BY <1>0 DEF Rotated
<1>3. d \in Seq(Blocks) /\ Len(d) = n
  BY <1>0, <1>2
<1>. HIDE DEF d, n
<1>4. \A i \in 1..n : i < t => i + 1 \in 1..n
  BY <1>0
<1>5. \A i \in 1..n : /\ i < t => d[i] = c[i + 1]
                      /\ i = t => d[i] = c[1]
                      /\ i > t => d[i] = c[i]
  BY <1>0, <1>1
<1>6. \A i, j \in 1..n : d[i] = d[j] => i = j
  <2>. SUFFICES ASSUME NEW i \in 1..n, NEW j \in 1..n, d[i] = d[j] PROVE i = j
    OBVIOUS
  <2>. DEFINE From(k) == IF k < t THEN k + 1 ELSE IF k = t THEN 1 ELSE k
  <2>1. From(i) \in 1..n /\ From(j) \in 1..n
    BY <1>0, <1>4
  <2>2. c[From(i)] = c[From(j)]
    BY <1>1
  <2>. HIDE DEF From
  <2>3. From(i) = From(j)
    BY <1>0, <2>1, <2>2
  <2>. QED
    BY <1>0, <2>3 DEF From
<1>7. \A b : b \in heap <=> \E i \in 1..n : d[i] = b
  <2>1. ASSUME NEW i \in 1..n PROVE \E j \in 1..n : d[i] = c[j]
    BY <1>0, <1>1, <1>4
  <2>2. ASSUME NEW j \in 1..n PROVE \E i \in 1..n : d[i] = c[j]
    <3>1. CASE j = 1
      BY <1>0, <1>5, <3>1
    <3>2. CASE j > 1 /\ j <= t
      <4>1. j - 1 \in 1..n /\ j - 1 < t /\ (j - 1) + 1 = j
        BY <1>0, <3>2
      <4>. QED
        BY <1>5, <4>1
    <3>3. CASE j > t
      BY <1>5, <3>3
    <3>4. j \in Nat /\ j >= 1
      BY <1>0
    <3>. QED
      BY <1>0, <3>1, <3>2, <3>3, <3>4
  <2>3. ASSUME NEW b, b \in heap PROVE \E i \in 1..n : d[i] = b
    BY <1>0, <2>2, <2>3
  <2>4. ASSUME NEW i \in 1..n PROVE d[i] \in heap
    BY <1>0, <2>1
  <2>. QED
    BY <2>3, <2>4
<1>. QED
  BY <1>3, <1>4, <1>5, <1>6, <1>7 DEF d, n

LEMMA PopOver ==
    ASSUME NEW c, NEW t, Sound(c, t), len > 0, Popped,
           begin[head] + 1 >= BlockCap,
           head' = next[head],
           begin' = [begin EXCEPT ![head] = 0],
           end' = [end EXCEPT ![head] = 0],
           next' = [next EXCEPT ![head] = next[tail], ![tail] = head]
    PROVE  Sound(Rotated(c, t), t - 1)' /\ t > 1
<1>. DEFINE d == Rotated(c, t)
            n == Len(c)
<1>0. /\ n \in Nat /\ t \in 1..n /\ t \in Nat /\ t > 1 /\ 1 \in 1..n /\ 2 \in 1..n
      /\ \A i \in 1..n : c[i] \in Blocks /\ c[i] \in heap
      /\ head = c[1] /\ tail = c[t] /\ head \in Blocks /\ tail \in Blocks
      /\ head \in heap
      /\ begin[head] \in Nat /\ end[head] \in Nat /\ end[tail] \in Nat
      /\ BlockCap \in Nat /\ begin[head] + 1 = BlockCap
  <2>1. /\ n \in Nat /\ t \in 1..n /\ t \in Nat
        /\ \A i \in 1..n : c[i] \in Blocks /\ c[i] \in heap
        /\ head = c[1] /\ tail = c[t] /\ head \in Blocks /\ tail \in Blocks
        /\ head \in heap
        /\ begin[head] \in Nat /\ end[head] \in Nat /\ end[tail] \in Nat
        /\ BlockCap \in Nat
    BY SoundFacts
  <2>2. t > 1
    BY NotEmpty
  <2>3. begin[head] < BlockCap
    BY DEF Sound, Indices
  <2>. QED
    BY <2>1, <2>2, <2>3
<1>1. /\ d \in Seq(Blocks) /\ Len(d) = n
      /\ \A i \in 1..n : /\ i < t => d[i] = c[i + 1] /\ i + 1 \in 1..n
                         /\ i = t => d[i] = c[1]
                         /\ i > t => d[i] = c[i]
      /\ \A i, j \in 1..n : d[i] = d[j] => i = j
      /\ \A b : b \in heap <=> \E i \in 1..n : d[i] = b
  BY <1>0, RotatedFacts
<1>. HIDE DEF d
<1>2. /\ \A i, j \in 1..n : c[i] = c[j] => i = j
      /\ \A i \in 1..n : next[c[i]] = IF i = n THEN Null ELSE c[i + 1]
      /\ Cardinality(heap) = n
  BY DEF Sound, Layout
<1>. HIDE DEF n
<1>3. head # tail
  BY <1>0, <1>2
<1>4. /\ \A b \in Blocks : next'[b] = IF b = tail THEN head
                                      ELSE IF b = head THEN next[tail] ELSE next[b]
      /\ \A b \in Blocks : begin'[b] = IF b = head THEN 0 ELSE begin[b]
      /\ \A b \in Blocks : end'[b] = IF b = head THEN 0 ELSE end[b]
  BY <1>0, <1>3 DEF Sound, Types
<1>5. tail' = tail /\ heap' = heap
  BY DEF Popped
<1>6. len' = ((t - 1) - 1) * BlockCap + end[tail] /\ len' \in Nat
  <2>. DEFINE x == (t - 1) * BlockCap
              y == ((t - 1) - 1) * BlockCap
              e == end[tail]
              b == begin[head]
  <2>1. x = y + BlockCap /\ x \in Int /\ y \in Int
    BY <1>0
  <2>2. len = x + e - b /\ len \in Nat
    BY DEF Sound, Indices, Types
  <2>3. len' = len - 1
    BY DEF Popped
  <2>4. e \in Nat /\ b \in Nat /\ b + 1 = BlockCap
    BY <1>0
  <2>. HIDE DEF x, y, e, b
  <2>5. len' = y + e /\ len' \in Nat
    BY <2>1, <2>2, <2>3, <2>4
  <2>. QED
    BY <2>5 DEF y, e
<1>7. Types'
  <2>1. next \in [Blocks -> Blocks \cup {Null}] /\ next[tail] \in Blocks \cup {Null}
    BY <1>0 DEF Sound, Types
  <2>2. next' \in [Blocks -> Blocks \cup {Null}]
    BY <1>0, <2>1
  <2>3. begin' \in [Blocks -> Nat] /\ end' \in [Blocks -> Nat]
    BY DEF Sound, Types
  <2>. QED
    BY <1>6, <2>2, <2>3 DEF Sound, Types, Popped
<1>8. /\ head' = d[1] /\ tail' = d[t - 1] /\ t - 1 \in 1..n
  <2>1. 1 # n /\ next[c[1]] = c[1 + 1] /\ 1 < t
    BY <1>0, <1>2
  <2>2. head' = c[1 + 1] /\ d[1] = c[1 + 1]
    BY <1>0, <1>1, <2>1
  <2>3. t - 1 \in 1..n /\ t - 1 < t /\ (t - 1) + 1 = t
    BY <1>0
  <2>4. d[t - 1] = c[t]
    BY <1>1, <2>3
  <2>. QED
    BY <1>0, <1>5, <2>2, <2>3, <2>4
<1>9. \A i \in 1..n : next'[d[i]] = IF i = n THEN Null ELSE d[i + 1]
  <2>. TAKE i \in 1..n
  <2>0. i \in Nat /\ (i # n => i + 1 \in 1..n)
    BY <1>0
  <2>1. CASE i < t - 1
    <3>1. /\ d[i] = c[i + 1] /\ i + 1 \in 1..n /\ i + 1 < t /\ i + 1 # n /\ i # n
          /\ i + 1 # 1 /\ i + 1 # t
      BY <1>0, <1>1, <2>0, <2>1
    <3>2. d[i + 1] = c[(i + 1) + 1]
      BY <1>1, <3>1
    <3>3. c[i + 1] # head /\ c[i + 1] # tail /\ c[i + 1] \in Blocks
      BY <1>0, <1>2, <3>1
    <3>4. next'[c[i + 1]] = c[(i + 1) + 1]
      BY <1>2, <1>4, <3>1, <3>3
    <3>. QED
      BY <3>1, <3>2, <3>4
  <2>2. CASE i = t - 1
    <3>1. i < t /\ i + 1 = t /\ i # n
      BY <1>0, <2>0, <2>2
    <3>2. d[i] = tail /\ d[i + 1] = head
      BY <1>0, <1>1, <3>1
    <3>3. next'[tail] = head
      BY <1>0, <1>4
    <3>. QED
      BY <3>1, <3>2, <3>3
  <2>3. CASE i = t
    <3>1. d[i] = head
      BY <1>0, <1>1, <2>3
    <3>5. next'[head] = next[tail]
      BY <1>0, <1>3, <1>4
    <3>2. next[tail] = IF i = n THEN Null ELSE c[i + 1]
      BY <1>0, <1>2, <2>3
    <3>3. i # n => d[i + 1] = c[i + 1]
      <4>1. i + 1 > t
        BY <1>0, <2>0, <2>3
      <4>. QED
        BY <1>1, <2>0, <4>1
    <3>. QED
      BY <3>1, <3>2, <3>3, <3>5
  <2>4. CASE i > t
    <3>1. d[i] = c[i] /\ i # 1 /\ i # t
      BY <1>0, <1>1, <2>0, <2>4
    <3>2. c[i] # head /\ c[i] # tail /\ c[i] \in Blocks
      BY <1>0, <1>2, <3>1
    <3>3. next'[c[i]] = next[c[i]]
      BY <1>4, <3>2
    <3>4. i # n => d[i + 1] = c[i + 1]
      <4>1. i + 1 > t
        BY <1>0, <2>0, <2>4
      <4>. QED
        BY <1>1, <2>0, <4>1
    <3>. QED
      BY <1>2, <3>1, <3>3, <3>4
  <2>5. i < t - 1 \/ i = t - 1 \/ i = t \/ i > t
    BY <1>0, <2>0
  <2>. QED
    BY <2>1, <2>2, <2>3, <2>4, <2>5
<1>10. Layout(d, t - 1)'
  <2>1. d \in Seq(Blocks) /\ t - 1 \in 1..Len(d) /\ d[1] = head' /\ d[t - 1] = tail'
    BY <1>1, <1>8
  <2>2. \A i, j \in 1..Len(d) : d[i] = d[j] => i = j
    BY <1>1
  <2>3. \A i \in 1..Len(d) : next'[d[i]] = IF i = Len(d) THEN Null ELSE d[i + 1]
    BY <1>1, <1>9
  <2>4. \A b : b \in heap' <=> \E i \in 1..Len(d) : d[i] = b
    BY <1>1, <1>5
  <2>5. Cardinality(heap') = Len(d)
    BY <1>1, <1>2, <1>5
  <2>. QED
    BY <2>1, <2>2, <2>3, <2>4, <2>5 DEF Layout
<1>11. Indices(d, t - 1)'
  <2>1. \A i \in 1..n : /\ i < t => end[c[i]] = BlockCap
                        /\ i > t => end[c[i]] = 0
                        /\ i > 1 => begin[c[i]] = 0
    BY DEF Sound, Indices, n
  <2>2. \A i \in 1..n : i # 1 => c[i] # head
    BY <1>0, <1>2
  <2>3. ASSUME NEW i \in 1..n
        PROVE  /\ i < t - 1 => end'[d[i]] = BlockCap
               /\ i > t - 1 => end'[d[i]] = 0
               /\ begin'[d[i]] = 0
    <3>0. i \in Nat
      BY <1>0
    <3>1. CASE i < t
      <4>1. d[i] = c[i + 1] /\ i + 1 \in 1..n /\ i + 1 # 1 /\ i + 1 > 1
        BY <1>0, <1>1, <3>0, <3>1
      <4>2. c[i + 1] # head /\ c[i + 1] \in Blocks
        BY <1>0, <2>2, <4>1
      <4>3. end'[c[i + 1]] = end[c[i + 1]] /\ begin'[c[i + 1]] = 0
        BY <1>4, <2>1, <4>1, <4>2
      <4>4. (i < t - 1 => i + 1 < t) /\ ~(i > t - 1)
        BY <1>0, <3>0, <3>1
      <4>. QED
        BY <2>1, <4>1, <4>3, <4>4
    <3>2. CASE i = t
      <4>1. d[i] = head /\ ~(i < t - 1)
        BY <1>0, <1>1, <3>2
      <4>. QED
        BY <1>0, <1>4, <4>1
    <3>3. CASE i > t
      <4>1. d[i] = c[i] /\ i # 1 /\ i > 1 /\ ~(i < t - 1)
        BY <1>0, <1>1, <3>0, <3>3
      <4>2. c[i] # head /\ c[i] \in Blocks
        BY <1>0, <2>2, <4>1
      <4>. QED
        BY <1>4, <2>1, <3>3, <4>1, <4>2
    <3>. QED
      BY <1>0, <3>0, <3>1, <3>2, <3>3
  <2>4. end'[tail'] = end[tail] /\ end[tail] < BlockCap
    BY <1>0, <1>3, <1>4, <1>5 DEF Sound, Indices
  <2>5. begin'[head'] = 0
    BY <1>0, <1>8, <2>3
  <2>6. end'[head'] \in Nat
    <3>1. head' \in Blocks
      BY <1>0, <1>1, <1>8
    <3>. QED
      BY <1>7, <3>1 DEF Types
  <2>7. len' = ((t - 1) - 1) * BlockCap + end'[tail'] - begin'[head']
    <3>. DEFINE y == ((t - 1) - 1) * BlockCap
    <3>1. y \in Int /\ end[tail] \in Int
      BY <1>0
    <3>. HIDE DEF y
    <3>2. y + end[tail] = y + end[tail] - 0
      BY <3>1
    <3>. QED
      BY <1>6, <2>4, <2>5, <3>2 DEF y
  <2>8. begin'[head'] < BlockCap /\ begin'[head'] <= end'[head']
    BY <1>0, <2>5, <2>6
  <2>. QED
    BY <1>1, <2>3, <2>4, <2>7, <2>8 DEF Indices
<1>12. Filled'
  <2>1. ASSUME NEW b \in Blocks, NEW i \in 0..BlockCap - 1
        PROVE  IF begin'[b] <= i /\ i < end'[b] THEN cells'[b][i] \in Values
                                                ELSE cells'[b][i] = Uninit
    <3>0. /\ i \in Nat
          /\ IF begin[b] <= i /\ i < end[b] THEN cells[b][i] \in Values
                                            ELSE cells[b][i] = Uninit
      BY <1>0 DEF Sound, Filled
    <3>1. CASE b # head
      <4>1. begin'[b] = begin[b] /\ end'[b] = end[b] /\ cells'[b][i] = cells[b][i]
        BY <1>4, <3>1 DEF Popped
      <4>. QED
        BY <3>0, <4>1
    <3>2. CASE b = head
      <4>1. end'[b] = 0
        BY <1>4, <3>2
      <4>2. i # begin[head] => ~(begin[head] <= i)
        BY <1>0, <3>0
      <4>3. cells'[b][i] = Uninit
        BY <3>0, <3>2, <4>2 DEF Popped
      <4>. QED
        BY <3>0, <4>1, <4>3
    <3>. QED
      BY <3>1, <3>2
  <2>2. ASSUME NEW b \in Blocks \ heap'
        PROVE  next'[b] = Null /\ begin'[b] = 0 /\ end'[b] = 0
    <3>1. b \in Blocks \ heap /\ b # head /\ b # tail
      BY <1>0, <1>5
    <3>. QED
      BY <1>4, <3>1 DEF Sound, Filled
  <2>. QED
    BY <2>1, <2>2 DEF Filled
<1>13. Sound(d, t - 1)'
  BY <1>7, <1>10, <1>11, <1>12 DEF Sound
<1>. QED
  BY <1>0, <1>13 DEF d
-----------------------------------------------------------------------------
(***************************************************************************)
(* What is stored: the values between the indices, in the order of the     *)
(* chain.  The i-th of them is at cell j of the k-th block when            *)
(* begin[head] + i - 1 = (k - 1) * BlockCap + j.                           *)
(***************************************************************************)
LEMMA StoredIs ==
    ASSUME NEW c, NEW t, Sound(c, t)
    PROVE  Blk!Stored = [i \in 1..len |->
                 cells[c[(begin[head] + i - 1) \div BlockCap + 1]]
                      [(begin[head] + i - 1) % BlockCap]]
<1>1. head # Null
  BY SoundFacts, BlockQueueAssumption
<1>2. Blk!Chain = c
  BY ChainIs DEF Sound
<1>. QED
  BY <1>1, <1>2 DEF Blk!Stored

LEMMA StoredAt ==
    ASSUME NEW c, NEW t, Sound(c, t),
           NEW i \in 1..len, NEW k \in Nat \ {0}, NEW j \in 0..BlockCap - 1,
           begin[head] + i - 1 = (k - 1) * BlockCap + j
    PROVE  Blk!Stored[i] = cells[c[k]][j]
<1>1. BlockCap \in Nat \ {0}
  BY BlockQueueAssumption
<1>2. k - 1 \in Nat
  OBVIOUS
<1>3. /\ ((k - 1) * BlockCap + j) \div BlockCap = k - 1
      /\ ((k - 1) * BlockCap + j) % BlockCap = j
  BY <1>1, <1>2, PlaceAt
<1>. DEFINE a == begin[head] + i - 1
<1>4. Blk!Stored[i] = cells[c[a \div BlockCap + 1]][a % BlockCap]
  BY StoredIs
<1>5. a \div BlockCap = k - 1 /\ a % BlockCap = j
  BY <1>3
<1>. HIDE DEF a
<1>6. (k - 1) + 1 = k
  OBVIOUS
<1>. QED
  BY <1>4, <1>5, <1>6

LEMMA Place ==
    ASSUME NEW c, NEW t, Sound(c, t), NEW i \in 1..len
    PROVE  \E k \in 1..t : \E j \in 0..BlockCap - 1 :
              /\ begin[head] + i - 1 = (k - 1) * BlockCap + j
              /\ k = t => j < end[tail]
              /\ k = 1 => j = begin[head] + i - 1
<1>0. /\ BlockCap \in Nat \ {0} /\ begin[head] \in Nat /\ end[tail] \in Nat
      /\ t \in Nat /\ len \in Nat /\ (t - 1) * BlockCap \in Nat
      /\ end[tail] < BlockCap
      /\ len = (t - 1) * BlockCap + end[tail] - begin[head]
  BY SoundFacts, BlockQueueAssumption DEF Sound, Types, Indices
<1>. DEFINE a == begin[head] + i - 1
            q == a \div BlockCap
            j == a % BlockCap
            x == (t - 1) * BlockCap
<1>1. a \in Nat /\ a < x + end[tail] /\ x \in Nat
  <2>1. i \in Nat /\ i >= 1 /\ i <= len
    BY <1>0
  <2>. DEFINE e == end[tail]
              b == begin[head]
  <2>2. e \in Nat /\ b \in Nat /\ x \in Nat /\ len = x + e - b /\ len \in Nat
    BY <1>0
  <2>. HIDE DEF e, b, x
  <2>3. b + i - 1 \in Nat /\ b + i - 1 < x + e
    BY <2>1, <2>2
  <2>. QED
    BY <2>2, <2>3 DEF e, b
<1>. HIDE DEF a
<1>2. q \in Nat /\ j \in 0..BlockCap - 1 /\ a = q * BlockCap + j
  BY <1>0, <1>1, PlaceOf
<1>. HIDE DEF q, j
<1>3. q <= t - 1
  <2>1. SUFFICES ASSUME t - 1 < q PROVE FALSE
    BY <1>0, <1>2
  <2>2. end[tail] \in 0..BlockCap - 1
    BY <1>0
  <2>3. t - 1 \in Int /\ j \in Nat /\ q \in Int
    BY <1>0, <1>2
  <2>4. (t - 1) * BlockCap + end[tail] < q * BlockCap + j
    BY <1>0, <2>1, <2>2, <2>3, EarlierBlock
  <2>5. x + end[tail] < a
    BY <1>2, <2>4
  <2>. HIDE DEF x
  <2>. QED
    BY <1>0, <1>1, <2>5
<1>. DEFINE k == q + 1
<1>4. k \in 1..t /\ k - 1 = q /\ k \in Nat
  BY <1>0, <1>2, <1>3
<1>5. a = (k - 1) * BlockCap + j
  BY <1>2, <1>4
<1>. HIDE DEF k
<1>6. k = t => j < end[tail]
  <2>. SUFFICES ASSUME k = t PROVE j < end[tail]
    OBVIOUS
  <2>1. a = x + j
    BY <1>5
  <2>2. j \in Nat
    BY <1>0, <1>2
  <2>. HIDE DEF x
  <2>. QED
    BY <1>0, <1>1, <2>1, <2>2
<1>7. k = 1 => j = a
  <2>. SUFFICES ASSUME k = 1 PROVE j = a
    OBVIOUS
  <2>1. (k - 1) * BlockCap = 0
    BY <1>0
  <2>2. j \in Nat
    BY <1>0, <1>2
  <2>. QED
    BY <1>5, <2>1, <2>2
<1>. QED
  BY <1>2, <1>4, <1>5, <1>6, <1>7 DEF a

\* What sound blocks tell the users of the queue.
Reads(c, t) ==
    /\ Blk!Stored \in Seq(Values)
    /\ Len(Blk!Stored) = len
    /\ \A i \in 1..len : \A k \in Nat \ {0} : \A j \in 0..BlockCap - 1 :
          begin[head] + i - 1 = (k - 1) * BlockCap + j
             => Blk!Stored[i] = cells[c[k]][j]

LEMMA SoundReads ==
    \A c \in Seq(Blocks) : \A t \in Nat : Sound(c, t) => Reads(c, t)
<1>. SUFFICES ASSUME NEW c \in Seq(Blocks), NEW t \in Nat, Sound(c, t)
              PROVE  Reads(c, t)
  OBVIOUS
<1>. DEFINE s == Blk!Stored
<1>0. len \in Nat
  BY DEF Sound, Types
<1>1. \A i \in 1..len : \A k \in Nat \ {0} : \A j \in 0..BlockCap - 1 :
         begin[head] + i - 1 = (k - 1) * BlockCap + j => s[i] = cells[c[k]][j]
  BY StoredAt
<1>2. DOMAIN s = 1..len /\ s = [i \in 1..len |-> s[i]]
  BY StoredIs
<1>. HIDE DEF s
<1>3. ASSUME NEW i \in 1..len PROVE s[i] \in Values
  <2>1. \E k \in 1..t : \E j \in 0..BlockCap - 1 :
           /\ begin[head] + i - 1 = (k - 1) * BlockCap + j
           /\ k = t => j < end[tail]
           /\ k = 1 => j = begin[head] + i - 1
    BY Place
  <2>2. PICK k \in 1..t : \E j \in 0..BlockCap - 1 :
           /\ begin[head] + i - 1 = (k - 1) * BlockCap + j
           /\ k = t => j < end[tail]
           /\ k = 1 => j = begin[head] + i - 1
    BY <2>1
  <2>3. PICK j \in 0..BlockCap - 1 :
           /\ begin[head] + i - 1 = (k - 1) * BlockCap + j
           /\ k = t => j < end[tail]
           /\ k = 1 => j = begin[head] + i - 1
    BY <2>2
  <2>4. s[i] = cells[c[k]][j]
    BY <1>1, <2>3
  <2>5. /\ k \in 1..Len(c) /\ c[k] \in Blocks /\ k \in Nat /\ j \in Nat /\ j < BlockCap
        /\ head = c[1] /\ tail = c[t] /\ begin[head] \in Nat /\ i \in Nat /\ i >= 1
    <3>1. /\ t \in 1..Len(c) /\ Len(c) \in Nat /\ \A m \in 1..Len(c) : c[m] \in Blocks
          /\ head = c[1] /\ tail = c[t] /\ begin[head] \in Nat /\ BlockCap \in Nat
      BY SoundFacts
    <3>. QED
      BY <1>0, <3>1
  <2>6. begin[c[k]] <= j
    <3>1. CASE k = 1
      BY <2>3, <2>5, <3>1
    <3>2. CASE k > 1
      <4>1. begin[c[k]] = 0
        BY <2>5, <3>2 DEF Sound, Indices
      <4>. QED
        BY <2>5, <4>1
    <3>. QED
      BY <2>5, <3>1, <3>2
  <2>7. j < end[c[k]]
    <3>1. CASE k = t
      BY <2>3, <2>5, <3>1
    <3>2. CASE k < t
      <4>1. end[c[k]] = BlockCap
        BY <2>5, <3>2 DEF Sound, Indices
      <4>. QED
        BY <2>5, <4>1
    <3>. QED
      BY <2>5, <3>1, <3>2
  <2>. QED
    BY <2>4, <2>5, <2>6, <2>7 DEF Sound, Filled
<1>4. s \in [1..len -> Values]
  BY <1>2, <1>3
<1>5. s \in Seq(Values) /\ Len(s) = len
  BY <1>0, <1>4
<1>. QED
  BY <1>1, <1>5 DEF Reads, s

LEMMA SoundReadsNext ==
    (\A c \in Seq(Blocks) : \A t \in Nat : Sound(c, t) => Reads(c, t))'
  BY SoundReads, PTL

LEMMA NextReads ==
    ASSUME NEW c, NEW t, Sound(c, t)' PROVE Reads(c, t)'
<1>1. c \in Seq(Blocks) /\ t \in Nat
  <2>1. c \in Seq(Blocks) /\ t \in 1..Len(c)
    BY DEF Sound, Layout
  <2>. QED
    BY <2>1
<1>. QED
  BY <1>1, SoundReadsNext

LEMMA ThisReads ==
    ASSUME NEW c, NEW t, Sound(c, t) PROVE Reads(c, t)
<1>1. c \in Seq(Blocks) /\ t \in Nat
  <2>1. c \in Seq(Blocks) /\ t \in 1..Len(c)
    BY DEF Sound, Layout
  <2>. QED
    BY <2>1
<1>. QED
  BY <1>1, SoundReads

\* A push appends its value.
LEMMA PushStored ==
    ASSUME NEW c, NEW t, Sound(c, t), NEW v \in Values, Pushed(v),
           NEW d, NEW u, Sound(d, u)',
           \A i \in 1..Len(c) : d[i] = c[i]
    PROVE  Blk!Stored' = Append(Blk!Stored, v)
<1>. DEFINE s == Blk!Stored
            z == Blk!Stored'
<1>0. /\ t \in 1..Len(c) /\ Len(c) \in Nat /\ t \in Nat /\ c[t] = tail /\ head \in Blocks
      /\ \A i \in 1..Len(c) : c[i] \in Blocks
      /\ begin[head] \in Nat /\ end[tail] \in Nat /\ end[tail] < BlockCap
      /\ BlockCap \in Nat
      /\ \A i, j \in 1..Len(c) : c[i] = c[j] => i = j
      /\ (t - 1) * BlockCap \in Nat
      /\ len = (t - 1) * BlockCap + end[tail] - begin[head]
      /\ len \in Nat
  <2>1. /\ t \in 1..Len(c) /\ Len(c) \in Nat /\ t \in Nat /\ c[t] = tail /\ head \in Blocks
        /\ \A i \in 1..Len(c) : c[i] \in Blocks
        /\ begin[head] \in Nat /\ end[tail] \in Nat
        /\ BlockCap \in Nat
        /\ (t - 1) * BlockCap \in Nat
    BY SoundFacts
  <2>. QED
    BY <2>1 DEF Sound, Types, Layout, Indices
<1>1. s \in Seq(Values) /\ Len(s) = len
  BY ThisReads DEF Reads
<1>2. z \in Seq(Values) /\ Len(z) = len + 1
  BY NextReads DEF Reads, Pushed
<1>3. \A i \in 1..len+1 : \A k \in Nat \ {0} : \A j \in 0..BlockCap - 1 :
         begin[head] + i - 1 = (k - 1) * BlockCap + j => z[i] = cells'[d[k]][j]
  <2>1. len' = len + 1 /\ begin'[head'] = begin[head]
    BY DEF Pushed
  <2>. QED
    BY <2>1, NextReads DEF Reads
<1>4. \A i \in 1..len : \A k \in Nat \ {0} : \A j \in 0..BlockCap - 1 :
         begin[head] + i - 1 = (k - 1) * BlockCap + j => s[i] = cells[c[k]][j]
  BY ThisReads DEF Reads
<1>. HIDE DEF s, z
<1>5. ASSUME NEW i \in 1..len PROVE z[i] = s[i]
  <2>1. \E k \in 1..t : \E j \in 0..BlockCap - 1 :
           /\ begin[head] + i - 1 = (k - 1) * BlockCap + j
           /\ k = t => j < end[tail]
    BY Place
  <2>2. PICK k \in 1..t : \E j \in 0..BlockCap - 1 :
           /\ begin[head] + i - 1 = (k - 1) * BlockCap + j
           /\ k = t => j < end[tail]
    BY <2>1
  <2>3. PICK j \in 0..BlockCap - 1 :
           /\ begin[head] + i - 1 = (k - 1) * BlockCap + j
           /\ k = t => j < end[tail]
    BY <2>2
  <2>4. k \in Nat \ {0} /\ i \in 1..len+1 /\ k \in 1..Len(c) /\ j \in Nat
    BY <1>0
  <2>5. z[i] = cells'[d[k]][j] /\ s[i] = cells[c[k]][j]
    BY <1>3, <1>4, <2>3, <2>4
  <2>6. d[k] = c[k] /\ c[k] \in Blocks
    BY <1>0, <2>4
  <2>7. ~(c[k] = tail /\ j = end[tail])
    <3>1. c[k] = tail => k = t
      <4>1. c[t] = tail /\ \A m, n \in 1..Len(c) : c[m] = c[n] => m = n
        BY <1>0
      <4>2. t \in 1..Len(c) /\ k \in 1..Len(c)
        BY <1>0, <2>4
      <4>. QED
        BY <4>1, <4>2
    <3>2. k = t => j < end[tail]
      BY <2>3
    <3>3. j < end[tail] => j # end[tail]
      <4>. DEFINE e == end[tail]
      <4>1. e \in Nat
        BY <1>0
      <4>. HIDE DEF e
      <4>2. j < e => j # e
        BY <4>1, <2>4
      <4>. QED
        BY <4>2 DEF e
    <3>. QED
      BY <3>1, <3>2, <3>3
  <2>8. cells'[c[k]][j] = cells[c[k]][j]
    BY <2>6, <2>7 DEF Pushed
  <2>. QED
    BY <2>5, <2>6, <2>8
<1>6. z[len + 1] = v
  <2>. DEFINE x == (t - 1) * BlockCap
              e == end[tail]
              b == begin[head]
  <2>1. len = x + e - b /\ x \in Nat /\ e \in Nat /\ b \in Nat /\ len \in Nat
    BY <1>0
  <2>. HIDE DEF x, e, b
  <2>2. b + (len + 1) - 1 = x + e
    BY <2>1
  <2>3. begin[head] + (len + 1) - 1 = (t - 1) * BlockCap + end[tail]
    BY <2>2 DEF x, e, b
  <2>4. t \in Nat \ {0} /\ len + 1 \in 1..len+1 /\ end[tail] \in 0..BlockCap - 1
    BY <1>0
  <2>5. z[len + 1] = cells'[d[t]][end[tail]]
    BY <1>3, <2>3, <2>4
  <2>6. d[t] = tail /\ tail \in Blocks
    BY <1>0
  <2>7. cells'[tail][end[tail]] = v
    BY <2>4, <2>6 DEF Pushed
  <2>. QED
    BY <2>5, <2>6, <2>7
<1>. DEFINE a == Append(s, v)
<1>7. /\ a \in Seq(Values) /\ Len(a) = len + 1 /\ a[len + 1] = v
      /\ \A i \in 1..len : a[i] = s[i]
  BY <1>1, AppendProperties
<1>. HIDE DEF a
<1>8. \A i \in 1..len+1 : z[i] = a[i]
  <2>1. \A i \in 1..len+1 : i \in 1..len \/ i = len + 1
    BY <1>0
  <2>. QED
    BY <1>5, <1>6, <1>7, <2>1
<1>9. z = a
  BY <1>2, <1>7, <1>8, SeqEqual
<1>. QED
  BY <1>9 DEF s, z, a

\* A pop returns the first value and leaves the others, each of which is where it
\* was, at a place of the chain that may have a new number.
LEMMA PopStored ==
    ASSUME NEW c, NEW t, Sound(c, t), len > 0, Popped,
           NEW d, NEW u, Sound(d, u)',
           \A i \in 1..len-1 : \A k \in 1..t : \A j \in 0..BlockCap - 1 :
              begin[head] + (i + 1) - 1 = (k - 1) * BlockCap + j =>
                 \E m \in Nat \ {0} : /\ begin'[head'] + i - 1 = (m - 1) * BlockCap + j
                                      /\ d[m] = c[k]
    PROVE  /\ Blk!Stored # <<>>
           /\ popped' = Head(Blk!Stored)
           /\ Blk!Stored' = Tail(Blk!Stored)
<1>. DEFINE s == Blk!Stored
            z == Blk!Stored'
<1>0. /\ t \in 1..Len(c) /\ Len(c) \in Nat /\ t \in Nat /\ c[1] = head /\ head \in Blocks
      /\ \A i \in 1..Len(c) : c[i] \in Blocks
      /\ begin[head] \in Nat /\ begin[head] < BlockCap
      /\ BlockCap \in Nat /\ len \in Nat
      /\ \A i, j \in 1..Len(c) : c[i] = c[j] => i = j
  <2>1. /\ t \in 1..Len(c) /\ Len(c) \in Nat /\ t \in Nat /\ c[1] = head /\ head \in Blocks
        /\ \A i \in 1..Len(c) : c[i] \in Blocks
        /\ begin[head] \in Nat
        /\ BlockCap \in Nat
    BY SoundFacts
  <2>. QED
    BY <2>1 DEF Sound, Types, Layout, Indices
<1>1. s \in Seq(Values) /\ Len(s) = len
  BY ThisReads DEF Reads
<1>2. z \in Seq(Values) /\ Len(z) = len - 1
  BY NextReads DEF Reads, Popped
<1>3. \A i \in 1..len-1 : \A k \in Nat \ {0} : \A j \in 0..BlockCap - 1 :
         begin'[head'] + i - 1 = (k - 1) * BlockCap + j => z[i] = cells'[d[k]][j]
  <2>1. len' = len - 1
    BY DEF Popped
  <2>. QED
    BY <2>1, NextReads DEF Reads
<1>4. \A i \in 1..len : \A k \in Nat \ {0} : \A j \in 0..BlockCap - 1 :
         begin[head] + i - 1 = (k - 1) * BlockCap + j => s[i] = cells[c[k]][j]
  BY ThisReads DEF Reads
<1>. HIDE DEF s, z
<1>5. s # <<>> /\ popped' = s[1]
  <2>1. 1 \in 1..len /\ 1 \in Nat \ {0} /\ begin[head] \in 0..BlockCap - 1
    BY <1>0
  <2>2. begin[head] + 1 - 1 = (1 - 1) * BlockCap + begin[head]
    BY <1>0
  <2>3. s[1] = cells[c[1]][begin[head]]
    BY <1>4, <2>1, <2>2
  <2>. QED
    BY <1>0, <1>1, <2>3 DEF Popped
<1>6. ASSUME NEW i \in 1..len-1 PROVE z[i] = s[i + 1]
  <2>0. i + 1 \in 1..len /\ i \in Nat /\ i >= 1
    BY <1>0
  <2>1. \E k \in 1..t : \E j \in 0..BlockCap - 1 :
           /\ begin[head] + (i + 1) - 1 = (k - 1) * BlockCap + j
           /\ k = 1 => j = begin[head] + (i + 1) - 1
    BY <2>0, Place
  <2>2. PICK k \in 1..t : \E j \in 0..BlockCap - 1 :
           /\ begin[head] + (i + 1) - 1 = (k - 1) * BlockCap + j
           /\ k = 1 => j = begin[head] + (i + 1) - 1
    BY <2>1
  <2>3. PICK j \in 0..BlockCap - 1 :
           /\ begin[head] + (i + 1) - 1 = (k - 1) * BlockCap + j
           /\ k = 1 => j = begin[head] + (i + 1) - 1
    BY <2>2
  <2>4. PICK m \in Nat \ {0} : /\ begin'[head'] + i - 1 = (m - 1) * BlockCap + j
                               /\ d[m] = c[k]
    BY <2>3
  <2>5. k \in Nat \ {0} /\ k \in 1..Len(c) /\ 1 \in 1..Len(c) /\ c[k] \in Blocks
    BY <1>0
  <2>6. z[i] = cells'[c[k]][j]
    BY <1>3, <2>4
  <2>7. s[i + 1] = cells[c[k]][j]
    BY <1>4, <2>0, <2>3, <2>5
  <2>8. ~(c[k] = head /\ j = begin[head])
    <3>1. c[k] = head => k = 1
      BY <1>0, <2>5
    <3>2. k = 1 => j # begin[head]
      <4>1. begin[head] + (i + 1) - 1 # begin[head]
        BY <1>0, <2>0
      <4>. QED
        BY <2>3, <4>1
    <3>. QED
      BY <3>1, <3>2
  <2>9. cells'[c[k]][j] = cells[c[k]][j]
    BY <2>5, <2>8 DEF Popped
  <2>. QED
    BY <2>6, <2>7, <2>9
<1>. DEFINE a == Tail(s)
<1>7. /\ a \in Seq(Values) /\ Len(a) = len - 1 /\ Head(s) = s[1]
      /\ \A i \in 1..len-1 : a[i] = s[i + 1]
  BY <1>1, <1>5, HeadTailProperties
<1>. HIDE DEF a
<1>8. \A i \in 1..Len(z) : z[i] = a[i]
  BY <1>2, <1>6, <1>7
<1>9. z = a
  BY <1>2, <1>7, <1>8, SeqEqual
<1>. QED
  BY <1>5, <1>7, <1>9 DEF s, z, a
-----------------------------------------------------------------------------
(***************************************************************************)
(* Push, Pop and FreeBlocks, in whole.                                     *)
(***************************************************************************)
\* u blocks of m cells, all used, hold about u * m values.
LEMMA BlocksFor ==
    ASSUME NEW m \in Nat \ {0}, NEW u \in Nat \ {0}, NEW L \in Nat, NEW M \in Nat,
           NEW e \in Nat, NEW b \in 0..m-1,
           L = (u - 1) * m + e - b, L <= M
    PROVE  u <= M \div m + 2
<1>. DEFINE q == M \div m
            r == M % m
            x == (u - 1) * m
            y == q * m
<1>1. q \in Nat /\ r \in 0..m-1 /\ M = y + r
  BY PlaceOf
<1>2. x \in Int /\ y \in Int
  BY <1>1
<1>. HIDE DEF q, r
<1>3. SUFFICES ASSUME ~(u <= q + 2) PROVE FALSE
  BY DEF q
<1>4. (q + 2) * m <= (u - 1) * m
  <2>1. q + 2 \in Int /\ u - 1 \in Int /\ q + 2 <= u - 1
    BY <1>1, <1>3
  <2>. QED
    BY <2>1, ProductGrows
<1>5. (q + 2) * m = y + m + m
  BY <1>1
<1>. HIDE DEF x, y
<1>6. y + m + m <= x
  BY <1>4, <1>5 DEF x
<1>7. L = x + e - b
  BY DEF x
<1>. QED
  BY <1>1, <1>2, <1>6, <1>7

Bounded == len <= MaxLen /\ FewBlocks

LEMMA FewIs == FewBlocks <=> Cardinality(heap) <= MaxLen \div BlockCap + 2
  BY SameCardinality DEF FewBlocks, Blk!FewBlocks

LEMMA FewIsNext == (FewBlocks <=> Cardinality(heap) <= MaxLen \div BlockCap + 2)'
  BY FewIs, PTL

SomeSound == \E c \in Seq(Blocks) : \E t \in Nat : Sound(c, t)

LEMMA SoundNext ==
    ASSUME NEW c, NEW t, Sound(c, t)' PROVE SomeSound'
<1>1. c \in Seq(Blocks) /\ t \in 1..Len(c)
  BY DEF Sound, Layout
<1>2. t \in Nat
  BY <1>1
<1>. QED
  BY <1>1, <1>2 DEF SomeSound

LEMMA PushStep ==
    ASSUME SomeSound, Bounded, NEW v \in Values, Blk!Push(v)
    PROVE  /\ SomeSound' /\ Bounded'
           /\ Blk!Stored' = Append(Blk!Stored, v)
           /\ popped' = popped /\ head' = head
<1>1. PICK c \in Seq(Blocks) : \E t \in Nat : Sound(c, t)
  BY DEF SomeSound
<1>2. PICK t \in Nat : Sound(c, t)
  BY <1>1
<1>3. Pushed(v)
  BY <1>2, PushEffect
<1>4. /\ tail \in Blocks /\ end[tail] \in Nat /\ end[tail] < BlockCap /\ BlockCap \in Nat
      /\ len \in Nat
  BY <1>2, SoundFacts DEF Sound, Types, Indices
<1>5. end'[tail] = end[tail] + 1
  BY <1>3, <1>4 DEF Pushed
<1>6. len' = len + 1 /\ len' <= MaxLen /\ len' \in Nat /\ MaxLen \in Nat
      /\ popped' = popped /\ head' = head /\ begin' = begin
  <2>1. len' = len + 1 /\ popped' = popped /\ head' = head /\ begin' = begin
    BY <1>3 DEF Pushed
  <2>2. len < MaxLen
    BY DEF Blk!Push
  <2>. QED
    BY <1>4, <2>1, <2>2, BlockQueueAssumption
<1>7. CASE end'[tail] < BlockCap
  <2>1. UNCHANGED <<tail, next, heap>>
    BY <1>4, <1>5, <1>7 DEF Blk!Push
  <2>2. Sound(c, t)'
    BY <1>2, <1>3, <1>5, <1>7, <2>1, PushInTail
  <2>3. Blk!Stored' = Append(Blk!Stored, v)
    BY <1>2, <1>3, <2>2, PushStored
  <2>4. Bounded'
    BY <1>6, <2>1, FewIs, FewIsNext DEF Bounded
  <2>. QED
    BY <1>6, <2>2, <2>3, <2>4, SoundNext
<1>8. CASE ~(end'[tail] < BlockCap) /\ next[tail] # Null
  <2>1. tail' = next[tail] /\ UNCHANGED <<next, heap>>
    BY <1>8 DEF Blk!Push
  <2>2. end[tail] + 1 = BlockCap
    BY <1>4, <1>5, <1>8
  <2>3. Sound(c, t + 1)'
    BY <1>2, <1>3, <1>8, <2>1, <2>2, PushRecycled
  <2>4. Blk!Stored' = Append(Blk!Stored, v)
    BY <1>2, <1>3, <2>3, PushStored
  <2>5. Bounded'
    BY <1>6, <2>1, FewIs, FewIsNext DEF Bounded
  <2>. QED
    BY <1>6, <2>3, <2>4, <2>5, SoundNext
<1>9. CASE ~(end'[tail] < BlockCap) /\ next[tail] = Null
  <2>1. \E b \in Blocks \ heap : /\ heap' = heap \cup {b}
                                 /\ next' = [next EXCEPT ![tail] = b]
                                 /\ tail' = b
    BY <1>9 DEF Blk!Push
  <2>2. PICK b \in Blocks \ heap : /\ heap' = heap \cup {b}
                                   /\ next' = [next EXCEPT ![tail] = b]
                                   /\ tail' = b
    BY <2>1
  <2>3. end[tail] + 1 = BlockCap
    BY <1>4, <1>5, <1>9
  <2>. DEFINE d == Append(c, b)
  <2>4. Sound(d, t + 1)' /\ t = Len(c)
    BY <1>2, <1>3, <1>9, <2>2, <2>3, PushNew
  <2>5. /\ Len(d) = t + 1 /\ Len(c) \in Nat
        /\ \A i \in 1..Len(c) : d[i] = c[i]
    BY <1>1, <2>4, AppendProperties
  <2>. HIDE DEF d
  <2>6. Blk!Stored' = Append(Blk!Stored, v)
    BY <1>2, <1>3, <2>4, <2>5, PushStored
  <2>7. Cardinality(heap') <= MaxLen \div BlockCap + 2
    <3>1. /\ len' = ((t + 1) - 1) * BlockCap + end'[tail'] - begin'[head']
          /\ Cardinality(heap') = Len(d)
          /\ begin'[head'] < BlockCap
          /\ end' \in [Blocks -> Nat] /\ begin' \in [Blocks -> Nat]
      BY <2>4 DEF Sound, Types, Layout, Indices
    <3>2. tail' \in Blocks /\ head' \in Blocks
      BY <1>2, <1>6, <2>2, SoundFacts
    <3>. DEFINE e == end'[tail']
                f == begin'[head']
    <3>3. e \in Nat /\ f \in Nat /\ f < BlockCap
      BY <3>1, <3>2
    <3>4. len' = ((t + 1) - 1) * BlockCap + e - f
      BY <3>1
    <3>. HIDE DEF e, f
    <3>5. f \in 0..BlockCap - 1 /\ t + 1 \in Nat \ {0} /\ BlockCap \in Nat \ {0}
      BY <1>4, <3>3, BlockQueueAssumption
    <3>6. t + 1 <= MaxLen \div BlockCap + 2
      BY <1>6, <3>3, <3>4, <3>5, BlocksFor
    <3>. QED
      BY <2>5, <3>1, <3>6
  <2>8. Bounded'
    BY <1>6, <2>7, FewIsNext DEF Bounded
  <2>. QED
    BY <1>6, <2>4, <2>6, <2>8, SoundNext
<1>. QED
  BY <1>7, <1>8, <1>9

LEMMA PopStep ==
    ASSUME SomeSound, Bounded, len > 0, Blk!Pop
    PROVE  /\ SomeSound' /\ Bounded'
           /\ Blk!Stored # <<>>
           /\ popped' = Head(Blk!Stored)
           /\ Blk!Stored' = Tail(Blk!Stored)
           /\ head' # Null
<1>1. PICK c \in Seq(Blocks) : \E t \in Nat : Sound(c, t)
  BY DEF SomeSound
<1>2. PICK t \in Nat : Sound(c, t)
  BY <1>1
<1>3. Popped
  BY <1>2, PopEffect
<1>4. /\ head \in Blocks /\ begin[head] \in Nat /\ begin[head] < BlockCap
      /\ BlockCap \in Nat /\ len \in Nat /\ t \in 1..Len(c) /\ Len(c) \in Nat
      /\ begin \in [Blocks -> Nat]
  BY <1>2, SoundFacts DEF Sound, Types, Indices
<1>5. Bounded'
  <2>1. len' = len - 1 /\ heap' = heap
    BY <1>3 DEF Popped
  <2>2. len' <= MaxLen
    BY <1>4, <2>1, BlockQueueAssumption DEF Bounded
  <2>. QED
    BY <2>1, <2>2, FewIs, FewIsNext DEF Bounded
<1>6. CASE begin[head] + 1 < BlockCap
  <2>1. /\ begin' = [begin EXCEPT ![head] = @ + 1]
        /\ head' = head /\ next' = next /\ end' = end
    BY <1>6 DEF Blk!Pop
  <2>2. Sound(c, t)'
    BY <1>2, <1>3, <1>6, <2>1, PopInHead
  <2>3. begin'[head'] = begin[head] + 1
    BY <1>4, <2>1
  <2>4. ASSUME NEW i \in 1..len-1, NEW k \in 1..t, NEW j \in 0..BlockCap - 1,
               begin[head] + (i + 1) - 1 = (k - 1) * BlockCap + j
        PROVE  \E m \in Nat \ {0} : /\ begin'[head'] + i - 1 = (m - 1) * BlockCap + j
                                    /\ c[m] = c[k]
    <3>1. begin'[head'] + i - 1 = begin[head] + (i + 1) - 1 /\ k \in Nat \ {0}
      BY <1>4, <2>3
    <3>. QED
      BY <2>4, <3>1
  <2>5. /\ Blk!Stored # <<>> /\ popped' = Head(Blk!Stored)
        /\ Blk!Stored' = Tail(Blk!Stored)
    BY <1>2, <1>3, <2>2, <2>4, PopStored
  <2>. QED
    BY <1>4, <1>5, <2>1, <2>2, <2>5, SoundNext, BlockQueueAssumption
<1>7. CASE ~(begin[head] + 1 < BlockCap)
  <2>1. /\ head' = next[head]
        /\ begin' = [begin EXCEPT ![head] = 0]
        /\ end' = [end EXCEPT ![head] = 0]
        /\ next' = [next EXCEPT ![head] = next[tail], ![tail] = head]
    BY <1>7 DEF Blk!Pop
  <2>. DEFINE d == Rotated(c, t)
  <2>2. Sound(d, t - 1)' /\ t > 1
    <3>1. begin[head] + 1 >= BlockCap
      BY <1>4, <1>7
    <3>. QED
      BY <1>2, <1>3, <2>1, <3>1, PopOver
  <2>3. \A i \in 1..Len(c) : i < t => d[i] = c[i + 1]
    BY <1>2, <2>2, RotatedFacts
  <2>4. d[1] = head' /\ 1 \in 1..Len(d) /\ d \in Seq(Blocks)
    <3>1. d \in Seq(Blocks) /\ t - 1 \in 1..Len(d) /\ d[1] = head'
      BY <2>2 DEF Sound, Layout
    <3>. QED
      BY <3>1
  <2>. HIDE DEF d
  <2>5. head' \in Blocks /\ head' # Null
    BY <2>4, BlockQueueAssumption
  <2>6. begin'[head'] = 0
    <3>1. head' # head
      <4>1. 1 \in 1..Len(c) /\ 2 \in 1..Len(c) /\ 1 < t
        BY <1>4, <2>2
      <4>2. d[1] = c[1 + 1]
        BY <2>3, <4>1
      <4>3. c[1] = head /\ \A i, k \in 1..Len(c) : c[i] = c[k] => i = k
        BY <1>2 DEF Sound, Layout
      <4>. QED
        BY <2>4, <4>1, <4>2, <4>3
    <3>2. head' = c[2] /\ 2 \in 1..Len(c)
      <4>1. 1 \in 1..Len(c) /\ 2 \in 1..Len(c) /\ 1 < t
        BY <1>4, <2>2
      <4>. QED
        BY <2>3, <2>4, <4>1
    <3>3. begin[c[2]] = 0
      BY <1>2, <3>2 DEF Sound, Indices
    <3>. QED
      BY <1>4, <2>1, <2>5, <3>1, <3>2, <3>3
  <2>7. ASSUME NEW i \in 1..len-1, NEW k \in 1..t, NEW j \in 0..BlockCap - 1,
               begin[head] + (i + 1) - 1 = (k - 1) * BlockCap + j
        PROVE  \E m \in Nat \ {0} : /\ begin'[head'] + i - 1 = (m - 1) * BlockCap + j
                                    /\ d[m] = c[k]
    <3>0. /\ begin[head] + 1 = BlockCap /\ i \in Nat /\ i >= 1 /\ j \in Nat
          /\ j < BlockCap /\ k \in Nat /\ k >= 1 /\ k <= t
      BY <1>4, <1>7
    <3>1. k # 1
      <4>. SUFFICES ASSUME k = 1 PROVE FALSE
        OBVIOUS
      <4>1. (k - 1) * BlockCap = 0
        BY <1>4
      <4>. DEFINE b == begin[head]
      <4>2. b + (i + 1) - 1 = 0 + j /\ b + 1 = BlockCap /\ b \in Nat
        BY <1>4, <2>7, <3>0, <4>1
      <4>. HIDE DEF b
      <4>. QED
        BY <1>4, <3>0, <4>2
    <3>. DEFINE m == k - 1
    <3>2. m \in Nat \ {0} /\ m < t /\ m \in 1..Len(c) /\ m + 1 = k
      BY <1>4, <3>0, <3>1
    <3>3. d[m] = c[k]
      BY <2>3, <3>2
    <3>4. begin'[head'] + i - 1 = (m - 1) * BlockCap + j
      <4>. DEFINE b == begin[head]
                  x == (k - 1) * BlockCap
                  y == (m - 1) * BlockCap
      <4>1. x = y + BlockCap /\ x \in Int /\ y \in Int
        BY <1>4, <3>2
      <4>2. b + (i + 1) - 1 = x + j /\ b + 1 = BlockCap /\ b \in Nat
        BY <1>4, <2>7, <3>0
      <4>. HIDE DEF b, x, y
      <4>3. 0 + i - 1 = y + j
        BY <1>4, <3>0, <4>1, <4>2
      <4>. QED
        BY <2>6, <4>3 DEF y
    <3>. HIDE DEF m
    <3>. QED
      BY <3>2, <3>3, <3>4
  <2>8. /\ Blk!Stored # <<>> /\ popped' = Head(Blk!Stored)
        /\ Blk!Stored' = Tail(Blk!Stored)
    BY <1>2, <1>3, <2>2, <2>7, PopStored
  <2>. QED
    BY <1>5, <2>2, <2>5, <2>8, SoundNext
<1>. QED
  BY <1>6, <1>7
-----------------------------------------------------------------------------
(***************************************************************************)
(* The channel: its blocks are sound until they are freed, which is after  *)
(* both sides have gone; and a receiver that goes closes it first.         *)
(***************************************************************************)
Live == head # Null /\ SomeSound /\ Bounded

Freed == /\ head = Null /\ heap = {} /\ len = 0
         /\ txs = {} /\ rx.phase = "gone"

ChanInv == (rx.phase # "alive" => closed) /\ (Live \/ Freed)

LEMMA LiveReads == Live => Blk!Stored \in Seq(Values) /\ Len(Blk!Stored) = len
<1>. SUFFICES ASSUME Live PROVE Blk!Stored \in Seq(Values) /\ Len(Blk!Stored) = len
  OBVIOUS
<1>1. PICK c \in Seq(Blocks) : \E t \in Nat : Sound(c, t)
  BY DEF Live, SomeSound
<1>2. PICK t \in Nat : Sound(c, t)
  BY <1>1
<1>. QED
  BY <1>2, ThisReads DEF Reads

\* The queue of values is empty when `len` says so.
LEMMA EmptyReads == (Live /\ len = 0) \/ Freed => Blk!Stored = <<>>
<1>1. ASSUME Live, len = 0 PROVE Blk!Stored = <<>>
  <2>. DEFINE s == Blk!Stored
  <2>1. s \in Seq(Values) /\ Len(s) = 0
    BY <1>1, LiveReads
  <2>. HIDE DEF s
  <2>2. s = <<>>
    BY <2>1, EmptySeq
  <2>. QED
    BY <2>2 DEF s
<1>2. ASSUME Freed PROVE Blk!Stored = <<>>
  BY <1>2 DEF Freed, Blk!Stored
<1>. QED
  BY <1>1, <1>2

LEMMA EmptyReadsNext == ((Live /\ len = 0) \/ Freed => Blk!Stored = <<>>)'
  BY EmptyReads, PTL

LEMMA InitChan == Init => ChanInv /\ Blk!Queue!Init /\ F!Init
<1>. SUFFICES ASSUME Init PROVE ChanInv /\ Blk!Queue!Init /\ F!Init
  OBVIOUS
<1>1. Blk!Init /\ C!Init /\ closed = FALSE
  BY DEF Init
<1>2. /\ head \in Blocks /\ tail = head /\ heap = {head} /\ len = 0
      /\ next = [b \in Blocks |-> Null]
      /\ begin = [b \in Blocks |-> 0]
      /\ end = [b \in Blocks |-> 0]
      /\ cells = [b \in Blocks |-> [i \in 0..BlockCap - 1 |-> Uninit]]
      /\ popped = Uninit
  BY <1>1 DEF Blk!Init
<1>3. rx.phase = "alive" /\ txs # {}
  BY <1>1 DEF C!Init
<1>4. BlockCap \in Nat /\ BlockCap > 0 /\ MaxLen \in Nat /\ head # Null
  BY <1>2, BlockQueueAssumption
<1>. DEFINE c == <<head>>
<1>5. c \in Seq(Blocks) /\ Len(c) = 1 /\ c[1] = head
  BY <1>2
<1>. HIDE DEF c
<1>6. IsFiniteSet(heap) /\ Cardinality(heap) = 1
  BY <1>2, FS_Singleton
<1>7. Types
  BY <1>2, <1>4, <1>6 DEF Types
<1>8. Layout(c, 1)
  <2>1. \A i \in 1..Len(c) : i = 1
    BY <1>5
  <2>2. 1 \in 1..Len(c)
    BY <1>5
  <2>. QED
    BY <1>2, <1>5, <1>6, <2>1, <2>2 DEF Layout
<1>9. Indices(c, 1)
  <2>1. \A i \in 1..Len(c) : i = 1
    BY <1>5
  <2>2. begin[head] = 0 /\ end[head] = 0
    BY <1>2
  <2>3. (1 - 1) * BlockCap = 0
    BY <1>4
  <2>. QED
    BY <1>2, <1>4, <2>1, <2>2, <2>3 DEF Indices
<1>10. Filled
  BY <1>2 DEF Filled
<1>11. SomeSound
  <2>1. Sound(c, 1)
    BY <1>7, <1>8, <1>9, <1>10 DEF Sound
  <2>. QED
    BY <1>5, <2>1 DEF SomeSound
<1>12. Bounded
  <2>1. MaxLen \div BlockCap \in Nat
    BY <1>4
  <2>. QED
    BY <1>2, <1>4, <1>6, <2>1, FewIs DEF Bounded
<1>13. Live
  BY <1>4, <1>11, <1>12 DEF Live
<1>14. Blk!Stored = <<>>
  BY <1>2, <1>13, EmptyReads
<1>15. ChanInv
  BY <1>3, <1>13 DEF ChanInv
<1>16. Blk!Queue!Init
  BY <1>2, <1>4, <1>14 DEF Blk!Queue!Init
<1>17. F!Init
  BY <1>1, <1>3, <1>14 DEF F!Init
<1>. QED
  BY <1>15, <1>16, <1>17

Over == closed \/ rx.phase # "alive" \/ txs = {}

QueueStep == [Blk!Queue!Next]_<<Blk!Stored, popped, head # Null>>

FifoStep == [F!Next]_<<Blk!Stored, Over>>

Effect == ChanInv' /\ QueueStep /\ FifoStep

LEMMA FifoQuiet == ASSUME Blk!Stored' = Blk!Stored, Over => Over' PROVE FifoStep
<1>1. CASE Over'
  <2>1. F!Close
    BY <1>1 DEF F!Close, Over
  <2>. QED
    BY <2>1 DEF F!Next, FifoStep
<1>2. CASE ~Over'
  <2>1. Over' = Over
    BY <1>2 DEF Over
  <2>. QED
    BY <2>1 DEF FifoStep
<1>. QED
  BY <1>1, <1>2

LEMMA SameStored == UNCHANGED blockVars => Blk!Stored' = Blk!Stored
  BY DEF blockVars, Blk!Stored, Blk!Chain, Blk!Walks, Blk!IsWalk

\* The sides change, the blocks do not.
LEMMA SidesEffect ==
    ASSUME ChanInv, UNCHANGED blockVars,
           closed => closed',
           txs = {} => txs' = {},
           rx.phase # "alive" => rx'.phase # "alive",
           rx.phase = "gone" => rx'.phase = "gone",
           rx'.phase # "alive" => closed'
    PROVE  Effect
<1>1. Blk!Stored' = Blk!Stored /\ popped' = popped /\ head' = head
  BY SameStored DEF blockVars
<1>2. QueueStep
  BY <1>1 DEF QueueStep
<1>3. FifoStep
  BY <1>1, FifoQuiet DEF Over
<1>4. Live => Live'
  <2>1. SomeSound => SomeSound'
    <3>1. ASSUME NEW c, NEW t, Sound(c, t) PROVE Sound(c, t)'
      <4>1. Types'
        BY <3>1 DEF blockVars, Sound, Types
      <4>2. Layout(c, t)'
        BY <3>1 DEF blockVars, Sound, Layout
      <4>3. Indices(c, t)'
        BY <3>1 DEF blockVars, Sound, Indices
      <4>4. Filled'
        BY <3>1 DEF blockVars, Sound, Filled
      <4>. QED
        BY <4>1, <4>2, <4>3, <4>4 DEF Sound
    <3>. QED
      BY <3>1 DEF SomeSound
  <2>2. Bounded => Bounded'
    BY FewIs, FewIsNext DEF blockVars, Bounded
  <2>. QED
    BY <1>1, <2>1, <2>2 DEF Live
<1>5. Freed => Freed'
  BY DEF blockVars, Freed
<1>. QED
  BY <1>2, <1>3, <1>4, <1>5 DEF ChanInv, Effect

\* A value leaves the queue, and the channel stays as closed as it was.
LEMMA PopStepEffect ==
    ASSUME ChanInv, len > 0, Blk!Pop,
           closed' = closed, txs' = txs,
           rx.phase = "alive" => rx'.phase = "alive",
           rx.phase # "alive" => rx'.phase # "alive"
    PROVE  Effect
<1>1. Live
  BY DEF ChanInv, Freed
<1>2. /\ SomeSound' /\ Bounded' /\ head # Null /\ head' # Null
      /\ Blk!Stored # <<>>
      /\ popped' = Head(Blk!Stored)
      /\ Blk!Stored' = Tail(Blk!Stored)
  BY <1>1, PopStep DEF Live
<1>3. ChanInv'
  BY <1>2 DEF ChanInv, Live
<1>4. Blk!Queue!Pop
  BY <1>2 DEF Blk!Queue!Pop
<1>5. F!Receive
  <2>1. Over' = Over
    BY DEF Over
  <2>. QED
    BY <1>2, <2>1 DEF F!Receive, Over
<1>. QED
  BY <1>3, <1>4, <1>5 DEF Effect, QueueStep, FifoStep, Blk!Queue!Next, F!Next

LEMMA SendEffect ==
    ASSUME ChanInv, RxSound, NEW t \in Txs, NEW v \in Values, Send(t, v)
    PROVE  Effect
<1>1. /\ t \in txs /\ ~closed /\ Blk!Push(v) /\ txs' = txs /\ closed' = closed
      /\ rx' = C!Woken(rx)
  BY DEF Send, C!Send
<1>2. rx.phase = "alive" /\ rx'.phase = "alive" /\ Live
  BY <1>1, WokenSound DEF ChanInv, Freed
<1>3. /\ SomeSound' /\ Bounded'
      /\ Blk!Stored' = Append(Blk!Stored, v)
      /\ popped' = popped /\ head' = head
  BY <1>1, <1>2, PushStep DEF Live
<1>4. ChanInv'
  BY <1>2, <1>3 DEF ChanInv, Live
<1>5. Blk!Queue!Push(v)
  BY <1>2, <1>3 DEF Blk!Queue!Push, Live
<1>6. F!Send(v)
  <2>1. ~Over /\ Over' = Over
    BY <1>1, <1>2 DEF Over
  <2>. QED
    BY <1>3, <2>1 DEF F!Send, HasRoom, Over
<1>. QED
  BY <1>4, <1>5, <1>6 DEF Effect, QueueStep, FifoStep, Blk!Queue!Next, F!Next

LEMMA FreeEffect ==
    ASSUME ChanInv, FreeChan PROVE Effect
<1>1. /\ txs = {} /\ rx.phase = "gone" /\ head # Null /\ len = 0
      /\ heap' = heap \ Blk!Elements(Blk!Chain) /\ head' = Null
      /\ len' = len /\ popped' = popped
      /\ closed' = closed /\ txs' = txs /\ rx' = rx
  BY DEF FreeChan, Orphan, Blk!FreeBlocks
<1>2. Live
  BY <1>1 DEF ChanInv, Freed
<1>3. heap' = {}
  <2>1. PICK c \in Seq(Blocks) : \E t \in Nat : Sound(c, t)
    BY <1>2 DEF Live, SomeSound
  <2>2. PICK t \in Nat : Sound(c, t)
    BY <2>1
  <2>3. Blk!Chain = c
    BY <2>2, ChainIs DEF Sound
  <2>4. \A b : b \in heap <=> \E i \in 1..Len(c) : c[i] = b
    BY <2>2 DEF Sound, Layout
  <2>5. Blk!Elements(c) = heap
    BY <2>4 DEF Blk!Elements
  <2>. QED
    BY <1>1, <2>3, <2>5
<1>4. Freed'
  BY <1>1, <1>3 DEF Freed
<1>5. Blk!Stored = <<>> /\ Blk!Stored' = <<>>
  BY <1>1, <1>2, <1>4, EmptyReads, EmptyReadsNext
<1>6. ChanInv'
  BY <1>1, <1>4 DEF ChanInv
<1>7. Blk!Queue!Free
  BY <1>1, <1>5 DEF Blk!Queue!Free
<1>8. FifoStep
  BY <1>1, <1>5, FifoQuiet DEF Over
<1>. QED
  BY <1>6, <1>7, <1>8 DEF Effect, QueueStep, Blk!Queue!Next

LEMMA StepEffect == ChanInv /\ IndInv /\ [Next]_vars => Effect
<1>. SUFFICES ASSUME ChanInv, RxSound, [Next]_vars PROVE Effect
  BY DEF IndInv
<1>1. ASSUME NEW t \in Txs, NEW v \in Values, Send(t, v) PROVE Effect
  BY <1>1, SendEffect
<1>2. ASSUME NEW t \in Txs, NEW u \in Txs, CloneTx(t, u) PROVE Effect
  <2>1. UNCHANGED blockVars /\ rx' = rx /\ closed' = closed /\ txs # {}
    BY <1>2 DEF CloneTx, C!CloneTx
  <2>. QED
    BY <2>1, SidesEffect DEF ChanInv
<1>3. ASSUME NEW t \in Txs, DropTx(t) PROVE Effect
  <2>1. UNCHANGED blockVars /\ txs # {} /\ (closed => closed')
    BY <1>3 DEF DropTx, C!DropTx
  <2>2. rx'.phase = rx.phase
    BY <1>3, WokenSound DEF DropTx, C!DropTx
  <2>. QED
    BY <2>1, <2>2, SidesEffect DEF ChanInv
<1>4. CASE PollRecv
  <2>1. CASE Recv
    <3>1. len > 0 /\ Blk!Pop /\ closed' = closed /\ txs' = txs /\ rx' = C!Idle(rx)
      BY <2>1 DEF Recv, C!Pop
    <3>. QED
      BY <3>1, IdleSound, PopStepEffect
  <2>2. CASE RecvNone
    <3>1. UNCHANGED blockVars /\ closed' = closed /\ txs' = txs /\ rx' = C!Idle(rx)
      BY <2>2 DEF RecvNone, C!RecvNone
    <3>. QED
      BY <3>1, IdleSound, SidesEffect DEF ChanInv
  <2>3. CASE RecvPending
    <3>1. UNCHANGED blockVars /\ closed' = closed
      BY <2>3 DEF RecvPending
    <3>2. txs' = txs /\ rx'.phase = rx.phase
      BY <2>3 DEF RecvPending, C!RecvPending, RxSound, C!Receiver
    <3>. QED
      BY <3>1, <3>2, SidesEffect DEF ChanInv
  <2>. QED
    BY <1>4, <2>1, <2>2, <2>3 DEF PollRecv
<1>5. CASE CancelRecv \/ CloseRx
  <2>1. UNCHANGED blockVars /\ (closed => closed') /\ txs' = txs /\ rx' = C!Idle(rx)
    BY <1>5 DEF CancelRecv, CloseRx, C!CancelRecv, C!CloseRx
  <2>. QED
    BY <2>1, IdleSound, SidesEffect DEF ChanInv
<1>6. CASE DropRx
  <2>1. UNCHANGED blockVars /\ closed' = TRUE /\ txs' = txs /\ rx.phase = "alive"
    BY <1>6 DEF DropRx, C!DropRx
  <2>. QED
    BY <2>1, SidesEffect
<1>7. CASE DestroyValue
  <2>1. /\ rx.phase = "dropping" /\ len > 0 /\ Blk!Pop /\ closed' = closed /\ txs' = txs
        /\ rx'.phase # "alive"
    BY <1>7 DEF DestroyValue, C!EndDropRx, RxSound, C!Receiver
  <2>. QED
    BY <2>1, PopStepEffect
<1>8. CASE EndDropRx
  <2>1. /\ UNCHANGED blockVars /\ closed' = closed /\ txs' = txs
        /\ rx.phase = "dropping" /\ rx'.phase = "gone"
    BY <1>8 DEF EndDropRx, C!EndDropRx, RxSound, C!Receiver
  <2>. QED
    BY <2>1, SidesEffect DEF ChanInv
<1>9. CASE DropChanValue
  <2>1. len > 0 /\ Blk!Pop /\ closed' = closed /\ txs' = txs /\ rx' = rx
    BY <1>9 DEF DropChanValue
  <2>. QED
    BY <2>1, PopStepEffect
<1>10. CASE FreeChan
  BY <1>10, FreeEffect
<1>11. CASE UNCHANGED vars
  <2>1. UNCHANGED blockVars /\ closed' = closed /\ txs' = txs /\ rx' = rx
    BY <1>11 DEF vars
  <2>. QED
    BY <2>1, SidesEffect DEF ChanInv
<1>. QED
  BY <1>1, <1>2, <1>3, <1>4, <1>5, <1>6, <1>7, <1>8, <1>9, <1>10, <1>11 DEF Next

LEMMA SoundIsChainSound == ChanInv => ChainSound
<1>. SUFFICES ASSUME ChanInv PROVE ChainSound
  OBVIOUS
<1>1. CASE Freed
  BY <1>1 DEF Freed, ChainSound, Blk!ChainSound
<1>2. CASE Live
  <2>1. PICK c \in Seq(Blocks) : \E t \in Nat : Sound(c, t)
    BY <1>2 DEF Live, SomeSound
  <2>2. PICK t \in Nat : Sound(c, t)
    BY <2>1
  <2>3. c \in Blk!Walks /\ Blk!IsWalk(c)
    BY <2>2, ChainWalks DEF Sound
  <2>4. /\ Len(c) \in Nat /\ DOMAIN c = 1..Len(c) /\ t \in 1..Len(c)
        /\ \A b : b \in heap <=> \E i \in 1..Len(c) : c[i] = b
        /\ c[t] = tail
    BY <2>1, <2>2 DEF Sound, Layout
  <2>5. Blk!Elements(c) = heap
    BY <2>4 DEF Blk!Elements
  <2>6. /\ \A i \in 1..t-1 : end[c[i]] = BlockCap
        /\ \A i \in t+1..Len(c) : end[c[i]] = 0
        /\ \A i \in 2..Len(c) : begin[c[i]] = 0
    BY <2>2, <2>4 DEF Sound, Indices
  <2>7. /\ end[tail] < BlockCap
        /\ len = (t - 1) * BlockCap + end[tail] - begin[head]
    BY <2>2 DEF Sound, Indices
  <2>8. ASSUME NEW b \in heap, NEW i \in 0..BlockCap - 1
        PROVE  cells[b][i] # Uninit <=> i \in begin[b]..end[b]-1
    <3>1. b \in Blocks /\ begin[b] \in Nat /\ end[b] \in Nat /\ i \in Nat
      BY <2>2, BlockQueueAssumption DEF Sound, Types
    <3>2. IF begin[b] <= i /\ i < end[b] THEN cells[b][i] \in Values
                                         ELSE cells[b][i] = Uninit
      BY <2>2, <3>1 DEF Sound, Filled
    <3>. QED
      BY <3>1, <3>2, BlockQueueAssumption
  <2>9. head # Null
    BY <1>2 DEF Live
  <2>10. \E s \in Blk!Walks : \E u \in DOMAIN s :
            /\ Blk!IsWalk(s)
            /\ Blk!Elements(s) = heap
            /\ s[u] = tail
            /\ end[tail] < BlockCap
            /\ \A i \in 1..u-1 : end[s[i]] = BlockCap
            /\ \A i \in u+1..Len(s) : end[s[i]] = 0
            /\ \A i \in 2..Len(s) : begin[s[i]] = 0
            /\ len = (u - 1) * BlockCap + end[tail] - begin[head]
    BY <2>3, <2>4, <2>5, <2>6, <2>7
  <2>. QED
    BY <2>8, <2>9, <2>10 DEF ChainSound, Blk!ChainSound
<1>. QED
  BY <1>1, <1>2 DEF ChanInv

LEMMA FewInBoth == ChanInv => FewBlocks
<1>1. Live => FewBlocks
  BY DEF Live, Bounded
<1>2. Freed => FewBlocks
  <2>. SUFFICES ASSUME Freed PROVE FewBlocks
    OBVIOUS
  <2>1. Cardinality(heap) = 0
    BY FS_EmptySet DEF Freed
  <2>2. MaxLen \div BlockCap \in Nat
    BY BlockQueueAssumption
  <2>. QED
    BY <2>1, <2>2, FewIs
<1>. QED
  BY <1>1, <1>2 DEF ChanInv

\* The chain has every allocated block once, the cells between the indices, and no
\* others, hold values, and `len` counts them: pop never reads memory that was
\* not written, and free_blocks frees every block and none twice.
THEOREM ChainIsSound == Spec => []ChainSound
<1>1. ChanInv /\ IndInv /\ [Next]_vars => ChanInv'
  BY StepEffect DEF Effect
<1>. QED
  BY <1>1, InitSound, StepSound, InitChan, SoundIsChainSound, PTL DEF Spec

\* Blocks that have been read are written again: there are never more than the
\* largest number of values fills, and two.
THEOREM BlocksAreFew == Spec => []FewBlocks
<1>1. ChanInv /\ IndInv /\ [Next]_vars => ChanInv'
  BY StepEffect DEF Effect
<1>. QED
  BY <1>1, InitSound, StepSound, InitChan, FewInBoth, PTL DEF Spec

\* Under the channel the blocks are a queue of values, which is popped only when
\* there is one, and freed once, when there is none.
THEOREM BlocksAreQueue == Spec => QueueSpec
<1>1. ChanInv /\ IndInv /\ [Next]_vars => ChanInv' /\ QueueStep
  BY StepEffect DEF Effect
<1>. QED
  BY <1>1, InitSound, StepSound, InitChan, PTL
     DEF Spec, QueueSpec, Blk!QueueSpec, Blk!Queue!Spec, QueueStep

\* The unbounded channel delivers the values in the order in which they were
\* sent, each once, and takes none once it is closed or a side has gone.
THEOREM ImplementsFifo == Spec => FifoSpec
<1>1. ChanInv /\ IndInv /\ [Next]_vars => ChanInv' /\ FifoStep
  BY StepEffect DEF Effect
<1>. QED
  BY <1>1, InitSound, StepSound, InitChan, PTL DEF Spec, FifoSpec, F!Spec, FifoStep, Over
=============================================================================
