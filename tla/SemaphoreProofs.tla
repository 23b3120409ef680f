--------------------------- MODULE SemaphoreProofs ---------------------------
(***************************************************************************)
(* Theorems about Semaphore, for any number of acquisitions, contexts and  *)
(* permits: the guards give back what they were given, so all that reaches *)
(* the low level semaphore is a call that it expects, and its permits are  *)
(* all accounted for.                                                      *)
(***************************************************************************)
EXTENDS Semaphore, TLAPS

\* A guard, or a future that is to become one, is for a count that was asked for.
AskedFor ==
    /\ permits \in Int
    /\ acq \in [Futures -> Inner!Future]
    /\ guard \in [Futures -> Amounts \cup {None}]
    /\ \A f \in Futures : acq[f].phase # "none" => acq[f].num \in Amounts

\* A release changes nothing of a future but what it still needs and its waker.
LEMMA AddPermitsKeepsRequests ==
    ASSUME NEW rem \in Int, NEW avail \in Int, NEW q,
           NEW a \in [Futures -> Inner!Future],
           Inner!AddPermits(rem, avail, q, a)
    PROVE  /\ permits' \in Int
           /\ acq' \in [Futures -> Inner!Future]
           /\ \A f \in Futures : /\ acq'[f].phase = a[f].phase
                                 /\ acq'[f].num = a[f].num
<1>1. PICK k \in 0..Len(q) : \E left \in [0..k -> 0..rem] :
         /\ IF k = Len(q)
            THEN left[k] <= MaxPermits /\ permits' = avail + left[k]
            ELSE left[k] < a[q[k+1]].remaining /\ permits' = avail
         /\ acq' = [f \in Futures |->
               IF f \in Inner!Served(q, k)
               THEN Inner!Woken([a[f] EXCEPT !.remaining = 0])
               ELSE IF k < Len(q) /\ f = q[k+1]
               THEN [a[f] EXCEPT !.remaining = @ - left[k]]
               ELSE a[f]]
  BY DEF Inner!AddPermits
<1>2. PICK left \in [0..k -> 0..rem] :
         /\ IF k = Len(q)
            THEN left[k] <= MaxPermits /\ permits' = avail + left[k]
            ELSE left[k] < a[q[k+1]].remaining /\ permits' = avail
         /\ acq' = [f \in Futures |->
               IF f \in Inner!Served(q, k)
               THEN Inner!Woken([a[f] EXCEPT !.remaining = 0])
               ELSE IF k < Len(q) /\ f = q[k+1]
               THEN [a[f] EXCEPT !.remaining = @ - left[k]]
               ELSE a[f]]
  BY <1>1
<1>. DEFINE n == left[k]
<1>3. n \in Nat
  <2>1. k \in 0..k
    BY <1>1
  <2>. QED
    BY <2>1
<1>. HIDE DEF n
<1>4. ASSUME NEW f \in Futures
      PROVE  /\ acq'[f] \in Inner!Future
             /\ acq'[f].phase = a[f].phase
             /\ acq'[f].num = a[f].num
  <2>1. a[f] \in Inner!Future
    OBVIOUS
  <2>2. CASE f \in Inner!Served(q, k)
    <3>1. acq'[f] = Inner!Woken([a[f] EXCEPT !.remaining = 0])
      BY <1>2, <2>2
    <3>2. Inner!Woken([a[f] EXCEPT !.remaining = 0]) \in Inner!Future
      BY <2>1 DEF Inner!Woken, Inner!Future
    <3>3. /\ Inner!Woken([a[f] EXCEPT !.remaining = 0]).phase = a[f].phase
          /\ Inner!Woken([a[f] EXCEPT !.remaining = 0]).num = a[f].num
      BY <2>1 DEF Inner!Woken, Inner!Future
    <3>. QED
      BY <3>1, <3>2, <3>3
  <2>3. CASE f \notin Inner!Served(q, k) /\ k < Len(q) /\ f = q[k+1]
    <3>1. acq'[f] = [a[f] EXCEPT !.remaining = @ - n]
      BY <1>2, <2>3 DEF n
    <3>2. n < a[f].remaining
      BY <1>2, <2>3 DEF n
    <3>3. acq'[f] = [a[f] EXCEPT !.remaining = a[f].remaining - n]
      BY <3>1
    <3>4. a[f].remaining - n \in Nat
      BY <1>3, <2>1, <3>2 DEF Inner!Future
    <3>. QED
      BY <2>1, <3>3, <3>4 DEF Inner!Future
  <2>4. CASE f \notin Inner!Served(q, k) /\ ~(k < Len(q) /\ f = q[k+1])
    <3>1. acq'[f] = a[f]
      BY <1>2, <2>4
    <3>. QED
      BY <2>1, <3>1
  <2>. QED
    BY <2>2, <2>3, <2>4
<1>5. permits' \in Int
  BY <1>2, <1>3 DEF n
<1>6. acq' = [f \in Futures |-> acq'[f]]
  BY <1>2
<1>. QED
  BY <1>4, <1>5, <1>6

LEMMA InitAskedFor == Init => AskedFor
<1>. SUFFICES ASSUME Init PROVE AskedFor
  OBVIOUS
<1>1. permits \in Int
  BY GuardAssumption DEF Init, Inner!Init
<1>2. Inner!NoFuture \in Inner!Future /\ Inner!NoFuture.phase = "none"
  BY DEF Inner!NoFuture, Inner!Future
<1>3. acq = [f \in Futures |-> Inner!NoFuture] /\ guard = [f \in Futures |-> None]
  BY DEF Init, Inner!Init
<1>. QED
  BY <1>1, <1>2, <1>3 DEF AskedFor

\* A step that replaces one future, by none or one of the same count.
LEMMA OneFuture ==
    ASSUME AskedFor, NEW f \in Futures, NEW r \in Inner!Future,
           acq' = [acq EXCEPT ![f] = r],
           r.phase # "none" => r.num \in Amounts,
           permits' \in Int, UNCHANGED guard
    PROVE  AskedFor'
<1>1. \A g \in Futures : acq'[g] = IF g = f THEN r ELSE acq[g]
  BY DEF AskedFor
<1>2. acq' \in [Futures -> Inner!Future]
  BY DEF AskedFor
<1>. QED
  BY <1>1, <1>2 DEF AskedFor

\* Dropping a future, with the release that may follow.
LEMMA OneFutureLess ==
    ASSUME AskedFor, NEW f \in Futures, NEW rem \in Int, NEW avail \in Int, NEW q,
           Inner!AddPermits(rem, avail, q, [acq EXCEPT ![f] = Inner!NoFuture])
    PROVE  /\ permits' \in Int
           /\ acq' \in [Futures -> Inner!Future]
           /\ \A g \in Futures : acq'[g].phase # "none" => acq'[g].num \in Amounts
<1>. DEFINE a == [acq EXCEPT ![f] = Inner!NoFuture]
<1>1. Inner!NoFuture \in Inner!Future /\ Inner!NoFuture.phase = "none"
  BY DEF Inner!NoFuture, Inner!Future
<1>2. a \in [Futures -> Inner!Future]
  BY <1>1 DEF AskedFor
<1>3. \A g \in Futures : a[g].phase # "none" => a[g].num \in Amounts
  BY <1>1 DEF AskedFor
<1>. HIDE DEF a
<1>4. Inner!AddPermits(rem, avail, q, a)
  BY DEF a
<1>. QED
  BY <1>2, <1>3, <1>4, AddPermitsKeepsRequests

(***************************************************************************)
(* Each action keeps AskedFor, and is a step of the low level semaphore.   *)
(***************************************************************************)
LEMMA StepIsInner ==
    AskedFor /\ [Next]_vars => AskedFor' /\ [Inner!Next]_(Inner!vars)
<1>. DEFINE Goal == AskedFor' /\ [Inner!Next]_(Inner!vars)
<1>. SUFFICES ASSUME AskedFor, [Next]_vars PROVE Goal
  OBVIOUS
<1>. HIDE DEF Goal
<1>0. /\ permits \in Int
      /\ acq \in [Futures -> Inner!Future]
      /\ guard \in [Futures -> Amounts \cup {None}]
      /\ \A f \in Futures : acq[f].phase # "none" => acq[f].num \in Amounts
      /\ Amounts \subseteq Nat
      /\ None \notin Nat
  BY GuardAssumption DEF AskedFor
<1>1. ASSUME NEW f \in Futures, NEW n \in Amounts, AcquireMany(f, n) PROVE Goal
  <2>1. Inner!Acquire(f, n) /\ UNCHANGED guard
    BY <1>1 DEF AcquireMany
  <2>2. Inner!Next
    BY <2>1 DEF Inner!Next
  <2>3. Inner!NewFuture(n) \in Inner!Future /\ Inner!NewFuture(n).num = n
    <3>1. Inner!NoFuture \in Inner!Future
      BY DEF Inner!NoFuture, Inner!Future
    <3>. QED
      BY <1>0, <3>1 DEF Inner!NewFuture, Inner!Future
  <2>4. acq' = [acq EXCEPT ![f] = Inner!NewFuture(n)] /\ permits' \in Int
    BY <1>0, <2>1 DEF Inner!Acquire
  <2>. QED
    BY <2>1, <2>2, <2>3, <2>4, OneFuture DEF Goal
<1>2. ASSUME NEW f \in Futures, NEW n \in Amounts, TryAcquireMany(f, n) PROVE Goal
  <2>1. Inner!TryAcquire(n) /\ guard' = [guard EXCEPT ![f] = n]
    BY <1>2 DEF TryAcquireMany
  <2>2. Inner!Next
    BY <2>1 DEF Inner!Next
  <2>3. permits' \in Int /\ acq' = acq
    BY <1>0, <2>1 DEF Inner!TryAcquire
  <2>4. guard' \in [Futures -> Amounts \cup {None}]
    BY <1>0, <2>1
  <2>. QED
    BY <1>0, <2>2, <2>3, <2>4 DEF Goal, AskedFor
<1>3. ASSUME NEW f \in Futures, PollReady(f) PROVE Goal
  <2>1. /\ Inner!PollFast(f) \/ Inner!PollAssigned(f)
        /\ guard' = [guard EXCEPT ![f] = acq[f].num]
    BY <1>3 DEF PollReady
  <2>2. Inner!Next
    BY <2>1 DEF Inner!Next, Inner!Poll
  <2>3. acq[f] \in Inner!Future /\ acq[f].phase = "live"
    BY <1>0, <2>1 DEF Inner!PollFast, Inner!PollAssigned
  <2>4. guard' \in [Futures -> Amounts \cup {None}]
    BY <1>0, <2>1, <2>3
  <2>5. /\ permits' \in Int
        /\ acq' \in [Futures -> Inner!Future]
        /\ \A g \in Futures : acq'[g].phase # "none" => acq'[g].num \in Amounts
    <3>1. CASE Inner!PollFast(f)
      <4>1. Inner!NoFuture \in Inner!Future /\ Inner!NoFuture.phase = "none"
        BY DEF Inner!NoFuture, Inner!Future
      <4>2. /\ acq' = [acq EXCEPT ![f] = Inner!NoFuture]
            /\ permits' = permits - acq[f].num
        BY <3>1 DEF Inner!PollFast
      <4>3. permits' \in Int
        BY <1>0, <2>3, <4>2
      <4>4. \A g \in Futures : acq'[g] = IF g = f THEN Inner!NoFuture ELSE acq[g]
        BY <1>0, <4>2
      <4>5. acq' \in [Futures -> Inner!Future]
        BY <1>0, <4>1, <4>2
      <4>. QED
        BY <1>0, <4>1, <4>3, <4>4, <4>5
    <3>2. CASE Inner!PollAssigned(f)
      <4>1. /\ permits - acq[f].remaining \in Int
            /\ Inner!AddPermits(permits - acq[f].remaining, 0, waiters,
                                [acq EXCEPT ![f] = Inner!NoFuture])
        BY <1>0, <2>3, <3>2 DEF Inner!PollAssigned, Inner!Future
      <4>. QED
        BY <4>1, OneFutureLess
    <3>. QED
      BY <2>1, <3>1, <3>2
  <2>. QED
    BY <2>2, <2>4, <2>5 DEF Goal, AskedFor
<1>4. ASSUME NEW f \in Futures, PollWait(f) PROVE Goal
  <2>1. PICK c \in Contexts : Inner!PollPending(f, c)
    BY <1>4 DEF PollWait
  <2>2. Inner!Next
    BY <2>1 DEF Inner!Next, Inner!Poll
  <2>. DEFINE r == [acq[f] EXCEPT !.remaining = @ - permits, !.queued = TRUE,
                                  !.waker = c, !.cx = c, !.notified = FALSE]
  <2>3. acq[f] \in Inner!Future /\ acq[f].phase = "live" /\ permits < acq[f].remaining
    BY <1>0, <2>1 DEF Inner!PollPending
  <2>4. r \in Inner!Future /\ r.num = acq[f].num
    <3>1. acq[f].remaining - permits \in Nat
      BY <1>0, <2>3 DEF Inner!Future
    <3>. QED
      BY <2>3, <3>1 DEF Inner!Future
  <2>5. /\ acq' = [acq EXCEPT ![f] = r]
        /\ permits' = 0
        /\ UNCHANGED guard
    <3>1. permits' = 0 /\ UNCHANGED guard
      BY <1>4, <2>1 DEF Inner!PollPending, PollWait
    <3>2. acq' = [acq EXCEPT ![f].remaining = @ - permits, ![f].queued = TRUE,
                             ![f].waker = c, ![f].cx = c, ![f].notified = FALSE]
      BY <2>1 DEF Inner!PollPending
    <3>3. acq' = [acq EXCEPT ![f] = r]
      BY <3>2
    <3>. QED
      BY <3>1, <3>3
  <2>. HIDE DEF r
  <2>6. r.num \in Amounts /\ permits' \in Int
    BY <1>0, <2>3, <2>4, <2>5
  <2>7. AskedFor'
    BY <2>4, <2>5, <2>6, OneFuture
  <2>. QED
    BY <2>2, <2>7 DEF Goal
<1>5. ASSUME NEW f \in Futures, PollError(f) PROVE Goal
  <2>1. Inner!PollClosed(f) /\ UNCHANGED guard
    BY <1>5 DEF PollError
  <2>2. Inner!Next
    BY <2>1 DEF Inner!Next, Inner!Poll
  <2>. DEFINE r == [acq[f] EXCEPT !.phase = "failed", !.notified = FALSE]
  <2>3. acq[f] \in Inner!Future /\ acq[f].phase = "live"
    BY <1>0, <2>1 DEF Inner!PollClosed
  <2>4. r \in Inner!Future /\ r.num = acq[f].num
    BY <2>3 DEF Inner!Future
  <2>5. acq' = [acq EXCEPT ![f] = r] /\ permits' = permits
    BY <2>1 DEF Inner!PollClosed
  <2>. HIDE DEF r
  <2>. QED
    BY <1>0, <2>1, <2>2, <2>3, <2>4, <2>5, OneFuture DEF Goal
<1>6. ASSUME NEW f \in Futures, DropFuture(f) PROVE Goal
  <2>1. Inner!DropAcquire(f) /\ UNCHANGED guard
    BY <1>6 DEF DropFuture
  <2>2. Inner!Next
    BY <2>1 DEF Inner!Next
  <2>3. CASE acq[f].queued
    <3>1. acq[f].num - acq[f].remaining \in Int
      BY <1>0 DEF Inner!Future
    <3>2. Inner!AddPermits(acq[f].num - acq[f].remaining, permits,
              Inner!Without(waiters, f), [acq EXCEPT ![f] = Inner!NoFuture])
      BY <2>1, <2>3 DEF Inner!DropAcquire
    <3>3. /\ permits' \in Int
          /\ acq' \in [Futures -> Inner!Future]
          /\ \A g \in Futures : acq'[g].phase # "none" => acq'[g].num \in Amounts
      BY <1>0, <3>1, <3>2, OneFutureLess
    <3>. QED
      BY <1>0, <2>1, <2>2, <3>3 DEF Goal, AskedFor
  <2>4. CASE ~acq[f].queued
    <3>1. Inner!NoFuture \in Inner!Future /\ Inner!NoFuture.phase = "none"
      BY DEF Inner!NoFuture, Inner!Future
    <3>2. acq' = [acq EXCEPT ![f] = Inner!NoFuture] /\ permits' = permits
      BY <2>1, <2>4 DEF Inner!DropAcquire
    <3>. QED
      BY <1>0, <2>1, <2>2, <3>1, <3>2, OneFuture DEF Goal
  <2>. QED
    BY <2>3, <2>4
<1>7. ASSUME NEW f \in Futures, DropPermit(f) PROVE Goal
  <2>1. guard[f] \in Amounts /\ guard' = [guard EXCEPT ![f] = None]
    BY <1>0, <1>7 DEF DropPermit
  <2>2. guard' \in [Futures -> Amounts \cup {None}]
    BY <1>0, <2>1
  <2>3. CASE guard[f] = 0
    <3>1. UNCHANGED innerVars
      BY <1>7, <2>3 DEF DropPermit
    <3>. QED
      BY <1>0, <2>2, <3>1 DEF Goal, AskedFor, innerVars, Inner!vars
  <2>4. CASE guard[f] # 0
    <3>1. Inner!Release(guard[f])
      BY <1>7, <2>4 DEF DropPermit
    <3>2. Inner!Next
      BY <2>1, <3>1 DEF Inner!Next
    <3>3. guard[f] \in Int
      <4>. DEFINE n == guard[f]
      <4>1. n \in Amounts
        BY <2>1
      <4>. HIDE DEF n
      <4>2. n \in Int
        BY <1>0, <4>1
      <4>. QED
        BY <4>2 DEF n
    <3>4. Inner!AddPermits(guard[f], permits, waiters, acq)
      BY <3>1 DEF Inner!Release
    <3>. QED
      BY <1>0, <2>2, <3>2, <3>3, <3>4, AddPermitsKeepsRequests DEF Goal, AskedFor
  <2>. QED
    BY <2>3, <2>4
<1>8. ASSUME NEW f \in Futures, Forget(f) PROVE Goal
  <2>1. guard' = [guard EXCEPT ![f] = None] /\ UNCHANGED innerVars
    BY <1>8 DEF Forget
  <2>. QED
    BY <1>0, <2>1 DEF Goal, AskedFor, innerVars, Inner!vars
<1>9. ASSUME NEW n \in Amounts, AddPermits(n) PROVE Goal
  <2>1. Inner!Release(n) /\ UNCHANGED guard
    BY <1>9 DEF AddPermits
  <2>2. Inner!Next
    BY <2>1 DEF Inner!Next
  <2>3. n \in Int /\ Inner!AddPermits(n, permits, waiters, acq)
    BY <1>0, <2>1 DEF Inner!Release
  <2>. QED
    BY <1>0, <2>1, <2>2, <2>3, AddPermitsKeepsRequests DEF Goal, AskedFor
<1>10. CASE Close
  <2>1. Inner!Close /\ UNCHANGED guard
    BY <1>10 DEF Close
  <2>2. Inner!Next
    BY <2>1 DEF Inner!Next
  <2>3. /\ permits' = permits
        /\ acq' = [f \in Futures |->
                     IF f \in Inner!Range(waiters) THEN Inner!Woken(acq[f]) ELSE acq[f]]
    BY <2>1 DEF Inner!Close
  <2>4. ASSUME NEW f \in Futures
        PROVE  acq'[f] \in Inner!Future /\ acq'[f].phase = acq[f].phase
               /\ acq'[f].num = acq[f].num
    <3>1. acq[f] \in Inner!Future
      BY <1>0
    <3>2. /\ Inner!Woken(acq[f]) \in Inner!Future
          /\ Inner!Woken(acq[f]).phase = acq[f].phase
          /\ Inner!Woken(acq[f]).num = acq[f].num
      BY <3>1 DEF Inner!Woken, Inner!Future
    <3>. QED
      BY <2>3, <3>1, <3>2
  <2>5. acq' \in [Futures -> Inner!Future]
    BY <2>3, <2>4
  <2>. QED
    BY <1>0, <2>1, <2>2, <2>3, <2>4, <2>5 DEF Goal, AskedFor
<1>11. CASE UNCHANGED vars
  BY <1>0, <1>11 DEF Goal, AskedFor, vars, Inner!vars
<1>. QED
  BY <1>1, <1>2, <1>3, <1>4, <1>5, <1>6, <1>7, <1>8, <1>9, <1>10, <1>11 DEF Next, Poll

\* The guards of a semaphore, however they are dropped and forgotten, only make
\* calls that SemaphoreInner has: its theorems hold of the low level semaphore
\* below them.
THEOREM GuardsUseInner == Spec => InnerSpec
<1>1. Init => Inner!Init
  BY DEF Init
<1>. QED
  BY <1>1, InitAskedFor, StepIsInner, PTL DEF Spec, InnerSpec, Inner!Spec
-----------------------------------------------------------------------------
(***************************************************************************)
(* The low level semaphore, with what is proved of it.  The definitions of *)
(* P and of Inner are the same.                                            *)
(***************************************************************************)
P == INSTANCE SemaphoreInnerProofs

LEMMA InnerAssumption == P!SemaphoreAssumption
<1>1. \A S : P!IsFiniteSet(S) <=> IsFiniteSet(S)
  BY DEF P!IsFiniteSet, IsFiniteSet
<1>. QED
  BY <1>1, GuardAssumption DEF P!SemaphoreAssumption

LEMMA SameAddPermits ==
    ASSUME NEW rem, NEW avail, NEW q, NEW a
    PROVE  P!AddPermits(rem, avail, q, a) <=> Inner!AddPermits(rem, avail, q, a)
  BY DEF P!AddPermits, Inner!AddPermits, P!Served, Inner!Served, P!Woken, Inner!Woken

LEMMA SameNext ==
    /\ Inner!Init => P!Init
    /\ [Inner!Next]_(Inner!vars) => [P!Next]_(P!vars)
<1>. USE DEF P!NoFuture, Inner!NoFuture
<1>1. ASSUME NEW f, NEW n PROVE P!Acquire(f, n) <=> Inner!Acquire(f, n)
  BY DEF P!Acquire, Inner!Acquire, P!NewFuture, Inner!NewFuture
<1>2. ASSUME NEW f PROVE P!PollClosed(f) <=> Inner!PollClosed(f)
  BY DEF P!PollClosed, Inner!PollClosed
<1>3. ASSUME NEW f PROVE P!PollFast(f) <=> Inner!PollFast(f)
  BY DEF P!PollFast, Inner!PollFast
<1>4. ASSUME NEW f PROVE P!PollAssigned(f) <=> Inner!PollAssigned(f)
  BY SameAddPermits DEF P!PollAssigned, Inner!PollAssigned
<1>5. ASSUME NEW f, NEW c PROVE P!PollPending(f, c) <=> Inner!PollPending(f, c)
  BY DEF P!PollPending, Inner!PollPending
<1>6. ASSUME NEW f PROVE P!DropAcquire(f) <=> Inner!DropAcquire(f)
  BY SameAddPermits DEF P!DropAcquire, Inner!DropAcquire, P!Without, Inner!Without,
                        P!Range, Inner!Range
<1>7. ASSUME NEW n PROVE P!TryAcquire(n) <=> Inner!TryAcquire(n)
  BY DEF P!TryAcquire, Inner!TryAcquire
<1>8. ASSUME NEW n PROVE P!Release(n) <=> Inner!Release(n)
  BY SameAddPermits DEF P!Release, Inner!Release
<1>9. P!Close <=> Inner!Close
  BY DEF P!Close, Inner!Close, P!Range, Inner!Range, P!Woken, Inner!Woken
<1>10. P!Init <=> Inner!Init
  BY DEF P!Init, Inner!Init
<1>. HIDE DEF P!NoFuture, Inner!NoFuture
<1>11. ASSUME NEW f PROVE P!Poll(f) <=> Inner!Poll(f)
  BY <1>2, <1>3, <1>4, <1>5 DEF P!Poll, Inner!Poll
<1>12. Inner!Next => P!Next
  BY <1>1, <1>6, <1>7, <1>8, <1>9, <1>11 DEF P!Next, Inner!Next
<1>. QED
  BY <1>10, <1>12 DEF P!vars, Inner!vars

LEMMA InnerStep ==
    ASSUME P!FairInv, P!Tally, [Inner!Next]_(Inner!vars)
    PROVE  P!FairInv' /\ P!Tally'
<1>1. [P!Next]_(P!vars)
  BY SameNext
<1>2. P!FairInv'
  BY <1>1, InnerAssumption, P!FairInductive
<1>3. CASE P!Next
  BY <1>2, <1>3, InnerAssumption, P!TallyStep
<1>4. CASE UNCHANGED P!vars
  BY <1>2, <1>4 DEF P!vars, P!Tally
<1>. QED
  BY <1>1, <1>3, <1>4

LEMMA InnerFacts ==
    ASSUME P!FairInv, P!Tally
    PROVE  /\ permits \in Nat
           /\ closed \in BOOLEAN
           /\ balance \in Int
           /\ acq \in [Futures -> P!Future]
           /\ P!Assigned(acq) \in Nat
           /\ permits + P!Assigned(acq) = balance
  BY InnerAssumption, P!FairFacts, P!TallyFacts

(***************************************************************************)
(* What the guards hold is what has left the semaphore and has not been    *)
(* forgotten, and a slot has its future or its guard.                      *)
(***************************************************************************)
Held(g) == [f \in Futures |-> IF g[f] = None THEN 0 ELSE g[f]]

HeldCount(g) == P!Count(Futures, Held(g))

GuardAccount ==
    /\ P!FairInv
    /\ P!Tally
    /\ AskedFor
    /\ \A f \in Futures : acq[f].phase # "none" => guard[f] = None
    /\ supply = balance + HeldCount(guard)

Guards == [Futures -> Nat \cup {None}]

LEMMA HeldType ==
    ASSUME NEW g \in Guards PROVE Held(g) \in [Futures -> Nat] /\ HeldCount(g) \in Nat
<1>1. Held(g) \in [Futures -> Nat]
  BY DEF Guards, Held
<1>2. P!IsFiniteSet(Futures)
  BY InnerAssumption DEF P!SemaphoreAssumption
<1>. QED
  BY <1>1, <1>2, InnerAssumption, P!UnitsFinite DEF HeldCount

\* One guard changes, and the count of all by what it holds more or less.
LEMMA HeldChange ==
    ASSUME NEW g \in Guards, NEW h \in Guards, NEW f \in Futures,
           \A e \in Futures : e # f => h[e] = g[e]
    PROVE  HeldCount(h) = HeldCount(g) - Held(g)[f] + Held(h)[f]
<1>1. Held(g) \in [Futures -> Nat] /\ Held(h) \in [Futures -> Nat]
  BY HeldType
<1>2. \A e \in Futures : e # f => Held(h)[e] = Held(g)[e]
  BY DEF Held
<1>3. P!IsFiniteSet(Futures)
  BY InnerAssumption DEF P!SemaphoreAssumption
<1>4. P!ChangedBy(Futures, Held(g), Held(h), f)
  BY <1>1, <1>2, <1>3, InnerAssumption, P!UnitsChange
<1>. QED
  BY <1>4 DEF P!ChangedBy, HeldCount

\* A slot gets a guard of n permits, or loses one.
LEMMA GuardPut ==
    ASSUME NEW f \in Futures, NEW n \in Nat, guard \in Guards, guard[f] = None,
           guard' = [guard EXCEPT ![f] = n]
    PROVE  guard' \in Guards /\ HeldCount(guard') = HeldCount(guard) + n
<1>1. guard' \in Guards /\ \A e \in Futures : e # f => guard'[e] = guard[e]
  BY DEF Guards
<1>2. guard'[f] = n /\ n # None
  BY GuardAssumption DEF Guards
<1>3. Held(guard)[f] = 0 /\ Held(guard')[f] = n
  BY <1>2 DEF Held
<1>4. HeldCount(guard) \in Nat
  BY HeldType
<1>5. HeldCount(guard') = HeldCount(guard) - Held(guard)[f] + Held(guard')[f]
  BY <1>1, HeldChange
<1>. QED
  BY <1>1, <1>3, <1>4, <1>5

LEMMA GuardTaken ==
    ASSUME NEW f \in Futures, guard \in Guards, guard[f] # None,
           guard' = [guard EXCEPT ![f] = None]
    PROVE  /\ guard' \in Guards
           /\ guard[f] \in Nat
           /\ HeldCount(guard') = HeldCount(guard) - guard[f]
<1>1. guard' \in Guards /\ \A e \in Futures : e # f => guard'[e] = guard[e]
  BY DEF Guards
<1>2. guard'[f] = None /\ guard[f] \in Nat
  BY DEF Guards
<1>3. Held(guard)[f] = guard[f] /\ Held(guard')[f] = 0
  BY <1>2 DEF Held
<1>4. HeldCount(guard) \in Nat
  BY HeldType
<1>5. HeldCount(guard') = HeldCount(guard) - Held(guard)[f] + Held(guard')[f]
  BY <1>1, HeldChange
<1>. QED
  BY <1>1, <1>2, <1>3, <1>4, <1>5

GuardFacts ==
    /\ balance \in Int
    /\ acq \in [Futures -> Inner!Future]
    /\ guard \in Guards
    /\ HeldCount(guard) \in Nat
    /\ supply = balance + HeldCount(guard)

LEMMA GuardAccountHolds == ASSUME GuardAccount PROVE GuardFacts
<1>1. balance \in Int
  BY InnerFacts DEF GuardAccount
<1>2. guard \in Guards
  BY GuardAssumption DEF GuardAccount, AskedFor, Guards
<1>. QED
  BY <1>1, <1>2, HeldType DEF GuardAccount, AskedFor, GuardFacts

\* A step of the semaphore takes the guards along.
LEMMA GuardStep ==
    ASSUME GuardAccount, [Next]_vars,
           \A f \in Futures : acq'[f].phase # "none" => guard'[f] = None,
           supply' = balance' + HeldCount(guard')
    PROVE  GuardAccount'
<1>1. AskedFor' /\ [Inner!Next]_(Inner!vars)
  BY StepIsInner DEF GuardAccount
<1>2. P!FairInv' /\ P!Tally'
  BY <1>1, InnerStep DEF GuardAccount
<1>. QED
  BY <1>1, <1>2 DEF GuardAccount

\* No future begins, and f has none.
Without(f) ==
    \A g \in Futures : acq'[g].phase # "none" => acq[g].phase # "none" /\ g # f

NoneBegins == \A g \in Futures : acq'[g].phase # "none" => acq[g].phase # "none"

LEMMA DropLeaves ==
    ASSUME GuardAccount, NEW f \in Futures, NEW rem \in Int, NEW avail \in Int, NEW q,
           Inner!AddPermits(rem, avail, q, [acq EXCEPT ![f] = Inner!NoFuture])
    PROVE  Without(f)
<1>. DEFINE a == [acq EXCEPT ![f] = Inner!NoFuture]
<1>1. Inner!NoFuture \in Inner!Future /\ Inner!NoFuture.phase = "none"
  BY DEF Inner!NoFuture, Inner!Future
<1>2. /\ a \in [Futures -> Inner!Future]
      /\ a[f].phase = "none"
      /\ \A g \in Futures : g # f => a[g] = acq[g]
  BY <1>1, GuardAccountHolds DEF GuardFacts
<1>. HIDE DEF a
<1>3. \A g \in Futures : acq'[g].phase = a[g].phase
  BY <1>2, AddPermitsKeepsRequests DEF a
<1>. QED
  BY <1>2, <1>3 DEF Without

LEMMA ReadyLeaves ==
    ASSUME GuardAccount, NEW f \in Futures, Inner!PollFast(f) \/ Inner!PollAssigned(f)
    PROVE  /\ Without(f)
           /\ acq[f].phase = "live"
           /\ acq[f].num \in Nat
           /\ balance' = balance - acq[f].num
<1>1. /\ acq[f].phase = "live"
      /\ balance' = balance - acq[f].num
  BY DEF Inner!PollFast, Inner!PollAssigned
<1>2. /\ acq[f] \in Inner!Future
      /\ permits \in Int
      /\ acq \in [Futures -> Inner!Future]
  BY DEF GuardAccount, AskedFor
<1>3. acq[f].num \in Nat /\ acq[f].remaining \in Int
  BY <1>2 DEF Inner!Future
<1>4. CASE Inner!PollFast(f)
  <2>1. acq' = [acq EXCEPT ![f] = Inner!NoFuture] /\ Inner!NoFuture.phase = "none"
    BY <1>4 DEF Inner!PollFast, Inner!NoFuture
  <2>2. \A g \in Futures : acq'[g] = IF g = f THEN Inner!NoFuture ELSE acq[g]
    BY <1>2, <2>1
  <2>3. Without(f)
    BY <2>1, <2>2 DEF Without
  <2>. QED
    BY <1>1, <1>3, <2>3
<1>5. CASE Inner!PollAssigned(f)
  <2>. DEFINE m == permits - acq[f].remaining
  <2>1. m \in Int /\ 0 \in Int
    BY <1>2, <1>3
  <2>2. Inner!AddPermits(m, 0, waiters, [acq EXCEPT ![f] = Inner!NoFuture])
    BY <1>5 DEF Inner!PollAssigned
  <2>. HIDE DEF m
  <2>3. Without(f)
    BY <2>1, <2>2, DropLeaves
  <2>. QED
    BY <1>1, <1>3, <2>3
<1>. QED
  BY <1>4, <1>5

LEMMA WaitLeaves ==
    ASSUME GuardAccount, NEW f \in Futures,
           \/ \E c \in Contexts : Inner!PollPending(f, c)
           \/ Inner!PollClosed(f)
           \/ Inner!DropAcquire(f)
    PROVE  NoneBegins /\ balance' = balance
<1>1. /\ acq[f] \in Inner!Future
      /\ permits \in Int
      /\ acq \in [Futures -> Inner!Future]
  BY DEF GuardAccount, AskedFor
<1>2. ASSUME NEW c \in Contexts, Inner!PollPending(f, c)
      PROVE  NoneBegins /\ balance' = balance
  <2>1. /\ acq[f].phase = "live" /\ balance' = balance
        /\ \A g \in Futures : g # f => acq'[g] = acq[g]
    BY <1>1, <1>2 DEF Inner!PollPending
  <2>. QED
    BY <2>1 DEF NoneBegins
<1>3. CASE Inner!PollClosed(f)
  <2>1. /\ acq[f].phase = "live" /\ balance' = balance
        /\ \A g \in Futures : g # f => acq'[g] = acq[g]
    BY <1>1, <1>3 DEF Inner!PollClosed
  <2>. QED
    BY <2>1 DEF NoneBegins
<1>4. CASE Inner!DropAcquire(f)
  <2>1. acq[f].phase # "none" /\ balance' = balance
    BY <1>4 DEF Inner!DropAcquire
  <2>2. CASE acq[f].queued
    <3>1. acq[f].num - acq[f].remaining \in Int
      BY <1>1 DEF Inner!Future
    <3>2. Without(f)
      BY <1>1, <1>4, <2>2, <3>1, DropLeaves DEF Inner!DropAcquire
    <3>. QED
      BY <2>1, <3>2 DEF Without, NoneBegins
  <2>3. CASE ~acq[f].queued
    <3>1. acq' = [acq EXCEPT ![f] = Inner!NoFuture]
      BY <1>4, <2>3 DEF Inner!DropAcquire
    <3>2. \A g \in Futures : g # f => acq'[g] = acq[g]
      BY <1>1, <3>1
    <3>. QED
      BY <2>1, <3>2 DEF NoneBegins
  <2>. QED
    BY <2>2, <2>3
<1>. QED
  BY <1>2, <1>3, <1>4

LEMMA ReleaseLeaves ==
    ASSUME GuardAccount, NEW n \in Int, Inner!Release(n)
    PROVE  NoneBegins /\ balance' = balance + n
<1>1. permits \in Int /\ acq \in [Futures -> Inner!Future]
  BY DEF GuardAccount, AskedFor
<1>2. Inner!AddPermits(n, permits, waiters, acq) /\ balance' = balance + n
  BY DEF Inner!Release
<1>. QED
  BY <1>1, <1>2, AddPermitsKeepsRequests DEF NoneBegins

LEMMA CloseLeaves ==
    ASSUME GuardAccount, Inner!Close
    PROVE  NoneBegins /\ balance' = balance
<1>1. acq \in [Futures -> Inner!Future] /\ balance' = balance
  BY DEF GuardAccount, AskedFor, Inner!Close
<1>2. ASSUME NEW f \in Futures PROVE acq'[f].phase = acq[f].phase
  <2>1. acq[f] \in Inner!Future
    BY <1>1
  <2>2. acq'[f] = Inner!Woken(acq[f]) \/ acq'[f] = acq[f]
    BY DEF Inner!Close
  <2>. QED
    BY <2>1, <2>2 DEF Inner!Woken, Inner!Future
<1>. QED
  BY <1>1, <1>2 DEF NoneBegins

\* A step that leaves the guards and what has been made of permits alone.
LEMMA QuietGuards ==
    ASSUME GuardAccount, [Next]_vars, NoneBegins, balance' = balance,
           guard' = guard, supply' = supply
    PROVE  GuardAccount'
<1>1. \A f \in Futures : acq'[f].phase # "none" => guard'[f] = None
  BY DEF GuardAccount, NoneBegins
<1>2. supply' = balance' + HeldCount(guard')
  BY DEF GuardAccount
<1>. QED
  BY <1>1, <1>2, GuardStep

LEMMA GuardAccountStep == GuardAccount /\ [Next]_vars => GuardAccount'
<1>. SUFFICES ASSUME GuardAccount, [Next]_vars PROVE GuardAccount'
  OBVIOUS
<1>0. GuardFacts /\ Amounts \subseteq Nat
  BY GuardAccountHolds, GuardAssumption
<1>. DEFINE held == HeldCount(guard)
            held2 == HeldCount(guard')
<1>f. /\ balance \in Int
      /\ acq \in [Futures -> Inner!Future]
      /\ guard \in Guards
      /\ held \in Nat
      /\ supply = balance + held
  BY <1>0 DEF GuardFacts
<1>. HIDE DEF held, held2
<1>1. ASSUME NEW f \in Futures, NEW n \in Amounts, AcquireMany(f, n)
      PROVE  GuardAccount'
  <2>1. /\ guard[f] = None
        /\ acq' = [acq EXCEPT ![f] = Inner!NewFuture(n)]
        /\ balance' = balance /\ guard' = guard /\ supply' = supply
    BY <1>1 DEF AcquireMany, Inner!Acquire
  <2>2. \A g \in Futures : g # f => acq'[g] = acq[g]
    BY <1>f, <2>1
  <2>3. \A g \in Futures : acq'[g].phase # "none" => guard'[g] = None
    BY <2>1, <2>2 DEF GuardAccount
  <2>4. supply' = balance' + HeldCount(guard')
    BY <2>1 DEF GuardAccount
  <2>. QED
    BY <2>3, <2>4, GuardStep
<1>2. ASSUME NEW f \in Futures, NEW n \in Amounts, TryAcquireMany(f, n)
      PROVE  GuardAccount'
  <2>1. /\ acq[f].phase = "none"
        /\ guard[f] = None
        /\ guard' = [guard EXCEPT ![f] = n]
        /\ acq' = acq /\ balance' = balance - n /\ supply' = supply
    BY <1>2 DEF TryAcquireMany, Inner!TryAcquire
  <2>2. n \in Nat
    BY <1>0
  <2>3. held2 = held + n
    BY <1>f, <2>1, <2>2, GuardPut DEF held, held2
  <2>4. supply' = balance' + held2
    BY <1>f, <2>1, <2>2, <2>3
  <2>5. \A g \in Futures : g # f => guard'[g] = guard[g]
    BY <1>f, <2>1 DEF Guards
  <2>6. \A g \in Futures : acq'[g].phase # "none" => guard'[g] = None
    BY <2>1, <2>5 DEF GuardAccount
  <2>. QED
    BY <2>4, <2>6, GuardStep DEF held2
<1>3. ASSUME NEW f \in Futures, PollReady(f) PROVE GuardAccount'
  <2>. DEFINE n == acq[f].num
  <2>1. /\ Without(f)
        /\ acq[f].phase = "live"
        /\ n \in Nat
        /\ balance' = balance - n
    BY <1>3, ReadyLeaves DEF PollReady
  <2>2. guard' = [guard EXCEPT ![f] = n] /\ supply' = supply
    BY <1>3 DEF PollReady
  <2>. HIDE DEF n
  <2>3. guard[f] = None
    BY <2>1 DEF GuardAccount
  <2>4. held2 = held + n
    BY <1>f, <2>1, <2>2, <2>3, GuardPut DEF held, held2
  <2>5. supply' = balance' + held2
    BY <1>f, <2>1, <2>2, <2>4
  <2>6. \A g \in Futures : g # f => guard'[g] = guard[g]
    BY <1>f, <2>2 DEF Guards
  <2>7. \A g \in Futures : acq'[g].phase # "none" => guard'[g] = None
    BY <2>1, <2>6 DEF GuardAccount, Without
  <2>. QED
    BY <2>5, <2>7, GuardStep DEF held2
<1>4. ASSUME NEW f \in Futures, PollWait(f) \/ PollError(f) \/ DropFuture(f)
      PROVE  GuardAccount'
  <2>1. guard' = guard /\ supply' = supply
    BY <1>4 DEF PollWait, PollError, DropFuture
  <2>2. NoneBegins /\ balance' = balance
    BY <1>4, WaitLeaves DEF PollWait, PollError, DropFuture
  <2>. QED
    BY <2>1, <2>2, QuietGuards
<1>5. ASSUME NEW f \in Futures, DropPermit(f) PROVE GuardAccount'
  <2>. DEFINE n == guard[f]
  <2>1. n # None /\ guard' = [guard EXCEPT ![f] = None] /\ supply' = supply
    BY <1>5 DEF DropPermit
  <2>2. n \in Nat /\ held2 = held - n
    BY <1>f, <2>1, GuardTaken DEF held, held2
  <2>3. NoneBegins /\ balance' = balance + n
    <3>1. CASE n = 0
      <4>1. UNCHANGED innerVars
        BY <1>5, <3>1 DEF DropPermit
      <4>2. acq' = acq /\ balance' = balance
        BY <4>1 DEF innerVars
      <4>. QED
        BY <1>f, <3>1, <4>2 DEF NoneBegins
    <3>2. CASE n # 0
      <4>1. Inner!Release(n)
        BY <1>5, <3>2 DEF DropPermit
      <4>. HIDE DEF n
      <4>. QED
        BY <2>2, <4>1, ReleaseLeaves
    <3>. QED
      BY <3>1, <3>2
  <2>. HIDE DEF n
  <2>4. supply' = balance' + held2
    BY <1>f, <2>1, <2>2, <2>3
  <2>5. \A g \in Futures : guard[g] = None => guard'[g] = None
    BY <1>f, <2>1 DEF Guards
  <2>6. \A g \in Futures : acq'[g].phase # "none" => guard'[g] = None
    BY <2>3, <2>5 DEF GuardAccount, NoneBegins
  <2>. QED
    BY <2>4, <2>6, GuardStep DEF held2
<1>6. ASSUME NEW f \in Futures, Forget(f) PROVE GuardAccount'
  <2>. DEFINE n == guard[f]
  <2>1. /\ n # None /\ guard' = [guard EXCEPT ![f] = None]
        /\ supply' = supply - n
        /\ acq' = acq /\ balance' = balance
    BY <1>6 DEF Forget, innerVars
  <2>2. n \in Nat /\ held2 = held - n
    BY <1>f, <2>1, GuardTaken DEF held, held2
  <2>. HIDE DEF n
  <2>3. supply' = balance' + held2
    BY <1>f, <2>1, <2>2
  <2>4. \A g \in Futures : guard[g] = None => guard'[g] = None
    BY <1>f, <2>1 DEF Guards
  <2>5. \A g \in Futures : acq'[g].phase # "none" => guard'[g] = None
    BY <2>1, <2>4 DEF GuardAccount
  <2>. QED
    BY <2>3, <2>5, GuardStep DEF held2
<1>7. ASSUME NEW n \in Amounts, AddPermits(n) PROVE GuardAccount'
  <2>1. Inner!Release(n) /\ guard' = guard /\ supply' = supply + n /\ n \in Int
    BY <1>0, <1>7 DEF AddPermits
  <2>2. NoneBegins /\ balance' = balance + n
    BY <2>1, ReleaseLeaves
  <2>3. held2 = held
    BY <2>1 DEF held, held2
  <2>4. supply' = balance' + held2
    BY <1>f, <2>1, <2>2, <2>3
  <2>5. \A g \in Futures : acq'[g].phase # "none" => guard'[g] = None
    BY <2>1, <2>2 DEF GuardAccount, NoneBegins
  <2>. QED
    BY <2>4, <2>5, GuardStep DEF held2
<1>8. CASE Close
  <2>1. NoneBegins /\ balance' = balance /\ guard' = guard /\ supply' = supply
    BY <1>8, CloseLeaves DEF Close
  <2>. QED
    BY <2>1, QuietGuards
<1>9. CASE UNCHANGED vars
  <2>1. NoneBegins /\ balance' = balance /\ guard' = guard /\ supply' = supply
    BY <1>9 DEF vars, NoneBegins
  <2>. QED
    BY <2>1, QuietGuards
<1>. QED
  BY <1>1, <1>2, <1>3, <1>4, <1>5, <1>6, <1>7, <1>8, <1>9 DEF Next, Poll

LEMMA InitGuardAccount == Init => GuardAccount
<1>. SUFFICES ASSUME Init PROVE GuardAccount
  OBVIOUS
<1>1. P!FairInv /\ P!Tally
  BY SameNext, InnerAssumption, P!FairInit, P!TallyInit DEF Init
<1>2. /\ guard = [f \in Futures |-> None]
      /\ supply = permits /\ balance = permits
  BY DEF Init, Inner!Init
<1>3. HeldCount(guard) = 0
  <2>1. \A f \in Futures : 1..Held(guard)[f] = {}
    BY <1>2 DEF Held
  <2>2. P!Units(Futures, Held(guard)) = {}
    BY <2>1 DEF P!Units
  <2>3. P!Cardinality({}) = 0
    BY InnerAssumption, P!FS_EmptySet
  <2>. QED
    BY <2>2, <2>3 DEF HeldCount, P!Count
<1>4. AskedFor
  BY InitAskedFor
<1>. QED
  BY <1>1, <1>2, <1>3, <1>4 DEF GuardAccount, AskedFor

LEMMA GuardAccountIsAccount == GuardAccount => PermitsAccounted
<1>. SUFFICES ASSUME GuardAccount PROVE PermitsAccounted
  OBVIOUS
<1>0. GuardFacts
  BY GuardAccountHolds
<1>1. \A S : P!Cardinality(S) = Cardinality(S)
  BY DEF P!Cardinality, Cardinality
<1>2. permits + Cardinality(Inner!AssignedUnits) = balance
  <2>1. P!PermitsConserved
    BY InnerAssumption, P!TallyIsConservation DEF GuardAccount
  <2>2. P!AssignedUnits = Inner!AssignedUnits
    BY DEF P!AssignedUnits, Inner!AssignedUnits
  <2>. QED
    BY <1>1, <2>1, <2>2 DEF P!PermitsConserved
<1>3. HeldCount(guard) = Cardinality(HeldUnits)
  <2>1. guard \in Guards
    BY <1>0 DEF GuardFacts
  <2>2. P!Units(Futures, Held(guard)) = HeldUnits
    <3>. DEFINE Some == {g \in Futures : guard[g] # None}
    <3>1. \A f \in Some : Held(guard)[f] = guard[f]
      BY DEF Held
    <3>2. \A f \in Futures \ Some : 1..Held(guard)[f] = {}
      BY DEF Held
    <3>3. \A u : u \in P!Units(Futures, Held(guard)) <=> u \in HeldUnits
      <4>1. \A u : u \in P!Units(Futures, Held(guard))
                     <=> \E f \in Futures : u \in {f} \X (1..Held(guard)[f])
        BY DEF P!Units
      <4>2. \A u : u \in HeldUnits <=> \E f \in Some : u \in {f} \X (1..guard[f])
        BY DEF HeldUnits
      <4>. QED
        BY <3>1, <3>2, <4>1, <4>2
    <3>. QED
      BY <3>3
  <2>. QED
    BY <1>1, <2>2 DEF HeldCount, P!Count
<1>. QED
  BY <1>0, <1>2, <1>3 DEF GuardFacts, PermitsAccounted

\* The permits made and not forgotten are in the word, assigned to futures or held
\* by guards, each once: no call, cancellation, close or drop loses or doubles one.
THEOREM PermitsAreAccounted == Spec => []PermitsAccounted
  BY InitGuardAccount, GuardAccountStep, GuardAccountIsAccount, PTL DEF Spec
=============================================================================
