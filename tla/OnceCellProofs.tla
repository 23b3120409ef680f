--------------------------- MODULE OnceCellProofs ---------------------------
(***************************************************************************)
(* Theorems about OnceCell, for any number of calls and contexts: who      *)
(* holds the one permit initialises the cell, and the flags, the value and *)
(* the semaphore tell the same of it until it is gone.                     *)
(*                                                                         *)
(* SemaphoreInnerProofs shows that the permit is in the word, assigned to  *)
(* a call that waits, or not in the semaphore at all; here it is shown     *)
(* that it is missing exactly while some call initialises the cell.        *)
(***************************************************************************)
EXTENDS OnceCell, SequenceTheorems, FiniteSetTheorems, TLAPS

\* The low level semaphore, with what is proved of it.  The definitions of P and
\* of Inner are the same.
P == INSTANCE SemaphoreInnerProofs WITH
    Amounts <- {1}, InitialPermits <- 1, MaxBalance <- 2

LEMMA InnerAssumption == P!SemaphoreAssumption
<1>1. \A S : P!IsFiniteSet(S) <=> IsFiniteSet(S)
  BY DEF P!IsFiniteSet, IsFiniteSet
<1>. QED
  BY <1>1, OnceCellAssumption DEF P!SemaphoreAssumption

LEMMA SameAddPermits ==
    ASSUME NEW rem, NEW avail, NEW q, NEW a
    PROVE  P!AddPermits(rem, avail, q, a) <=> Inner!AddPermits(rem, avail, q, a)
  BY DEF P!AddPermits, Inner!AddPermits, P!Served, Inner!Served, P!Woken, Inner!Woken

LEMMA SameNext ==
    /\ Inner!Init => P!Init
    /\ [Inner!Next]_(Inner!vars) => [P!Next]_(P!vars)
<1>. USE DEF P!NoFuture, Inner!NoFuture
<1>1. ASSUME NEW f, NEW n PROVE P!Acquire(f, n) <=> Inner!Acquire(f, n)
  BY DEF P!Acquire, Inner!Acquire, P!NewFuture, Inner!NewFuture
<1>2. ASSUME NEW f PROVE P!PollClosed(f) <=> Inner!PollClosed(f)
  BY DEF P!PollClosed, Inner!PollClosed
<1>3. ASSUME NEW f PROVE P!PollFast(f) <=> Inner!PollFast(f)
  BY DEF P!PollFast, Inner!PollFast
<1>4. ASSUME NEW f PROVE P!PollAssigned(f) <=> Inner!PollAssigned(f)
  BY SameAddPermits DEF P!PollAssigned, Inner!PollAssigned
<1>5. ASSUME NEW f, NEW c PROVE P!PollPending(f, c) <=> Inner!PollPending(f, c)
  BY DEF P!PollPending, Inner!PollPending
<1>6. ASSUME NEW f PROVE P!DropAcquire(f) <=> Inner!DropAcquire(f)
  BY SameAddPermits DEF P!DropAcquire, Inner!DropAcquire, P!Without, Inner!Without,
                        P!Range, Inner!Range
<1>7. ASSUME NEW n PROVE P!TryAcquire(n) <=> Inner!TryAcquire(n)
  BY DEF P!TryAcquire, Inner!TryAcquire
<1>8. ASSUME NEW n PROVE P!Release(n) <=> Inner!Release(n)
  BY SameAddPermits DEF P!Release, Inner!Release
<1>9. P!Close <=> Inner!Close
  BY DEF P!Close, Inner!Close, P!Range, Inner!Range, P!Woken, Inner!Woken
<1>10. P!Init <=> Inner!Init
  BY DEF P!Init, Inner!Init
<1>. HIDE DEF P!NoFuture, Inner!NoFuture
<1>11. ASSUME NEW f PROVE P!Poll(f) <=> Inner!Poll(f)
  BY <1>2, <1>3, <1>4, <1>5 DEF P!Poll, Inner!Poll
<1>12. Inner!Next => P!Next
  BY <1>1, <1>6, <1>7, <1>8, <1>9, <1>11 DEF P!Next, Inner!Next
<1>. QED
  BY <1>10, <1>12 DEF P!vars, Inner!vars

LEMMA InnerStep ==
    ASSUME P!FairInv, P!Tally, [Inner!Next]_(Inner!vars)
    PROVE  P!FairInv' /\ P!Tally'
<1>1. [P!Next]_(P!vars)
  BY SameNext
<1>2. P!FairInv'
  BY <1>1, InnerAssumption, P!FairInductive
<1>3. CASE P!Next
  BY <1>2, <1>3, InnerAssumption, P!TallyStep
<1>4. CASE UNCHANGED P!vars
  BY <1>2, <1>4 DEF P!vars, P!Tally
<1>. QED
  BY <1>1, <1>3, <1>4

LEMMA InnerFacts ==
    ASSUME P!FairInv, P!Tally
    PROVE  /\ permits \in Nat
           /\ closed \in BOOLEAN
           /\ balance \in Int
           /\ acq \in [Futures -> P!Future]
           /\ P!Assigned(acq) \in Nat
           /\ permits + P!Assigned(acq) = balance
  BY InnerAssumption, P!FairFacts, P!TallyFacts


(***************************************************************************)
(* The inductive invariant.  Matched: a call has a future as long as it    *)
(* acquires, for the one permit.  Written: what the flags, the value and   *)
(* the history of its disposal tell of the cell.  HeldOnce: the semaphore  *)
(* of a cell without a value lacks its permit exactly when some call       *)
(* initialises the cell, and that is the only one.                         *)
(***************************************************************************)
Calls == {"idle", "acquiring", "initializing", "setting"}

MatchedBy(a, c) ==
    \A f \in Futures : /\ a[f].phase # "none" <=> c[f] = "acquiring"
                       /\ a[f].phase # "none" => a[f].num = 1

Written ==
    /\ value_set \in BOOLEAN
    /\ cell = "alive" => (/\ closed <=> value_set
                          /\ value_set <=> value # Uninit)
    /\ cell \in {"moved", "taken"} => ~value_set
    /\ cell # "alive" => Unused
    /\ disposed = IF cell = "alive" \/ value = Uninit THEN 0 ELSE 1

HeldOnce ==
    cell = "alive" =>
       \/ closed /\ Initializers = {}
       \/ ~closed /\ balance = 1 /\ Initializers = {}
       \/ ~closed /\ balance = 0 /\ \E f \in Futures : Initializers = {f}

IndInv ==
    /\ P!FairInv
    /\ P!Tally
    /\ call \in [Futures -> Calls]
    /\ MatchedBy(acq, call)
    /\ Written
    /\ HeldOnce
-----------------------------------------------------------------------------
\* What a step does to the other futures: they stay, for as many permits.
Others(f) ==
    \A g \in Futures \ {f} : /\ acq'[g].phase # "none" <=> acq[g].phase # "none"
                             /\ acq'[g].num = acq[g].num

LEMMA NoFutureType == P!NoFuture \in P!Future /\ P!NoFuture.phase = "none"
  BY DEF P!NoFuture, P!Future

LEMMA SameNoFuture == P!NoFuture = Inner!NoFuture
  BY DEF P!NoFuture, Inner!NoFuture

\* Dropping a future keeps the others, with the release that may follow.
LEMMA DropKeeps ==
    ASSUME P!FairInv, P!Tally, NEW f \in Futures, NEW rem, NEW avail, NEW q,
           Inner!AddPermits(rem, avail, q, [acq EXCEPT ![f] = Inner!NoFuture])
    PROVE  Others(f) /\ acq'[f].phase = "none"
<1>. DEFINE a == [acq EXCEPT ![f] = P!NoFuture]
<1>1. /\ a \in [Futures -> P!Future]
      /\ a[f].phase = "none"
      /\ \A g \in Futures : g # f => a[g] = acq[g]
  BY InnerFacts, NoFutureType
<1>2. P!AddPermits(rem, avail, q, a)
  BY SameAddPermits, SameNoFuture
<1>. HIDE DEF a
<1>3. \A g \in Futures : acq'[g].phase = a[g].phase /\ acq'[g].num = a[g].num
  BY <1>1, <1>2, InnerAssumption, P!ReleaseKeeps
<1>. QED
  BY <1>1, <1>3 DEF Others

\* The future is replaced by another, or by none.
LEMMA OneChanged ==
    ASSUME P!FairInv, P!Tally, NEW f \in Futures, NEW r,
           acq' = [acq EXCEPT ![f] = r]
    PROVE  Others(f) /\ acq'[f] = r
<1>1. \A g \in Futures : acq'[g] = IF g = f THEN r ELSE acq[g]
  BY InnerFacts
<1>. QED
  BY <1>1 DEF Others

LEMMA AcquireEffect ==
    ASSUME P!FairInv, P!Tally, NEW f \in Futures, Inner!Acquire(f, 1)
    PROVE  /\ Others(f)
           /\ acq'[f].phase = "live" /\ acq'[f].num = 1
           /\ closed' = closed /\ balance' = balance
<1>1. /\ acq' = [acq EXCEPT ![f] = Inner!NewFuture(1)]
      /\ closed' = closed /\ balance' = balance
  BY DEF Inner!Acquire
<1>2. Inner!NewFuture(1).phase = "live" /\ Inner!NewFuture(1).num = 1
  BY DEF Inner!NewFuture, Inner!NoFuture
<1>. QED
  BY <1>1, <1>2, OneChanged

LEMMA ReadyEffect ==
    ASSUME P!FairInv, P!Tally, NEW f \in Futures,
           Inner!PollFast(f) \/ Inner!PollAssigned(f)
    PROVE  /\ Others(f)
           /\ acq'[f].phase = "none"
           /\ acq[f].phase = "live"
           /\ closed = FALSE /\ closed' = FALSE
           /\ balance' = balance - acq[f].num
<1>1. /\ acq[f].phase = "live"
      /\ closed = FALSE /\ closed' = FALSE
      /\ balance' = balance - acq[f].num
  BY InnerFacts DEF Inner!PollFast, Inner!PollAssigned
<1>2. CASE Inner!PollFast(f)
  <2>1. acq' = [acq EXCEPT ![f] = P!NoFuture]
    BY <1>2, SameNoFuture DEF Inner!PollFast
  <2>. QED
    BY <1>1, <2>1, OneChanged, NoFutureType
<1>3. CASE Inner!PollAssigned(f)
  BY <1>1, <1>3, DropKeeps DEF Inner!PollAssigned
<1>. QED
  BY <1>2, <1>3

LEMMA WaitEffect ==
    ASSUME P!FairInv, P!Tally, NEW f \in Futures,
           (\E c \in Contexts : Inner!PollPending(f, c)) \/ Inner!PollClosed(f)
    PROVE  /\ Others(f)
           /\ acq[f].phase # "none" /\ acq'[f].phase # "none"
           /\ acq'[f].num = acq[f].num
           /\ closed' = closed /\ balance' = balance
<1>0. acq \in [Futures -> P!Future] /\ closed \in BOOLEAN /\ acq[f] \in P!Future
  BY InnerFacts
<1>1. ASSUME NEW c \in Contexts, Inner!PollPending(f, c)
      PROVE  /\ closed' = closed /\ balance' = balance
             /\ acq[f].phase = "live"
             /\ \E r : /\ acq' = [acq EXCEPT ![f] = r]
                       /\ r.phase = "live" /\ r.num = acq[f].num
  <2>. DEFINE r == [acq[f] EXCEPT !.remaining = @ - permits, !.queued = TRUE,
                                  !.waker = c, !.cx = c, !.notified = FALSE]
  <2>1. closed' = closed /\ balance' = balance /\ acq[f].phase = "live"
    BY <1>0, <1>1 DEF Inner!PollPending
  <2>2. acq' = [acq EXCEPT ![f] = r]
    BY <1>1 DEF Inner!PollPending
  <2>3. r.phase = "live" /\ r.num = acq[f].num
    BY <1>0, <2>1 DEF P!Future
  <2>. HIDE DEF r
  <2>. QED
    BY <2>1, <2>2, <2>3
<1>2. ASSUME Inner!PollClosed(f)
      PROVE  /\ closed' = closed /\ balance' = balance
             /\ acq[f].phase = "live"
             /\ \E r : /\ acq' = [acq EXCEPT ![f] = r]
                       /\ r.phase = "failed" /\ r.num = acq[f].num
  <2>. DEFINE r == [acq[f] EXCEPT !.phase = "failed", !.notified = FALSE]
  <2>1. closed' = closed /\ balance' = balance /\ acq[f].phase = "live"
    BY <1>2 DEF Inner!PollClosed
  <2>2. acq' = [acq EXCEPT ![f] = r]
    BY <1>2 DEF Inner!PollClosed
  <2>3. r.phase = "failed" /\ r.num = acq[f].num
    BY <1>0 DEF P!Future
  <2>. HIDE DEF r
  <2>. QED
    BY <2>1, <2>2, <2>3
<1>3. /\ closed' = closed /\ balance' = balance
      /\ acq[f].phase # "none"
      /\ \E r : /\ acq' = [acq EXCEPT ![f] = r]
                /\ r.phase # "none" /\ r.num = acq[f].num
  BY <1>1, <1>2
<1>. QED
  BY <1>3, OneChanged

LEMMA DropEffect ==
    ASSUME P!FairInv, P!Tally, NEW f \in Futures, Inner!DropAcquire(f)
    PROVE  /\ Others(f)
           /\ acq'[f].phase = "none"
           /\ closed' = closed /\ balance' = balance
<1>1. closed' = closed /\ balance' = balance
  BY DEF Inner!DropAcquire
<1>2. CASE acq[f].queued
  BY <1>1, <1>2, DropKeeps DEF Inner!DropAcquire
<1>3. CASE ~acq[f].queued
  <2>1. acq' = [acq EXCEPT ![f] = P!NoFuture]
    BY <1>3, SameNoFuture DEF Inner!DropAcquire
  <2>. QED
    BY <1>1, <2>1, OneChanged, NoFutureType
<1>. QED
  BY <1>2, <1>3

\* A release and a close leave every future for what it is.
Kept == \A g \in Futures : acq'[g].phase = acq[g].phase /\ acq'[g].num = acq[g].num

LEMMA ReleaseEffect ==
    ASSUME P!FairInv, P!Tally, Inner!Release(1)
    PROVE  Kept /\ closed' = closed /\ balance' = balance + 1
<1>1. /\ P!AddPermits(1, permits, waiters, acq)
      /\ closed' = closed
      /\ balance' = balance + 1
  BY SameAddPermits DEF Inner!Release
<1>. QED
  BY <1>1, InnerFacts, InnerAssumption, P!ReleaseKeeps DEF Kept

LEMMA CloseEffect ==
    ASSUME P!FairInv, P!Tally, Inner!Close
    PROVE  Kept /\ closed' = TRUE /\ balance' = balance
<1>1. ASSUME NEW g \in Futures
      PROVE  acq'[g].phase = acq[g].phase /\ acq'[g].num = acq[g].num
  <2>1. acq[g] \in P!Future
    BY InnerFacts
  <2>2. acq'[g] = Inner!Woken(acq[g]) \/ acq'[g] = acq[g]
    BY DEF Inner!Close
  <2>. QED
    BY <2>1, <2>2 DEF Inner!Woken, P!Future
<1>. QED
  BY <1>1 DEF Kept, Inner!Close
-----------------------------------------------------------------------------
(***************************************************************************)
(* A cell that is new: nobody waits, and what is left of the futures of    *)
(* the cell before it asks for nothing.                                    *)
(***************************************************************************)
Fresh ==
    /\ permits \in {0, 1}
    /\ balance = permits
    /\ closed \in BOOLEAN
    /\ waiters = <<>>
    /\ acq \in [Futures -> P!Future]
    /\ \A f \in Futures : /\ acq[f].phase = "none"
                          /\ ~acq[f].queued
                          /\ acq[f].remaining = acq[f].num

LEMMA NothingAssigned ==
    ASSUME \A f \in Futures : acq[f].num \in Nat /\ acq[f].remaining = acq[f].num
    PROVE  P!Assigned(acq) = 0
<1>1. \A f \in Futures : P!Parts(acq)[f] = 0
  BY DEF P!Parts
<1>2. P!Units(Futures, P!Parts(acq)) = {}
  BY <1>1 DEF P!Units
<1>3. P!Cardinality({}) = Cardinality({})
  BY DEF P!Cardinality, Cardinality
<1>. QED
  BY <1>2, <1>3, FS_EmptySet DEF P!Assigned, P!Count

LEMMA FreshSound == Fresh => P!FairInv /\ P!Tally
<1>. SUFFICES ASSUME Fresh PROVE P!FairInv /\ P!Tally
  OBVIOUS
<1>1. \A f \in Futures : /\ acq[f].phase = "none"
                         /\ ~acq[f].queued
                         /\ acq[f].num \in Nat
                         /\ acq[f].remaining = acq[f].num
  <2>. TAKE f \in Futures
  <2>1. acq[f] \in P!Future
    BY DEF Fresh
  <2>. QED
    BY <2>1 DEF Fresh, P!Future
<1>2. /\ waiters = <<>> /\ waiters \in Seq(Futures) /\ Len(waiters) = 0
      /\ permits \in Nat /\ balance = permits /\ closed \in BOOLEAN
  BY DEF Fresh
<1>3. P!Range(waiters) = {}
  BY <1>2 DEF P!Range
<1>4. P!IndInv
  <2>1. P!TypeOK
    BY <1>2 DEF Fresh, P!TypeOK
  <2>2. P!WaitersAreLive
    BY <1>1, <1>2, <1>3 DEF P!WaitersAreLive, P!Waiting, P!Distinct
  <2>3. P!NoIdlePermits /\ P!WakerIsCurrent
    BY <1>2, <1>3 DEF P!NoIdlePermits, P!WakerIsCurrent
  <2>4. P!NoLostWakeup /\ P!AssignedWithinRequest
    BY <1>1 DEF P!NoLostWakeup, P!AssignedWithinRequest
  <2>. QED
    BY <2>1, <2>2, <2>3, <2>4 DEF P!IndInv
<1>5. P!OnlyFirstFed(waiters, acq) /\ P!Requested(closed, acq)
  BY <1>1, <1>2 DEF P!OnlyFirstFed, P!Requested, P!Request
<1>6. P!Assigned(acq) = 0
  BY <1>1, NothingAssigned
<1>. QED
  BY <1>2, <1>4, <1>5, <1>6 DEF P!FairInv, P!Tally

LEMMA FreshNext == Fresh' => (P!FairInv /\ P!Tally)'
  BY FreshSound, PTL

LEMMA NewCellFacts ==
    ASSUME NEW new \in NewCells
    PROVE  /\ new.permits \in {0, 1}
           /\ new.closed \in BOOLEAN
           /\ \/ new.permits = 1 /\ new.closed = FALSE /\ new.value = Uninit
              \/ new.permits = 0 /\ new.closed = TRUE /\ new.value # Uninit
<1>1. CASE new = Empty
  BY <1>1 DEF Empty
<1>2. ASSUME NEW f \in Futures, new = Full(f)
      PROVE  new.permits = 0 /\ new.closed = TRUE /\ new.value # Uninit
  BY <1>2, OnceCellAssumption DEF Full
<1>. QED
  BY <1>1, <1>2 DEF NewCells

LEMMA InitIndInv == Init => IndInv
<1>. SUFFICES ASSUME Init PROVE IndInv
  OBVIOUS
<1>1. PICK new \in NewCells :
         /\ permits = new.permits
         /\ closed = new.closed
         /\ balance = new.permits
         /\ value_set = new.closed
         /\ value = new.value
  BY DEF Init
<1>2. /\ waiters = <<>>
      /\ acq = [f \in Futures |-> P!NoFuture]
      /\ call = [f \in Futures |-> "idle"]
      /\ cell = "alive"
      /\ disposed = 0
  BY SameNoFuture DEF Init
<1>3. \/ permits = 1 /\ ~closed /\ value = Uninit
      \/ permits = 0 /\ closed /\ value # Uninit
  BY <1>1, NewCellFacts
<1>4. closed \in BOOLEAN /\ balance = permits /\ value_set = closed
  BY <1>1, NewCellFacts
<1>5. P!FairInv /\ P!Tally
  <2>1. P!NoFuture \in P!Future
    BY NoFutureType
  <2>2. /\ P!NoFuture.phase = "none" /\ ~P!NoFuture.queued
        /\ P!NoFuture.remaining = P!NoFuture.num
    BY DEF P!NoFuture
  <2>3. Fresh
    BY <1>2, <1>3, <1>4, <2>1, <2>2 DEF Fresh
  <2>. QED
    BY <2>3, FreshSound
<1>6. Initializers = {}
  BY <1>2 DEF Initializers
<1>7. MatchedBy(acq, call) /\ call \in [Futures -> Calls]
  BY <1>2, NoFutureType DEF MatchedBy, Calls
<1>8. Written /\ HeldOnce
  BY <1>2, <1>3, <1>4, <1>6 DEF Written, HeldOnce
<1>. QED
  BY <1>5, <1>7, <1>8 DEF IndInv
-----------------------------------------------------------------------------
\* The steps of a call, by what becomes of its state, its future and the permit.
LEMMA MatchStep ==
    ASSUME IndInv, NEW f \in Futures, NEW s \in Calls, Others(f),
           call' = [call EXCEPT ![f] = s],
           acq'[f].phase # "none" <=> s = "acquiring",
           acq'[f].phase # "none" => acq'[f].num = 1
    PROVE  /\ call' \in [Futures -> Calls]
           /\ MatchedBy(acq', call')
           /\ \A g \in Futures \ {f} : call'[g] = call[g]
           /\ call'[f] = s
<1>1. /\ call' \in [Futures -> Calls]
      /\ \A g \in Futures : call'[g] = IF g = f THEN s ELSE call[g]
  BY DEF IndInv
<1>. QED
  BY <1>1 DEF IndInv, MatchedBy, Others

\* While the semaphore is used by a call, the cell is there.
LEMMA UsedIsAlive ==
    ASSUME IndInv, NEW f \in Futures, call[f] # "idle"
    PROVE  cell = "alive"
  BY DEF IndInv, Written, Unused

CellUnchanged == value_set' = value_set /\ value' = value /\ cell' = cell /\ disposed' = disposed

\* A step in which nobody becomes or ceases to be an initializer, and the permit
\* stays where it is.
LEMMA PassiveStep ==
    ASSUME IndInv, [Inner!Next]_(Inner!vars), cell = "alive", CellUnchanged,
           NEW f \in Futures, NEW s \in {"idle", "acquiring"},
           call[f] \in {"idle", "acquiring"},
           Others(f), call' = [call EXCEPT ![f] = s],
           acq'[f].phase # "none" <=> s = "acquiring",
           acq'[f].phase # "none" => acq'[f].num = 1,
           closed' = closed, balance' = balance
    PROVE  IndInv'
<1>1. /\ call' \in [Futures -> Calls]
      /\ MatchedBy(acq', call')
      /\ \A g \in Futures \ {f} : call'[g] = call[g]
      /\ call'[f] = s
  BY MatchStep DEF Calls
<1>2. Initializers' = Initializers
  BY <1>1 DEF Initializers
<1>3. P!FairInv' /\ P!Tally'
  BY InnerStep DEF IndInv
<1>4. Written'
  BY DEF IndInv, Written, CellUnchanged
<1>5. HeldOnce'
  BY <1>2 DEF IndInv, HeldOnce, CellUnchanged
<1>. QED
  BY <1>1, <1>3, <1>4, <1>5 DEF IndInv

LEMMA BalanceIsCount == P!FairInv /\ P!Tally => balance \in Nat
<1>. SUFFICES ASSUME P!FairInv, P!Tally PROVE balance \in Nat
  OBVIOUS
<1>. DEFINE x == P!Assigned(acq)
<1>1. permits \in Nat /\ x \in Nat /\ permits + x = balance
  BY InnerFacts
<1>. HIDE DEF x
<1>. QED
  BY <1>1

LEMMA BalanceNext == (P!FairInv /\ P!Tally)' => (balance \in Nat)'
  BY BalanceIsCount, PTL

\* A call takes the permit: so far, nobody had it.
LEMMA TakingStep ==
    ASSUME IndInv, [Inner!Next]_(Inner!vars), cell = "alive", CellUnchanged,
           NEW f \in Futures, NEW s \in {"initializing", "setting"},
           Others(f), call' = [call EXCEPT ![f] = s],
           acq'[f].phase = "none",
           ~closed, ~closed', balance' = balance - 1
    PROVE  IndInv'
<1>1. /\ call' \in [Futures -> Calls]
      /\ MatchedBy(acq', call')
      /\ \A g \in Futures \ {f} : call'[g] = call[g]
      /\ call'[f] = s
  BY MatchStep DEF Calls
<1>2. P!FairInv' /\ P!Tally'
  BY InnerStep DEF IndInv
<1>3. balance = 1 /\ Initializers = {} /\ balance' = 0
  <2>2. balance' \in Nat
    BY <1>2, BalanceNext
  <2>3. \/ balance = 1 /\ Initializers = {}
        \/ balance = 0
    BY DEF IndInv, HeldOnce
  <2>. QED
    BY <2>2, <2>3
<1>4. Initializers' = {f}
  BY <1>1, <1>3 DEF Initializers
<1>5. Written'
  BY DEF IndInv, Written, CellUnchanged
<1>6. HeldOnce'
  BY <1>3, <1>4 DEF HeldOnce
<1>. QED
  BY <1>1, <1>2, <1>5, <1>6 DEF IndInv
-----------------------------------------------------------------------------
LEMMA CallType ==
    ASSUME IndInv, NEW f \in Futures
    PROVE  call[f] \in Calls /\ call = [call EXCEPT ![f] = call[f]]
  BY DEF IndInv

LEMMA LifeKept ==
    ASSUME UNCHANGED <<value_set, value, lifeVars>> PROVE CellUnchanged
  BY DEF lifeVars, CellUnchanged

LEMMA AcquireSound ==
    ASSUME IndInv, NEW f \in Futures, GetOrInit(f) PROVE IndInv'
<1>1. /\ Inner!Acquire(f, 1)
      /\ call[f] = "idle"
      /\ call' = [call EXCEPT ![f] = "acquiring"]
      /\ cell = "alive"
      /\ CellUnchanged
  BY LifeKept DEF GetOrInit, Running
<1>2. Inner!Next
  BY <1>1 DEF Inner!Next
<1>3. /\ Others(f)
      /\ acq'[f].phase = "live" /\ acq'[f].num = 1
      /\ closed' = closed /\ balance' = balance
  BY <1>1, AcquireEffect DEF IndInv
<1>. QED
  BY <1>1, <1>2, <1>3, PassiveStep

\* A call that returns without the permit, having found the value or not.
LEMMA DropSound ==
    ASSUME IndInv, NEW f \in Futures, PollInitialized(f) \/ DropFuture(f)
    PROVE  IndInv'
<1>1. /\ Inner!DropAcquire(f)
      /\ call[f] = "acquiring"
      /\ call' = [call EXCEPT ![f] = "idle"]
      /\ cell = "alive"
      /\ CellUnchanged
  BY LifeKept DEF PollInitialized, DropFuture, Running
<1>2. Inner!Next
  BY <1>1 DEF Inner!Next
<1>3. /\ Others(f)
      /\ acq'[f].phase = "none"
      /\ closed' = closed /\ balance' = balance
  BY <1>1, DropEffect DEF IndInv
<1>. QED
  BY <1>1, <1>2, <1>3, PassiveStep

LEMMA WaitSound ==
    ASSUME IndInv, NEW f \in Futures, PollWait(f) \/ PollClosed(f)
    PROVE  IndInv'
<1>1. /\ (\E c \in Contexts : Inner!PollPending(f, c)) \/ Inner!PollClosed(f)
      /\ call[f] = "acquiring"
      /\ call' = call
      /\ cell = "alive"
      /\ CellUnchanged
  BY LifeKept DEF PollWait, PollClosed, PollsAcquire, Running
<1>2. Inner!Next
  BY <1>1 DEF Inner!Next, Inner!Poll
<1>3. /\ Others(f)
      /\ acq[f].phase # "none" /\ acq'[f].phase # "none"
      /\ acq'[f].num = acq[f].num
      /\ closed' = closed /\ balance' = balance
  BY <1>1, WaitEffect DEF IndInv
<1>4. call' = [call EXCEPT ![f] = "acquiring"]
  BY <1>1, CallType
<1>5. acq'[f].num = 1
  BY <1>3 DEF IndInv, MatchedBy
<1>. QED
  BY <1>1, <1>2, <1>3, <1>4, <1>5, PassiveStep

LEMMA AcquiredSound ==
    ASSUME IndInv, NEW f \in Futures, PollAcquired(f) PROVE IndInv'
<1>1. /\ Inner!PollFast(f) \/ Inner!PollAssigned(f)
      /\ call' = [call EXCEPT ![f] = "initializing"]
      /\ cell = "alive"
      /\ CellUnchanged
  BY LifeKept DEF PollAcquired, PollsAcquire, Running
<1>2. Inner!Next
  BY <1>1 DEF Inner!Next, Inner!Poll
<1>3. /\ Others(f)
      /\ acq'[f].phase = "none"
      /\ acq[f].phase = "live"
      /\ closed = FALSE /\ closed' = FALSE
      /\ balance' = balance - acq[f].num
  BY <1>1, ReadyEffect DEF IndInv
<1>4. balance' = balance - 1
  BY <1>3 DEF IndInv, MatchedBy
<1>. QED
  BY <1>1, <1>2, <1>3, <1>4, TakingStep

LEMMA SetSound ==
    ASSUME IndInv, NEW f \in Futures, Set(f) PROVE IndInv'
<1>1. /\ Inner!TryAcquire(1)
      /\ call[f] = "idle"
      /\ call' = [call EXCEPT ![f] = "setting"]
      /\ cell = "alive"
      /\ CellUnchanged
  BY LifeKept DEF Set, Running
<1>2. Inner!Next
  BY <1>1 DEF Inner!Next
<1>3. acq' = acq /\ ~closed /\ ~closed' /\ balance' = balance - 1
  BY <1>1 DEF Inner!TryAcquire
<1>4. Others(f) /\ acq'[f].phase = "none"
  BY <1>1, <1>3 DEF Others, IndInv, MatchedBy
<1>. QED
  BY <1>1, <1>2, <1>3, <1>4, TakingStep

\* The call that initialises is the only one, and holds the permit.
LEMMA HolderFacts ==
    ASSUME IndInv, NEW f \in Futures, call[f] \in {"initializing", "setting"}
    PROVE  /\ cell = "alive"
           /\ ~closed
           /\ Initializers = {f}
           /\ balance = 0
           /\ acq[f].phase = "none"
<1>1. cell = "alive" /\ f \in Initializers
  BY UsedIsAlive DEF Initializers
<1>. QED
  BY <1>1 DEF IndInv, HeldOnce, MatchedBy

\* It ends, and the semaphore is released or closed.
LEMMA EndFacts ==
    ASSUME IndInv, NEW f \in Futures, call[f] \in {"initializing", "setting"},
           call' = [call EXCEPT ![f] = "idle"], Kept
    PROVE  /\ call' \in [Futures -> Calls]
           /\ MatchedBy(acq', call')
           /\ Initializers' = {}
<1>1. Others(f) /\ acq'[f].phase = "none"
  BY HolderFacts DEF Kept, Others
<1>2. /\ call' \in [Futures -> Calls]
      /\ MatchedBy(acq', call')
      /\ \A g \in Futures \ {f} : call'[g] = call[g]
      /\ call'[f] = "idle"
  BY <1>1, MatchStep DEF Calls
<1>3. \A g \in Futures \ {f} : call'[g] \notin {"initializing", "setting"}
  <2>1. Initializers = {f}
    BY HolderFacts
  <2>. QED
    BY <1>2, <2>1 DEF Initializers
<1>4. Initializers' = {}
  BY <1>2, <1>3 DEF Initializers
<1>. QED
  BY <1>2, <1>4

LEMMA SetValueSound ==
    ASSUME IndInv, NEW f \in Futures, SetValue(f) PROVE IndInv'
<1>1. /\ Inner!Close
      /\ call[f] \in {"initializing", "setting"}
      /\ call' = [call EXCEPT ![f] = "idle"]
      /\ value' = f /\ value_set' = TRUE
      /\ cell' = cell /\ disposed' = disposed
  BY DEF SetValue, lifeVars
<1>2. Kept /\ closed' = TRUE
  BY <1>1, CloseEffect DEF IndInv
<1>3. P!FairInv' /\ P!Tally'
  <2>1. Inner!Next
    BY <1>1 DEF Inner!Next
  <2>. QED
    BY <2>1, InnerStep DEF IndInv
<1>4. /\ call' \in [Futures -> Calls]
      /\ MatchedBy(acq', call')
      /\ Initializers' = {}
  BY <1>1, <1>2, EndFacts
<1>5. cell = "alive"
  BY <1>1, HolderFacts
<1>6. Written' /\ HeldOnce'
  BY <1>1, <1>2, <1>4, <1>5, OnceCellAssumption DEF IndInv, Written, HeldOnce
<1>. QED
  BY <1>3, <1>4, <1>6 DEF IndInv

LEMMA AbortSound ==
    ASSUME IndInv, NEW f \in Futures, Abort(f) PROVE IndInv'
<1>1. /\ Inner!Release(1)
      /\ call[f] \in {"initializing", "setting"}
      /\ call' = [call EXCEPT ![f] = "idle"]
      /\ CellUnchanged
  BY LifeKept DEF Abort
<1>2. Kept /\ closed' = closed /\ balance' = balance + 1
  BY <1>1, ReleaseEffect DEF IndInv
<1>3. P!FairInv' /\ P!Tally'
  <2>1. Inner!Next
    BY <1>1 DEF Inner!Next
  <2>. QED
    BY <2>1, InnerStep DEF IndInv
<1>4. /\ call' \in [Futures -> Calls]
      /\ MatchedBy(acq', call')
      /\ Initializers' = {}
  BY <1>1, <1>2, EndFacts
<1>5. cell = "alive" /\ ~closed /\ balance = 0
  BY <1>1, HolderFacts
<1>6. Written'
  BY <1>1, <1>2, <1>5 DEF IndInv, Written, CellUnchanged
<1>7. HeldOnce'
  BY <1>2, <1>4, <1>5 DEF HeldOnce
<1>. QED
  BY <1>3, <1>4, <1>6, <1>7 DEF IndInv

\* The end of a cell: its value is handed out, or destroyed where it is.
LEMMA InnerKept ==
    ASSUME IndInv, UNCHANGED <<innerVars, call>>
    PROVE  /\ P!FairInv' /\ P!Tally'
           /\ call' \in [Futures -> Calls]
           /\ MatchedBy(acq', call')
           /\ Unused' = Unused
<1>1. P!FairInv' /\ P!Tally'
  <2>1. UNCHANGED Inner!vars
    BY DEF innerVars, Inner!vars
  <2>. QED
    BY <2>1, InnerStep DEF IndInv
<1>2. acq' = acq /\ call' = call
  BY DEF innerVars
<1>. QED
  BY <1>1, <1>2 DEF IndInv, Unused

LEMMA MoveOutSound ==
    ASSUME IndInv, NEW to \in {"moved", "taken"}, MoveOut(to) PROVE IndInv'
<1>1. /\ UNCHANGED <<innerVars, call>>
      /\ cell = "alive" /\ cell' = to /\ Unused
      /\ disposed' = IF value_set THEN disposed + 1 ELSE disposed
      /\ value_set' = FALSE /\ value' = value
  BY DEF MoveOut
<1>2. Written'
  <2>1. Written /\ Unused'
    BY <1>1, InnerKept DEF IndInv
  <2>2. disposed' = IF value = Uninit THEN 0 ELSE 1
    BY <1>1, <2>1 DEF Written
  <2>. QED
    BY <1>1, <2>1, <2>2 DEF Written
<1>3. HeldOnce'
  BY <1>1 DEF HeldOnce
<1>. QED
  BY <1>1, <1>2, <1>3, InnerKept DEF IndInv

LEMMA DropCellSound ==
    ASSUME IndInv, DropCell PROVE IndInv'
<1>1. /\ UNCHANGED <<innerVars, call>>
      /\ cell \in {"alive", "moved", "taken"} /\ Unused
      /\ cell' \in {"replaced", "gone"}
      /\ disposed' = IF value_set THEN disposed + 1 ELSE disposed
      /\ value_set' = value_set /\ value' = value
  BY DEF DropCell
<1>2. Written'
  <2>1. Written /\ Unused'
    BY <1>1, InnerKept DEF IndInv
  <2>2. disposed' = IF value = Uninit THEN 0 ELSE 1
    BY <1>1, <2>1 DEF Written
  <2>. QED
    BY <1>1, <2>1, <2>2 DEF Written
<1>3. HeldOnce'
  BY <1>1 DEF HeldOnce
<1>. QED
  BY <1>1, <1>2, <1>3, InnerKept DEF IndInv

LEMMA NewCellSound ==
    ASSUME IndInv, NEW new \in NewCells, NewCell(new) PROVE IndInv'
<1>1. /\ permits' = new.permits /\ closed' = new.closed
      /\ balance' = new.permits
      /\ value_set' = new.closed /\ value' = new.value
      /\ cell' = "alive" /\ disposed' = 0
      /\ waiters' = waiters /\ acq' = acq /\ call' = call
      /\ cell \in {"gone", "replaced"}
  BY DEF NewCell
<1>2. Unused
  BY <1>1 DEF IndInv, Written
<1>3. \A f \in Futures : /\ acq[f].phase = "none"
                         /\ ~acq[f].queued
                         /\ acq[f].remaining = acq[f].num
  <2>1. \A f \in Futures : acq[f].phase = "none"
    BY <1>2 DEF Unused, IndInv, MatchedBy
  <2>2. P!Requested(closed, acq)
    BY DEF IndInv, P!FairInv
  <2>. QED
    BY <2>1, <2>2 DEF P!Requested, P!Request
<1>4. waiters = <<>>
  <2>1. P!WaitersAreLive /\ waiters \in Seq(Futures)
    BY DEF IndInv, P!FairInv, P!IndInv, P!TypeOK
  <2>2. ASSUME waiters # <<>> PROVE FALSE
    <3>1. 1 \in DOMAIN waiters /\ waiters[1] \in Futures
      BY <2>1, <2>2, EmptySeq
    <3>2. waiters[1] \in P!Range(waiters)
      BY <3>1 DEF P!Range
    <3>. QED
      BY <1>3, <2>1, <3>1, <3>2 DEF P!WaitersAreLive, P!Waiting
  <2>. QED
    BY <2>2
<1>5. Fresh'
  BY <1>1, <1>3, <1>4, NewCellFacts, InnerFacts DEF Fresh, IndInv
<1>6. P!FairInv' /\ P!Tally'
  BY <1>5, FreshNext
<1>7. Initializers' = {}
  BY <1>1, <1>2 DEF Unused, Initializers
<1>8. Written' /\ HeldOnce'
  BY <1>1, <1>7, NewCellFacts DEF Written, HeldOnce
<1>. QED
  BY <1>1, <1>6, <1>8 DEF IndInv

LEMMA StepIndInv == IndInv /\ [Next]_vars => IndInv'
<1>. SUFFICES ASSUME IndInv, [Next]_vars PROVE IndInv'
  OBVIOUS
<1>1. ASSUME NEW f \in Futures, GetOrInit(f) \/ Poll(f) \/ DropFuture(f)
      PROVE  IndInv'
  BY <1>1, AcquireSound, DropSound, WaitSound, AcquiredSound DEF Poll
<1>2. ASSUME NEW f \in Futures, Set(f) \/ SetValue(f) \/ Abort(f)
      PROVE  IndInv'
  BY <1>2, SetSound, SetValueSound, AbortSound
<1>3. CASE IntoInner \/ Take
  BY <1>3, MoveOutSound DEF IntoInner, Take
<1>4. CASE DropCell
  BY <1>4, DropCellSound
<1>5. ASSUME NEW new \in NewCells, NewCell(new) PROVE IndInv'
  BY <1>5, NewCellSound
<1>6. CASE UNCHANGED vars
  <2>1. /\ UNCHANGED <<innerVars, call>>
        /\ closed' = closed /\ balance' = balance /\ call' = call
        /\ value_set' = value_set /\ value' = value
        /\ cell' = cell /\ disposed' = disposed
    BY <1>6 DEF vars, lifeVars, innerVars
  <2>2. Written' /\ HeldOnce'
    BY <2>1 DEF IndInv, Written, HeldOnce, Unused, Initializers
  <2>. QED
    BY <2>1, <2>2, InnerKept DEF IndInv
<1>. QED
  BY <1>1, <1>2, <1>3, <1>4, <1>5, <1>6 DEF Next

LEMMA AlwaysIndInv == Spec => []IndInv
  BY InitIndInv, StepIndInv, PTL DEF Spec
-----------------------------------------------------------------------------
LEMMA ClosedWhenSetHolds == IndInv => ClosedWhenSet
<1>. SUFFICES ASSUME IndInv PROVE ClosedWhenSet
  OBVIOUS
<1>1. ASSUME NEW f \in Futures, acq[f].phase = "failed" PROVE value_set
  <2>1. closed
    BY <1>1 DEF IndInv, P!FairInv, P!Requested, P!Request
  <2>2. cell = "alive"
    <3>1. call[f] # "idle"
      BY <1>1 DEF IndInv, MatchedBy
    <3>. QED
      BY <3>1, UsedIsAlive
  <2>. QED
    BY <2>1, <2>2 DEF IndInv, Written
<1>. QED
  BY <1>1 DEF ClosedWhenSet, IndInv, Written

LEMMA OneInitializerHolds == IndInv => OneInitializer
<1>. SUFFICES ASSUME IndInv PROVE OneInitializer
  OBVIOUS
<1>1. Initializers = {} \/ (~closed /\ cell = "alive" /\ \E f : Initializers = {f})
  <2>1. CASE cell = "alive"
    BY <2>1 DEF IndInv, HeldOnce
  <2>2. CASE cell # "alive"
    BY <2>2 DEF IndInv, Written, Unused, Initializers
  <2>. QED
    BY <2>1, <2>2
<1>2. value_set => Initializers = {}
  BY <1>1 DEF IndInv, Written
<1>3. Cardinality(Initializers) \in {0, 1}
  BY <1>1, FS_EmptySet, FS_Singleton
<1>. QED
  BY <1>2, <1>3 DEF OneInitializer

\* The permit that no call holds is in the word, where it does not lie while
\* somebody waits, or with the one call that it is assigned to.
LEMMA AttemptPassedOnHolds == IndInv => AttemptPassedOn
<1>. SUFFICES ASSUME IndInv, cell = "alive", ~value_set, Initializers = {},
                     ~(permits = 1 /\ waiters = <<>>)
              PROVE  \E f \in Futures : /\ call[f] = "acquiring"
                                        /\ acq[f].queued
                                        /\ acq[f].remaining = 0
                                        /\ acq[f].notified
  BY DEF AttemptPassedOn
<1>1. ~closed /\ balance = 1
  BY DEF IndInv, Written, HeldOnce
<1>2. /\ P!IndInv
      /\ P!Requested(closed, acq)
  BY DEF IndInv, P!FairInv
<1>3. permits # 1
  BY <1>2 DEF P!IndInv, P!NoIdlePermits
<1>4. \A f \in Futures : /\ acq[f].num \in Nat
                         /\ acq[f].remaining \in Nat
                         /\ acq[f].remaining <= acq[f].num
  <2>. TAKE f \in Futures
  <2>1. acq[f] \in P!Future
    BY <1>2 DEF P!IndInv, P!TypeOK
  <2>. QED
    BY <1>2, <2>1 DEF P!Future, P!IndInv, P!AssignedWithinRequest
<1>5. PICK f \in Futures : acq[f].remaining # acq[f].num
  <2>1. P!Assigned(acq) # 0
    BY <1>1, <1>3, InnerFacts DEF IndInv
  <2>. QED
    BY <1>4, <2>1, NothingAssigned
<1>6. acq[f].queued /\ acq[f].phase # "none" /\ acq[f].phase # "failed"
  BY <1>1, <1>2, <1>5 DEF P!Requested, P!Request
<1>7. acq[f].num = 1 /\ call[f] = "acquiring"
  BY <1>6 DEF IndInv, MatchedBy
<1>8. acq[f].remaining = 0
  BY <1>4, <1>5, <1>7
<1>9. acq[f].phase = "live"
  <2>1. acq[f] \in P!Future
    BY <1>2 DEF P!IndInv, P!TypeOK
  <2>. QED
    BY <1>6, <2>1 DEF P!Future
<1>10. acq[f].notified
  BY <1>2, <1>6, <1>8, <1>9 DEF P!IndInv, P!NoLostWakeup
<1>. QED
  BY <1>6, <1>7, <1>8, <1>10

\* The flag, the value and the closed bit of the semaphore agree as long as there
\* is a cell, through calls, cancellations, takes and new cells: a call whose
\* acquire has failed reads a value that is there.
THEOREM FlagsAgree == Spec => []ClosedWhenSet
  BY AlwaysIndInv, ClosedWhenSetHolds, PTL

\* However the calls interleave, one at a time initialises the cell, and none
\* once it is initialised.
THEOREM OneInitializes == Spec => []OneInitializer
  BY AlwaysIndInv, OneInitializerHolds, PTL

\* An attempt that fails, panics or is cancelled leaves the way free for the next:
\* a call that waits has been given the permit and woken, or nobody waits.
THEOREM AttemptsArePassedOn == Spec => []AttemptPassedOn
  BY AlwaysIndInv, AttemptPassedOnHolds, PTL

\* The value of a cell that has come to its end was handed out or destroyed once,
\* by into_inner, take or the drop, and what was never written not at all.
THEOREM ValueIsDisposedOnce == Spec => []DisposedOnce
<1>1. IndInv => DisposedOnce
  BY DEF IndInv, Written, DisposedOnce
<1>. QED
  BY <1>1, AlwaysIndInv, PTL
=============================================================================
