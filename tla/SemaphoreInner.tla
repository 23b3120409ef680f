--------------------------- MODULE SemaphoreInner ---------------------------
(***************************************************************************)
(* The low level semaphore of src/semaphore.rs: `Inner`, its `Waitlist`,   *)
(* and the `Acquire` futures that wait in it.  Everything runs on one      *)
(* thread, so a call is one atomic step; the interleaving is that of the   *)
(* calls, polls and drops that the tasks of the executor make.             *)
(*                                                                         *)
(* The intrusive list is abstracted to the sequence `waiters` (module      *)
(* LinkedList implements such a sequence): push_front is Append, the list  *)
(* tail, where pop_back and last work, is the head of the sequence.        *)
(* The word `permits` of the code, count << 1 | CLOSED, is the pair        *)
(* permits, closed.                                                        *)
(***************************************************************************)
EXTENDS Integers, Sequences, FiniteSets, Functions, Queues

CONSTANTS
    Futures,         \* slots, each holds at most one Acquire future at a time
    Contexts,        \* the tasks whose wakers a future may be polled with
    None,            \* no waker, no context
    Amounts,         \* permit counts that callers ask for or release
    InitialPermits,  \* the argument of Inner::new
    MaxPermits,      \* Inner::MAX_PERMITS, a word of ones
    MaxBalance       \* bound of the model: permits ever outstanding

ASSUME SemaphoreAssumption ==
    /\ IsFiniteSet(Futures)
    /\ None \notin Contexts
    /\ Amounts \subseteq Nat
    /\ InitialPermits \in Nat
    /\ MaxPermits \in Nat
    /\ MaxBalance \in Nat

VARIABLES
    permits,  \* the count in the word Inner.permits
    closed,   \* the CLOSED bit of that word
    waiters,  \* Waitlist.queue, the oldest waiter first
    acq,      \* the Acquire future in each slot
    balance   \* history: permits put into the semaphore minus permits taken

vars == <<permits, closed, waiters, acq, balance>>
-----------------------------------------------------------------------------
(***************************************************************************)
(* An Acquire future and its Waiter node.  `remaining` is Waiter.state,    *)
(* `waker` the registered waker; `cx`, the context that polled last, and   *)
(* `notified`, whether that context has been woken since, belong to the    *)
(* executor.  A "failed" future has returned Err and is not yet dropped.   *)
(***************************************************************************)
Future == [phase     : {"none", "live", "failed"},
           num       : Nat,
           remaining : Nat,
           queued    : BOOLEAN,
           waker     : Contexts \cup {None},
           cx        : Contexts \cup {None},
           notified  : BOOLEAN]

NoFuture == [phase |-> "none", num |-> 0, remaining |-> 0, queued |-> FALSE,
             waker |-> None, cx |-> None, notified |-> FALSE]

NewFuture(n) == [NoFuture EXCEPT !.phase = "live", !.num = n, !.remaining = n]

\* Mutant: the waker is taken and dropped.
Unwoken(r) == [r EXCEPT !.waker = None]

\* Taking a future's waker and waking it: only the context that polled the
\* future last runs it again.
Woken(r) == [r EXCEPT !.waker = None, !.notified = @ \/ r.waker = r.cx]

Served(q, k) == {q[i] : i \in 1..k}

(***************************************************************************)
(* add_permits(rem), on queue q, futures a, and `avail` permits in the     *)
(* word.  left[i] is the loop variable `rem` once the i oldest waiters     *)
(* have been served; the loop ends when the queue is empty, and what is    *)
(* left goes to the word, or at the first waiter that needs more than what *)
(* is left, and takes it.  Served waiters are popped and woken, in batches *)
(* that nobody can observe because the list stays borrowed.  The assertion *)
(* rem <= MAX_PERMITS is a guard: the step that would panic is left out.   *)
(***************************************************************************)
AddPermits(rem, avail, q, a) ==
    \E k \in 0..Len(q) : \E left \in [0..k -> 0..rem] :
        /\ left[0] = rem
        /\ \A i \in 1..k : left[i] = left[i-1] - a[q[i]].remaining
        /\ IF k = Len(q)
           THEN left[k] <= MaxPermits /\ permits' = avail + left[k]
           ELSE left[k] < a[q[k+1]].remaining /\ permits' = avail
        /\ waiters' = SubSeq(q, k + 1, Len(q))
        /\ acq' = [f \in Futures |->
              IF f \in Served(q, k)
              THEN Woken([a[f] EXCEPT !.remaining = 0])
              ELSE IF k < Len(q) /\ f = q[k+1]
              THEN [a[f] EXCEPT !.remaining = @ - left[k]]
              ELSE a[f]]
-----------------------------------------------------------------------------
\* Inner::new masks its argument with MAX_PERMITS.
Init ==
    /\ permits = InitialPermits % (MaxPermits + 1)
    /\ closed = FALSE
    /\ waiters = <<>>
    /\ acq = [f \in Futures |-> NoFuture]
    /\ balance = permits

\* Inner::acquire makes a future; nothing is queued before its first poll.
Acquire(f, n) ==
    /\ acq[f].phase = "none"
    /\ acq' = [acq EXCEPT ![f] = NewFuture(n)]
    /\ UNCHANGED <<permits, closed, waiters, balance>>

\* poll_acquire on a closed semaphore.  `queued` keeps its value (the `?`
\* in Acquire::poll returns first), whatever the future was assigned stays
\* with it until it is dropped.
PollClosed(f) ==
    /\ acq[f].phase = "live"
    /\ closed
    /\ acq' = [acq EXCEPT ![f].phase = "failed", ![f].notified = FALSE]
    /\ UNCHANGED <<permits, closed, waiters, balance>>

\* Mutant: the fast path does not look at the flag.
PollFastUnchecked(f) ==
    /\ acq[f].phase = "live"
    /\ ~acq[f].queued
    /\ permits >= acq[f].num
    /\ permits' = permits - acq[f].num
    /\ acq' = [acq EXCEPT ![f] = NoFuture]
    /\ balance' = balance - acq[f].num
    /\ UNCHANGED <<closed, waiters>>

\* poll_acquire, first poll, enough permits: ready at once.  The completed
\* future has no node in the list, so its drop does nothing more.
PollFast(f) ==
    /\ acq[f].phase = "live"
    /\ ~closed
    /\ ~acq[f].queued
    /\ permits >= acq[f].num
    /\ permits' = permits - acq[f].num
    /\ acq' = [acq EXCEPT ![f] = NoFuture]
    /\ balance' = balance - acq[f].num
    /\ UNCHANGED <<closed, waiters>>

\* poll_acquire of a queued future whose need is covered, by what it has been
\* assigned and what the word holds.  The whole word is cleared, flag included,
\* and what the future does not need goes back through add_permits.
PollAssigned(f) ==
    /\ acq[f].phase = "live"
    /\ ~closed
    /\ acq[f].queued
    /\ permits >= acq[f].remaining
    /\ closed' = FALSE
    /\ AddPermits(permits - acq[f].remaining, 0, waiters,
                  [acq EXCEPT ![f] = NoFuture])
    /\ balance' = balance - acq[f].num

\* Mutant: the newcomer is served first.
PollPendingInFront(f, c) ==
    /\ acq[f].phase = "live"
    /\ ~closed
    /\ permits < acq[f].remaining
    /\ permits' = 0
    /\ acq' = [acq EXCEPT ![f].remaining = @ - permits, ![f].queued = TRUE,
                          ![f].waker = c, ![f].cx = c, ![f].notified = FALSE]
    /\ waiters' = IF acq[f].queued THEN waiters ELSE <<f>> \o waiters
    /\ UNCHANGED <<closed, balance>>

\* poll_acquire that has to wait: it empties the word into the waiter,
\* registers the waker of this poll and joins the queue on its first poll.
PollPending(f, c) ==
    /\ acq[f].phase = "live"
    /\ ~closed
    /\ permits < acq[f].remaining
    /\ permits' = 0
    /\ closed' = FALSE
    /\ acq' = [acq EXCEPT ![f].remaining = @ - permits,
                          ![f].queued = TRUE,
                          ![f].waker = c,
                          ![f].cx = c,
                          ![f].notified = FALSE]
    /\ waiters' = IF acq[f].queued THEN waiters ELSE Append(waiters, f)
    /\ UNCHANGED balance

\* Mutant: what the future was assigned is lost.
DropAcquireLeaking(f) ==
    /\ acq[f].phase # "none"
    /\ acq' = [acq EXCEPT ![f] = NoFuture]
    /\ waiters' = Without(waiters, f)
    /\ UNCHANGED <<permits, closed, balance>>

\* Mutant: what the future was assigned goes to the word, past the waiters.
DropAcquireToWord(f) ==
    /\ acq[f].phase # "none"
    /\ permits' = permits + (acq[f].num - acq[f].remaining)
    /\ acq' = [acq EXCEPT ![f] = NoFuture]
    /\ waiters' = Without(waiters, f)
    /\ UNCHANGED <<closed, balance>>

\* Drop for Acquire: unlink the node, give back what it was assigned.
DropAcquire(f) ==
    /\ acq[f].phase # "none"
    /\ IF acq[f].queued
       THEN AddPermits(acq[f].num - acq[f].remaining, permits,
                       Without(waiters, f), [acq EXCEPT ![f] = NoFuture])
       ELSE /\ acq' = [acq EXCEPT ![f] = NoFuture]
            /\ UNCHANGED <<permits, waiters>>
    /\ UNCHANGED <<closed, balance>>

\* Mutant: no check that there are enough permits.
TryAcquireUnchecked(n) ==
    /\ ~closed
    /\ permits' = permits - n
    /\ balance' = balance - n
    /\ UNCHANGED <<closed, waiters, acq>>

\* try_acquire that succeeds; its failures change nothing.
TryAcquire(n) ==
    /\ n <= MaxPermits
    /\ ~closed
    /\ permits >= n
    /\ permits' = permits - n
    /\ balance' = balance - n
    /\ UNCHANGED <<closed, waiters, acq>>

\* release(n): returns early on 0.
Release(n) ==
    /\ n > 0
    /\ balance + n <= MaxBalance
    /\ AddPermits(n, permits, waiters, acq)
    /\ balance' = balance + n
    /\ UNCHANGED closed

\* Mutant: the waiters are popped and not woken.
CloseSilently ==
    /\ closed' = TRUE
    /\ waiters' = <<>>
    /\ UNCHANGED <<permits, acq, balance>>

\* close: sets the flag, pops and wakes every waiter.
Close ==
    /\ closed' = TRUE
    /\ waiters' = <<>>
    /\ acq' = [f \in Futures |->
                  IF f \in Range(waiters) THEN Woken(acq[f]) ELSE acq[f]]
    /\ UNCHANGED <<permits, balance>>

Poll(f) ==
    \/ PollClosed(f)
    \/ PollFast(f)
    \/ PollAssigned(f)
    \/ \E c \in Contexts : PollPending(f, c)

Next ==
    \/ \E f \in Futures :
          \/ \E n \in Amounts : Acquire(f, n)
          \/ Poll(f)
          \/ DropAcquire(f)
    \/ \E n \in Amounts : TryAcquire(n) \/ Release(n)
    \/ Close

Spec == Init /\ [][Next]_vars
-----------------------------------------------------------------------------
\* The variables have their types; a queued node belongs to some future slot.
TypeOK ==
    /\ permits \in Nat
    /\ closed \in BOOLEAN
    /\ waiters \in Seq(Futures)
    /\ acq \in [Futures -> Future]
    /\ balance \in Int

\* Memory safety of the intrusive list: it links exactly the nodes of the
\* futures that are alive, pinned by a first poll and still short of permits,
\* each once.  A node left behind by a completed or dropped future would be a
\* dangling pointer; a short future missing from the list would never be served.
Waiting(f) ==
    acq[f].phase = "live" /\ acq[f].queued /\ acq[f].remaining > 0

WaitersAreLive ==
    /\ Distinct(waiters)
    /\ \A f \in Futures : f \in Range(waiters) <=> Waiting(f) /\ ~closed

\* A permit never lies idle in the word while somebody waits for one, so that
\* neither try_acquire nor the fast path of a first poll can overtake a waiter.
NoIdlePermits ==
    waiters # <<>> => permits = 0

\* A future whose need is covered, or whose semaphore has been closed, has woken
\* the context that polled it last, even when earlier polls came from another.
NoLostWakeup ==
    \A f \in Futures :
        /\ acq[f].phase = "live"
        /\ acq[f].queued
        /\ acq[f].remaining = 0 \/ closed
        => acq[f].notified

\* What the four invariants above rest on: no future is assigned more than it
\* asked for, and a node in the list holds the waker of the last poll.
AssignedWithinRequest ==
    \A f \in Futures : acq[f].remaining <= acq[f].num

WakerIsCurrent ==
    \A f \in Range(waiters) : acq[f].waker = acq[f].cx

\* The inductive invariant: see SemaphoreInnerProofs.
IndInv ==
    /\ TypeOK
    /\ WaitersAreLive
    /\ NoIdlePermits
    /\ NoLostWakeup
    /\ AssignedWithinRequest
    /\ WakerIsCurrent

\* What queued futures have been assigned so far, one element per permit.
AssignedUnits ==
    UNION {{f} \X (1..(acq[f].num - acq[f].remaining)) : f \in Futures}

\* No call, cancellation or close loses or invents a permit: those put in and
\* not taken are in the word or assigned to futures that still exist.
PermitsConserved ==
    permits + Cardinality(AssignedUnits) = balance

\* Permits are given out in the order they were requested (the promise of the
\* doc of Semaphore): one that arrives reaches a waiter only if all those
\* ahead of it have what they need or have left, and is taken by a caller who
\* did not queue only if nobody is waiting; and who starts to wait does so
\* behind everybody else.
Fed(f) ==
    acq'[f].phase = "live" /\ acq'[f].remaining < acq[f].remaining

TakenUnqueued ==
    /\ balance' < balance
    /\ ~\E f \in Futures : acq[f].queued /\ acq'[f].phase = "none"

TakenInTurn ==
    TakenUnqueued => waiters = <<>>

FedInTurn ==
    \A i, j \in DOMAIN waiters :
       i < j /\ Fed(waiters[j]) =>
          acq'[waiters[i]].phase = "none" \/ acq'[waiters[i]].remaining = 0

JoinedAtEnd ==
    \A i \in DOMAIN waiters' :
       waiters'[i] \notin Range(waiters) => i = Len(waiters')

FirstComeFirstServed ==
    [][TakenInTurn /\ FedInTurn /\ JoinedAtEnd]_vars

\* Close is for good: the flag outlives the clearing of the word, nobody joins
\* the queue and not even a permit assigned before the close is taken after it.
ClosedForGood ==
    [][closed => closed' /\ waiters' = <<>> /\ balance' >= balance]_vars

\* The semaphore keeps the promise of FairSemaphore.  What the first waiter has
\* been assigned of what it needs still belongs to the pool.
RequestOf(f) == [who |-> f, num |-> acq[f].num]

AssignedToFirst ==
    IF waiters = <<>> THEN 0 ELSE acq[Head(waiters)].num - acq[Head(waiters)].remaining

Granted == {f \in Futures : acq[f].phase = "live" /\ acq[f].queued /\ acq[f].remaining = 0}

Promise == INSTANCE FairSemaphore WITH
    pool <- IF closed THEN 0 ELSE permits + AssignedToFirst,
    line <- [i \in DOMAIN waiters |-> RequestOf(waiters[i])],
    granted <- IF closed THEN {} ELSE {RequestOf(f) : f \in Granted}

FairSemaphoreSpec == Promise!Spec

\* What the doc of add_permits says of the limit on permits.
WithinMaxPermits ==
    permits <= MaxPermits
=============================================================================
