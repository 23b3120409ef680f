----------------------------- MODULE Semaphore ------------------------------
(***************************************************************************)
(* The public Semaphore of src/semaphore.rs: the low level semaphore with  *)
(* permit guards.  An acquire that succeeds returns a SemaphorePermit (or  *)
(* OwnedSemaphorePermit, which differs only in how it reaches the          *)
(* semaphore), whose drop releases it and whose `forget` does not.         *)
(* A slot of `Futures` is one acquisition: an Acquire future, then the     *)
(* guard it returned.                                                      *)
(***************************************************************************)
EXTENDS Integers, Sequences, FiniteSets, Functions

CONSTANTS
    Futures, Contexts, None, Amounts, InitialPermits, MaxPermits,
    MaxBalance,   \* bound of the model: permits ever in existence
    Forgettable   \* the slots whose guards the program may forget

VARIABLES
    permits, closed, waiters, acq, balance,   \* those of SemaphoreInner
    guard,    \* permits held by the guard of each slot, None without a guard
    supply    \* history: permits the program has made and not forgotten

Inner == INSTANCE SemaphoreInner

innerVars == <<permits, closed, waiters, acq, balance>>
vars == <<permits, closed, waiters, acq, balance, guard, supply>>

ASSUME GuardAssumption ==
    /\ IsFiniteSet(Futures)
    /\ Amounts \subseteq Nat
    /\ InitialPermits \in Nat
    /\ MaxPermits \in Nat
    /\ MaxBalance \in Nat
    /\ None \notin Nat \cup Contexts
    /\ Forgettable \subseteq Futures
-----------------------------------------------------------------------------
Init ==
    /\ Inner!Init
    /\ guard = [f \in Futures |-> None]
    /\ supply = permits

\* acquire, acquire_many, acquire_owned, acquire_many_owned
AcquireMany(f, n) ==
    /\ guard[f] = None
    /\ Inner!Acquire(f, n)
    /\ UNCHANGED <<guard, supply>>

\* AcquireResult::poll that is ready: the guard takes over the permits.
PollReady(f) ==
    /\ Inner!PollFast(f) \/ Inner!PollAssigned(f)
    /\ guard' = [guard EXCEPT ![f] = acq[f].num]
    /\ UNCHANGED supply

PollWait(f) ==
    /\ \E c \in Contexts : Inner!PollPending(f, c)
    /\ UNCHANGED <<guard, supply>>

PollError(f) ==
    /\ Inner!PollClosed(f)
    /\ UNCHANGED <<guard, supply>>

\* The future is dropped: cancelled by its task, or finished with an error.
DropFuture(f) ==
    /\ Inner!DropAcquire(f)
    /\ UNCHANGED <<guard, supply>>

\* try_acquire, try_acquire_many and their owned variants
TryAcquireMany(f, n) ==
    /\ acq[f].phase = "none"
    /\ guard[f] = None
    /\ Inner!TryAcquire(n)
    /\ guard' = [guard EXCEPT ![f] = n]
    /\ UNCHANGED supply

\* Mutant: the permits go straight to the word.
DropPermitToWord(f) ==
    /\ guard[f] # None
    /\ permits' = permits + guard[f]
    /\ balance' = balance + guard[f]
    /\ guard' = [guard EXCEPT ![f] = None]
    /\ UNCHANGED <<closed, waiters, acq, supply>>

\* Drop for SemaphorePermit; release returns early for a guard of no permits.
DropPermit(f) ==
    /\ guard[f] # None
    /\ IF guard[f] = 0 THEN UNCHANGED innerVars ELSE Inner!Release(guard[f])
    /\ guard' = [guard EXCEPT ![f] = None]
    /\ UNCHANGED supply

\* Mutant: the guard is dropped with its count.
ForgetAndRelease(f) ==
    /\ f \in Forgettable
    /\ guard[f] # None
    /\ IF guard[f] = 0 THEN UNCHANGED innerVars ELSE Inner!Release(guard[f])
    /\ guard' = [guard EXCEPT ![f] = None]
    /\ supply' = supply - guard[f]

\* forget: the count is set to 0 before the guard is dropped.
Forget(f) ==
    /\ f \in Forgettable
    /\ guard[f] # None
    /\ guard' = [guard EXCEPT ![f] = None]
    /\ supply' = supply - guard[f]
    /\ UNCHANGED innerVars

AddPermits(n) ==
    /\ supply + n <= MaxBalance
    /\ Inner!Release(n)
    /\ supply' = supply + n
    /\ UNCHANGED guard

Close ==
    /\ Inner!Close
    /\ UNCHANGED <<guard, supply>>

Poll(f) == PollReady(f) \/ PollWait(f) \/ PollError(f)

Next ==
    \/ \E f \in Futures :
          \/ \E n \in Amounts : AcquireMany(f, n) \/ TryAcquireMany(f, n)
          \/ Poll(f) \/ DropFuture(f)
          \/ DropPermit(f) \/ Forget(f)
    \/ \E n \in Amounts : AddPermits(n)
    \/ Close

Spec == Init /\ [][Next]_vars

\* The executor polls a task it has been asked to run, and a task eventually
\* drops its guard and a future that has failed.
PollNotified(f) == acq[f].notified /\ Poll(f)
DropFailed(f) == acq[f].phase = "failed" /\ DropFuture(f)

Fairness ==
    \A f \in Futures :
        /\ WF_vars(PollNotified(f))
        /\ WF_vars(DropPermit(f))
        /\ WF_vars(DropFailed(f))

FairSpec == Spec /\ Fairness
-----------------------------------------------------------------------------
\* Permits in guards, one element per permit.
HeldUnits ==
    UNION {{f} \X (1..guard[f]) : f \in {g \in Futures : guard[g] # None}}

\* The permits made and not forgotten are exactly those in the word, assigned to
\* futures that wait, and held by guards: whatever is cancelled or closed
\* in between, at most `supply` permits are ever held at once.
PermitsAccounted ==
    permits + Cardinality(Inner!AssignedUnits) + Cardinality(HeldUnits) = supply

\* A future that waits is eventually answered or dropped, if guards are dropped
\* and no request that waits is for more than forgotten guards have left: none
\* starves behind others, however they are cancelled.
Satisfiable ==
    \A f \in Futures : Inner!Waiting(f) => acq[f].num <= supply

EveryWaiterAnswered ==
    \A f \in Futures :
        Inner!Waiting(f) /\ Satisfiable ~> ~(Inner!Waiting(f) /\ Satisfiable)

\* When the semaphore is closed, each pending future learns of it.
CloseReachesAll ==
    \A f \in Futures :
        closed /\ acq[f].queued ~> acq[f].phase = "none"

\* The guards leave the low level semaphore to its own steps, so what is
\* proved of SemaphoreInner holds under them.
InnerSpec == Inner!Spec
=============================================================================
