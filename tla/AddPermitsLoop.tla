--------------------------- MODULE AddPermitsLoop ---------------------------
(***************************************************************************)
(* One call of Inner::add_permits of src/semaphore.rs, turn by turn, with  *)
(* the WakeList of src/wake_list.rs: waiters are served in batches as long *)
(* as the list of wakers has room, and a batch is woken before the next is *)
(* begun.  SemaphoreInner has the call as the one step AddPermits, which   *)
(* OneStep relates to this loop.                                           *)
(***************************************************************************)
EXTENDS Integers, Sequences, FiniteSets, Functions

CONSTANTS
    Futures, Contexts, None,
    NumWakers,   \* NUM_WAKERS
    MaxPermits,  \* Inner::MAX_PERMITS
    MaxRem,      \* bound of the model: permits that are added
    MaxNeed      \* bound of the model: permits that a waiter is short of

ASSUME LoopAssumption ==
    /\ NumWakers \in Nat \ {0}
    /\ None \notin Futures \cup Contexts
    /\ {MaxPermits, MaxRem, MaxNeed} \subseteq Nat

VARIABLES
    pc,                     \* where the call is
    rem, is_empty,          \* its variables
    inner, curr,            \* the fields of WakeList: whose waker is in a cell
    permits, waiters, acq,  \* as in SemaphoreInner
    start,                  \* history: what the call began with
    dropped                 \* history: whose wakers were dropped, not woken

vars == <<pc, rem, is_empty, inner, curr, permits, waiters, acq, start, dropped>>

\* What the others see of the call, while the wait list is borrowed: nothing
\* until it is done.
Inner == INSTANCE SemaphoreInner WITH
    Amounts <- {}, InitialPermits <- 0, MaxBalance <- 0, closed <- FALSE,
    balance <- 0,
    permits <- IF pc = "done" THEN permits ELSE start.permits,
    waiters <- IF pc = "done" THEN waiters ELSE start.waiters,
    acq <- IF pc = "done" THEN acq ELSE start.acq
-----------------------------------------------------------------------------
Cells == 0..NumWakers - 1

\* A future that waits in the list, short of n permits.
Waiter(n, c) ==
    [Inner!NewFuture(n) EXCEPT !.queued = TRUE, !.waker = c, !.cx = c]

WaitLists ==
    {q \in UNION {[1..n -> Futures] : n \in 0..Cardinality(Futures)} : Inner!Distinct(q)}

\* The call, with waiters of some needs in the list; where there are any, the
\* word is empty.
Init ==
    /\ \E q \in WaitLists :
       \E a \in [Range(q) -> {Waiter(n, c) : n \in 1..MaxNeed, c \in Contexts}] :
          start \in [rem     : 1..MaxRem,
                    permits : IF q = <<>> THEN {0, 1} ELSE {0},
                    waiters : {q},
                    acq     : {[f \in Futures |-> IF f \in Range(q) THEN a[f]
                                                 ELSE Inner!NoFuture]}]
    /\ rem = start.rem
    /\ permits = start.permits
    /\ waiters = start.waiters
    /\ acq = start.acq
    /\ inner = [i \in Cells |-> None]
    /\ curr = 0
    /\ is_empty = FALSE
    /\ dropped = {}
    /\ pc = "serve"

\* WakeList::push
Push(f) ==
    /\ inner' = [inner EXCEPT ![curr] = f]
    /\ curr' = curr + 1

\* The inner loop, as long as the list can_push: the oldest waiter gets all that
\* it needs, and is popped with its waker, ...
Serve ==
    /\ pc = "serve"
    /\ curr < NumWakers
    /\ waiters # <<>>
    /\ LET f == Head(waiters)
       IN  /\ rem >= acq[f].remaining
           /\ rem' = rem - acq[f].remaining
           /\ acq' = [acq EXCEPT ![f].remaining = 0, ![f].waker = None]
           /\ Push(f)
    /\ waiters' = Tail(waiters)
    /\ UNCHANGED <<pc, is_empty, permits, start, dropped>>

\* ... or all that is left, and remains; ...
Feed ==
    /\ pc = "serve"
    /\ curr < NumWakers
    /\ waiters # <<>>
    /\ rem < acq[Head(waiters)].remaining
    /\ acq' = [acq EXCEPT ![Head(waiters)].remaining = @ - rem]
    /\ rem' = 0
    /\ pc' = "settle"
    /\ UNCHANGED <<is_empty, inner, curr, permits, waiters, start, dropped>>

\* ... or there is no waiter.
Empty ==
    /\ pc = "serve"
    /\ curr < NumWakers
    /\ waiters = <<>>
    /\ is_empty' = TRUE
    /\ pc' = "settle"
    /\ UNCHANGED <<rem, inner, curr, permits, waiters, acq, start, dropped>>

\* Mutant: a full batch is taken for the end of the waiters.
FullIsEmpty ==
    /\ pc = "serve"
    /\ curr = NumWakers
    /\ is_empty' = TRUE
    /\ pc' = "settle"
    /\ UNCHANGED <<rem, inner, curr, permits, waiters, acq, start, dropped>>

\* The batch is full.
Full ==
    /\ pc = "serve"
    /\ curr = NumWakers
    /\ pc' = "settle"
    /\ UNCHANGED <<rem, is_empty, inner, curr, permits, waiters, acq, start, dropped>>

\* What nobody waits for goes to the word.
Settle ==
    /\ pc = "settle"
    /\ IF rem > 0 /\ is_empty
       THEN /\ rem <= MaxPermits
            /\ permits' = permits + rem
            /\ rem' = 0
       ELSE UNCHANGED <<permits, rem>>
    /\ pc' = "wake"
    /\ UNCHANGED <<is_empty, inner, curr, waiters, acq, start, dropped>>

\* The assertion on MAX_PERMITS fails.
Panic ==
    /\ pc = "settle"
    /\ rem > MaxPermits
    /\ is_empty
    /\ pc' = "unwind"
    /\ UNCHANGED <<rem, is_empty, inner, curr, permits, waiters, acq, start, dropped>>

\* Mutant: the count is lowered after the waker has been woken, and not if it panics.
WakeThenCount ==
    /\ pc = "wake"
    /\ curr > 0
    /\ LET f == inner[curr - 1]
       IN  acq' = [acq EXCEPT ![f].notified = @ \/ start.acq[f].waker = acq[f].cx]
    /\ inner' = [inner EXCEPT ![curr - 1] = None]
    /\ \/ pc' = "wake" /\ curr' = curr - 1
       \/ pc' = "unwind" /\ UNCHANGED curr
    /\ UNCHANGED <<rem, is_empty, permits, waiters, start, dropped>>

\* A turn of wake_all: the last waker is moved out of its cell and woken; the code
\* of the waker may panic.
Wake ==
    /\ pc = "wake"
    /\ curr > 0
    /\ curr' = curr - 1
    /\ LET f == inner[curr - 1]
       IN  acq' = [acq EXCEPT ![f].notified = @ \/ start.acq[f].waker = acq[f].cx]
    /\ inner' = [inner EXCEPT ![curr - 1] = None]
    /\ pc' \in {"wake", "unwind"}
    /\ UNCHANGED <<rem, is_empty, permits, waiters, start, dropped>>

\* Mutant: the loop goes on when nothing is left.
TurnAgain ==
    /\ pc = "wake"
    /\ curr = 0
    /\ pc' = "serve"
    /\ UNCHANGED <<rem, is_empty, inner, curr, permits, waiters, acq, start, dropped>>

\* The batch is woken: another turn of the outer loop, or its end.
Turn ==
    /\ pc = "wake"
    /\ curr = 0
    /\ pc' = IF rem > 0 THEN "serve" ELSE "done"
    /\ UNCHANGED <<rem, is_empty, inner, curr, permits, waiters, acq, start, dropped>>

\* Drop for WakeList, when a panic leaves add_permits: what is in the first `curr`
\* cells is dropped.
Unwind ==
    /\ pc = "unwind"
    /\ dropped' = {inner[i] : i \in 0..curr - 1}
    /\ inner' = [i \in Cells |-> IF i < curr THEN None ELSE inner[i]]
    /\ curr' = 0
    /\ pc' = "panicked"
    /\ UNCHANGED <<rem, is_empty, permits, waiters, acq, start>>

Next ==
    \/ Serve \/ Feed \/ Empty \/ Full
    \/ Settle \/ Panic
    \/ Wake \/ Turn \/ Unwind

\* The call runs until it returns: no task comes in between.
Spec == Init /\ [][Next]_vars /\ WF_vars(Next)
-----------------------------------------------------------------------------
\* The cells below `curr` hold a waker each and no others do, so that none is
\* read before it is written; and the waker of a waiter that has been popped is
\* in one cell, or woken, or dropped: used once, even if a panic ends the call.
Popped == Range(start.waiters) \ Range(waiters)

Uses(f) ==
    Cardinality({i \in Cells : inner[i] = f})
    + (IF acq[f].notified THEN 1 ELSE 0)
    + (IF f \in dropped THEN 1 ELSE 0)

WakersUsedOnce ==
    /\ curr <= NumWakers
    /\ \A i \in Cells : inner[i] # None <=> i < curr
    /\ \A f \in Popped : Uses(f) = 1

\* The batches cannot be told from outside: the call that returns has done what
\* the single step of SemaphoreInner does.
OneStep ==
    [][Inner!AddPermits(start.rem, start.permits, start.waiters, start.acq)]_
        <<Inner!vars>>

\* The loop comes to its end, however many batches it takes.
Ends == <>(pc \in {"done", "panicked"})
=============================================================================
