------------------------------ MODULE OnceCell ------------------------------
(***************************************************************************)
(* The OnceCell of src/once_cell.rs: a value cell, the flag that says it   *)
(* is initialised, and a semaphore with one permit, which is SemaphoreInner *)
(* here.  Who holds the permit may initialise the cell; the semaphore is   *)
(* closed when the value is there.                                         *)
(*                                                                         *)
(* A slot of `Futures` is a call of get_or_init, get_or_try_init or set.   *)
(* Calls borrow the cell, which is moved or dropped only when there are    *)
(* none; its memory then keeps the bits of a value that was moved out.     *)
(***************************************************************************)
EXTENDS Integers, Sequences, FiniteSets, Functions

CONSTANTS
    Futures, Contexts, None,
    Uninit,      \* the content of the cell before a value is written
    MaxPermits   \* Inner::MAX_PERMITS

ASSUME OnceCellAssumption ==
    /\ IsFiniteSet(Futures)
    /\ Uninit \notin Futures
    /\ None \notin Contexts
    /\ MaxPermits \in Nat \ {0}

VARIABLES
    permits, closed, waiters, acq, balance,  \* those of SemaphoreInner
    value_set,
    value,    \* the call that wrote the value of the cell, or Uninit
    call,     \* how far each call has come
    cell,     \* what has become of the cell
    disposed  \* history: how often its value was handed out or destroyed

Inner == INSTANCE SemaphoreInner WITH
    Amounts <- {1}, InitialPermits <- 1, MaxBalance <- 2

innerVars == <<permits, closed, waiters, acq, balance>>
vars == <<innerVars, value_set, value, call, cell, disposed>>
lifeVars == <<cell, disposed>>
-----------------------------------------------------------------------------
\* OnceCell::new, and From, with a value of some caller
Empty == [permits |-> 1, closed |-> FALSE, value |-> Uninit]
Full(f) == [permits |-> 0, closed |-> TRUE, value |-> f]

\* new_with and Clone make one or the other.
NewCells == {Empty} \cup {Full(f) : f \in Futures}

Init ==
    /\ \E new \in NewCells :
          /\ permits = new.permits
          /\ closed = new.closed
          /\ balance = new.permits
          /\ value_set = new.closed
          /\ value = new.value
    /\ waiters = <<>>
    /\ acq = [f \in Futures |-> Inner!NoFuture]
    /\ call = [f \in Futures |-> "idle"]
    /\ cell = "alive"
    /\ disposed = 0

\* The steps of one call of `set` follow each other at once.
Running == cell = "alive" /\ \A f \in Futures : call[f] # "setting"

\* get_or_init is called.  What it does first, it does in the first poll of the
\* acquire: until then the future is in no queue.
GetOrInit(f) ==
    /\ Running
    /\ call[f] = "idle"
    /\ Inner!Acquire(f, 1)
    /\ call' = [call EXCEPT ![f] = "acquiring"]
    /\ UNCHANGED <<value_set, value, lifeVars>>

\* The first poll finds the value there and makes no acquire.
PollInitialized(f) ==
    /\ Running
    /\ call[f] = "acquiring"
    /\ acq[f].phase = "live"
    /\ ~acq[f].queued
    /\ value_set
    /\ Inner!DropAcquire(f)
    /\ call' = [call EXCEPT ![f] = "idle"]
    /\ UNCHANGED <<value_set, value, lifeVars>>

PollsAcquire(f) ==
    /\ Running
    /\ call[f] = "acquiring"
    /\ acq[f].queued \/ ~value_set

\* The permit is acquired and f() starts.
PollAcquired(f) ==
    /\ PollsAcquire(f)
    /\ Inner!PollFast(f) \/ Inner!PollAssigned(f)
    /\ call' = [call EXCEPT ![f] = "initializing"]
    /\ UNCHANGED <<value_set, value, lifeVars>>

PollWait(f) ==
    /\ PollsAcquire(f)
    /\ \E c \in Contexts : Inner!PollPending(f, c)
    /\ UNCHANGED <<value_set, value, call, lifeVars>>

\* The acquire fails: the call reads the value, ...
PollClosed(f) ==
    /\ PollsAcquire(f)
    /\ Inner!PollClosed(f)
    /\ UNCHANGED <<value_set, value, call, lifeVars>>

\* ... and returns; or the call is cancelled while it waits.
DropFuture(f) ==
    /\ Running
    /\ call[f] = "acquiring"
    /\ Inner!DropAcquire(f)
    /\ call' = [call EXCEPT ![f] = "idle"]
    /\ UNCHANGED <<value_set, value, lifeVars>>

\* set, of a cell that is neither initialised nor being so, takes the permit;
\* otherwise it returns an error and changes nothing.
Set(f) ==
    /\ Running
    /\ call[f] = "idle"
    /\ ~value_set
    /\ Inner!TryAcquire(1)
    /\ call' = [call EXCEPT ![f] = "setting"]
    /\ UNCHANGED <<value_set, value, lifeVars>>

\* Mutant: the semaphore stays open.
SetValueOpen(f) ==
    /\ call[f] \in {"initializing", "setting"}
    /\ call[f] = "initializing" => Running
    /\ value' = f
    /\ value_set' = TRUE
    /\ call' = [call EXCEPT ![f] = "idle"]
    /\ UNCHANGED <<innerVars, lifeVars>>

\* Mutant: the permit is dropped where it should be forgotten.
SetValueReleasing(f) ==
    /\ call[f] \in {"initializing", "setting"}
    /\ call[f] = "initializing" => Running
    /\ value' = f
    /\ value_set' = TRUE
    /\ Inner!Release(1)
    /\ call' = [call EXCEPT ![f] = "idle"]
    /\ UNCHANGED lifeVars

\* set_value, when f() has a value: the permit is forgotten.
SetValue(f) ==
    /\ call[f] \in {"initializing", "setting"}
    /\ call[f] = "initializing" => Running
    /\ value' = f
    /\ value_set' = TRUE
    /\ Inner!Close
    /\ call' = [call EXCEPT ![f] = "idle"]
    /\ UNCHANGED lifeVars

\* Mutant: the permit is lost with the attempt.
AbortKeepingPermit(f) ==
    /\ Running
    /\ call[f] = "initializing"
    /\ call' = [call EXCEPT ![f] = "idle"]
    /\ UNCHANGED <<innerVars, value_set, value, lifeVars>>

\* f() returns an error or panics, or the call is cancelled: the permit is dropped.
Abort(f) ==
    /\ Running
    /\ call[f] = "initializing"
    /\ Inner!Release(1)
    /\ call' = [call EXCEPT ![f] = "idle"]
    /\ UNCHANGED <<value_set, value, lifeVars>>

Unused == \A f \in Futures : call[f] = "idle"

\* Mutant: the flag is left as it is.
MoveOutSet(to) ==
    /\ cell = "alive"
    /\ Unused
    /\ cell' = to
    /\ disposed' = IF value_set THEN disposed + 1 ELSE disposed
    /\ UNCHANGED <<innerVars, value_set, value, call>>

\* into_inner hands the value out, and resets the flag for the drop that follows.
MoveOut(to) ==
    /\ cell = "alive"
    /\ Unused
    /\ cell' = to
    /\ disposed' = IF value_set THEN disposed + 1 ELSE disposed
    /\ value_set' = FALSE
    /\ UNCHANGED <<innerVars, value, call>>

IntoInner == MoveOut("moved")

\* take puts a new cell in the place of this one, and consumes it.
Take == MoveOut("taken")

\* Drop for OnceCell: that of its owner, or the one at the end of into_inner
DropCell ==
    /\ cell \in {"alive", "moved", "taken"}
    /\ Unused
    /\ cell' = IF cell = "taken" THEN "replaced" ELSE "gone"
    /\ disposed' = IF value_set THEN disposed + 1 ELSE disposed
    /\ UNCHANGED <<innerVars, value_set, value, call>>

\* The next cell: after take an empty one, which was there before the drop.
NewCell(new) ==
    /\ cell = "gone" \/ (cell = "replaced" /\ new = Empty)
    /\ permits' = new.permits
    /\ closed' = new.closed
    /\ balance' = new.permits
    /\ value_set' = new.closed
    /\ value' = new.value
    /\ cell' = "alive"
    /\ disposed' = 0
    /\ UNCHANGED <<waiters, acq, call>>

Poll(f) == PollInitialized(f) \/ PollAcquired(f) \/ PollWait(f) \/ PollClosed(f)

Next ==
    \/ \E f \in Futures :
          \/ GetOrInit(f) \/ Poll(f) \/ DropFuture(f)
          \/ Set(f) \/ SetValue(f) \/ Abort(f)
    \/ IntoInner \/ Take \/ DropCell
    \/ \E new \in NewCells : NewCell(new)

Spec == Init /\ [][Next]_vars

\* The executor polls the tasks that have been woken, failed calls return, and
\* an attempt to initialise the cell ends, one way or the other.
Fairness ==
    \A f \in Futures :
       /\ WF_vars(acq[f].notified /\ Poll(f))
       /\ WF_vars(acq[f].phase = "failed" /\ DropFuture(f))
       /\ WF_vars(SetValue(f) \/ Abort(f))

FairSpec == Spec /\ Fairness
-----------------------------------------------------------------------------
\* The comment on the fields of OnceCell, which makes its reads sound: the
\* semaphore is closed exactly if the value is there, and value_set says so; in
\* particular a call whose acquire has failed finds the value.
ClosedWhenSet ==
    /\ cell = "alive" => (closed <=> value_set) /\ (value_set <=> value # Uninit)
    /\ \A f \in Futures : acq[f].phase = "failed" => value_set

\* Only one call at a time may initialise the cell, and none once it is, so a
\* value is never written over.
Initializers == {f \in Futures : call[f] \in {"initializing", "setting"}}

OneInitializer ==
    /\ Cardinality(Initializers) <= 1
    /\ value_set => Initializers = {}

\* If an attempt is cancelled or fails, another can start: as long as there is
\* no value, either some call initialises the cell, or the permit is free, or one
\* of the calls that wait has been given it and is woken.
AttemptPassedOn ==
    cell = "alive" /\ ~value_set =>
       \/ Initializers # {}
       \/ permits = 1 /\ waiters = <<>>
       \/ \E f \in Futures : /\ call[f] = "acquiring"
                             /\ acq[f].queued
                             /\ acq[f].remaining = 0
                             /\ acq[f].notified

\* Each call that waits is eventually let in, or gets the value, or is cancelled.
CallsReturn ==
    \A f \in Futures :
       call[f] = "acquiring" /\ acq[f].queued ~> call[f] # "acquiring"

\* Whatever ends a cell, its value is handed out or destroyed once, and what was
\* never written not at all.
DisposedOnce ==
    /\ cell = "alive" => disposed = 0
    /\ cell \in {"replaced", "gone"} => disposed = (IF value = Uninit THEN 0 ELSE 1)
=============================================================================
