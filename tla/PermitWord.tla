----------------------------- MODULE PermitWord -----------------------------
(***************************************************************************)
(* The word of src/semaphore.rs that counts permits: a usize, shifted by   *)
(* one, whose lowest bit is the CLOSED flag.  SemaphoreInner has a natural *)
(* number and a Boolean in its place; here are the shift, the mask, the    *)
(* comparisons and the sums as the machine makes them, on words of a few   *)
(* bits.  An addition that overflows wraps, as in a release build.         *)
(*                                                                         *)
(* A slot is an acquisition: a future that waits, then a guard.  At most   *)
(* one future is short of permits at a time (the list is the subject of    *)
(* SemaphoreInner); others may have been served and not yet polled.        *)
(***************************************************************************)
EXTENDS Integers, FiniteSets

CONSTANTS
    WordSize,     \* the values of a usize: a power of two
    RequestSize,  \* those of the u32 that acquire_many takes
    Slots,
    MaxSupply     \* bound of the model: permits ever in existence

ASSUME WordAssumption ==
    /\ WordSize \in Nat /\ WordSize > 8
    /\ RequestSize \in 1..WordSize
    /\ IsFiniteSet(Slots)
    /\ MaxSupply \in Nat

VARIABLES
    word,    \* Inner.permits
    slot,    \* the future or the guard in each slot
    supply,  \* history: permits made and not forgotten
    closed   \* history: close has been called

wordVars == <<word, slot, supply, closed>>
-----------------------------------------------------------------------------
MAX_PERMITS == (WordSize - 1) \div 8
Requests == 0..RequestSize - 1

\* n << PERMIT_SHIFT, word >> PERMIT_SHIFT, word & CLOSED
Shl(n) == (n * 2) % WordSize
Count == word \div 2
CLOSED == word % 2 = 1

Free == [phase |-> "free", num |-> 0, state |-> 0]
Guard(n) == [phase |-> "held", num |-> n, state |-> 0]

\* add_permits(rem), in a state where the word is `avail` and the slots are s:
\* first to the waiter, then to the word, unless the assertion fails.
Give(rem, avail, s) ==
    LET short == {g \in Slots : s[g].phase = "waiting" /\ s[g].state > 0 /\ ~CLOSED}
    IN  \/ /\ short = {}
           /\ rem <= MAX_PERMITS
           /\ word' = (avail + Shl(rem)) % WordSize
           /\ slot' = s
        \/ \E g \in short :
              LET assign == IF rem < s[g].state THEN rem ELSE s[g].state
              IN  /\ rem - assign <= MAX_PERMITS
                  /\ word' = (avail + Shl(rem - assign)) % WordSize
                  /\ slot' = [s EXCEPT ![g].state = @ - assign]

\* Inner::new masks its argument.
WordInit ==
    /\ \E n \in 0..WordSize - 1 : supply = n % (MAX_PERMITS + 1)
    /\ word = Shl(supply)
    /\ slot = [g \in Slots |-> Free]
    /\ closed = FALSE

\* Mutant: the request is compared before it is shifted.
TryAcquireUnshifted(g, n) ==
    /\ slot[g] = Free
    /\ n <= MAX_PERMITS
    /\ ~CLOSED
    /\ word >= n
    /\ word' = (word - Shl(n)) % WordSize
    /\ slot' = [slot EXCEPT ![g] = Guard(n)]
    /\ UNCHANGED <<supply, closed>>

TryAcquire(g, n) ==
    /\ slot[g] = Free
    /\ n <= MAX_PERMITS
    /\ ~CLOSED
    /\ word >= Shl(n)
    /\ word' = word - Shl(n)
    /\ slot' = [slot EXCEPT ![g] = Guard(n)]
    /\ UNCHANGED <<supply, closed>>

\* The first poll of acquire_many(n): there is no assertion on n, only a shift.
PollFast(g, n) ==
    /\ slot[g] = Free
    /\ ~CLOSED
    /\ word >= Shl(n)
    /\ word' = word - Shl(n)
    /\ slot' = [slot EXCEPT ![g] = Guard(n)]
    /\ UNCHANGED <<supply, closed>>

\* A first poll that finds less takes it all.
PollShort(g, n) ==
    /\ slot[g] = Free
    /\ ~CLOSED
    /\ word < Shl(n)
    /\ \A h \in Slots : slot[h].phase = "waiting" => slot[h].state = 0
    /\ word' = 0
    /\ slot' = [slot EXCEPT ![g] = [phase |-> "waiting", num |-> n, state |-> n - Count]]
    /\ UNCHANGED <<supply, closed>>

\* The poll of a future that has been served empties the word, and puts back
\* through add_permits what it does not need: all of it.
PollServed(g) ==
    /\ slot[g].phase = "waiting"
    /\ slot[g].state <= Count
    /\ ~CLOSED
    /\ Give(Count - slot[g].state, 0, [slot EXCEPT ![g] = Guard(slot[g].num)])
    /\ UNCHANGED <<supply, closed>>

\* The future is cancelled, or its semaphore is closed, and it is dropped.
DropAcquire(g) ==
    /\ slot[g].phase = "waiting"
    /\ Give(slot[g].num - slot[g].state, word, [slot EXCEPT ![g] = Free])
    /\ UNCHANGED <<supply, closed>>

DropGuard(g) ==
    /\ slot[g].phase = "held"
    /\ Give(slot[g].num, word, [slot EXCEPT ![g] = Free])
    /\ UNCHANGED <<supply, closed>>

Forget(g) ==
    /\ slot[g].phase = "held"
    /\ slot' = [slot EXCEPT ![g] = Free]
    /\ supply' = supply - slot[g].num
    /\ UNCHANGED <<word, closed>>

AddPermits(n) ==
    /\ supply + n <= MaxSupply
    /\ Give(n, word, slot)
    /\ supply' = supply + n
    /\ UNCHANGED closed

\* close: the flag is or-ed in.
Close ==
    /\ word' = IF CLOSED THEN word ELSE word + 1
    /\ closed' = TRUE
    /\ UNCHANGED <<slot, supply>>

WordNext ==
    \/ \E g \in Slots :
          \/ \E n \in Requests : TryAcquire(g, n) \/ PollFast(g, n) \/ PollShort(g, n)
          \/ PollServed(g) \/ DropAcquire(g) \/ DropGuard(g) \/ Forget(g)
    \/ \E n \in 1..MaxSupply : AddPermits(n)
    \/ Close

WordSpec == WordInit /\ [][WordNext]_wordVars
-----------------------------------------------------------------------------
\* The permits in guards, and those that futures have been assigned; and how many
\* they are, with one element for each.
Held(g) == IF slot[g].phase = "held" THEN slot[g].num ELSE 0
Assigned(g) == IF slot[g].phase = "waiting" THEN slot[g].num - slot[g].state ELSE 0
Out == Cardinality(UNION {{g} \X (1..Held(g) + Assigned(g)) : g \in Slots})

\* The word is at all times the number of the permits that are neither held nor
\* assigned, shifted, with the flag in its lowest bit: no request or release runs
\* over into the flag, no close changes the count, and nothing is cut off.
WordIsCount ==
    word = 2 * (supply - Out) + (IF closed THEN 1 ELSE 0)

\* What the doc of acquire_many says: it acquires the permits that its guard
\* represents, so that guards never hold more than there are.
GuardsBacked ==
    Cardinality(UNION {{g} \X (1..Held(g)) : g \in Slots}) <= supply
=============================================================================
