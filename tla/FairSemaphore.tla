---------------------------- MODULE FairSemaphore ---------------------------
(***************************************************************************)
(* What the semaphore of src/semaphore.rs promises: permits are given out  *)
(* in the order in which they were asked for, each request is granted      *)
(* whole, as soon as there are enough permits for it and for those ahead   *)
(* of it, and nothing is granted or taken once the semaphore is closed.    *)
(* A request of no permits never waits.                                    *)
(***************************************************************************)
EXTENDS Integers, Sequences

CONSTANTS Futures, Amounts, InitialPermits

VARIABLES
    pool,     \* permits that are neither granted nor taken
    line,     \* the requests that wait, the oldest first
    granted,  \* the requests that are granted and not yet collected
    closed,
    balance   \* permits put in minus permits taken

Request == [who : Futures, num : Amounts]

Init ==
    /\ pool \in 0..InitialPermits
    /\ line = <<>>
    /\ granted = {}
    /\ closed = FALSE
    /\ balance = pool

\* With `have` permits the requests of q are granted one after the other, up to
\* the first that needs more than left[i], what the i requests before it leave.
Settle(have, q, g) ==
    \E k \in 0..Len(q) : \E left \in [0..k -> 0..have] :
        /\ left[0] = have
        /\ \A i \in 1..k : left[i] = left[i-1] - q[i].num
        /\ k < Len(q) => left[k] < q[k+1].num
        /\ pool' = left[k]
        /\ line' = SubSeq(q, k + 1, Len(q))
        /\ granted' = g \cup {q[i] : i \in 1..k}

\* Permits that need not be waited for.
Take(n) ==
    /\ ~closed
    /\ n = 0 \/ line = <<>>
    /\ n <= pool
    /\ pool' = pool - n
    /\ balance' = balance - n
    /\ UNCHANGED <<line, granted, closed>>

Join(r) ==
    /\ ~closed
    /\ r.num > 0
    /\ line = <<>> => pool < r.num
    /\ line' = Append(line, r)
    /\ UNCHANGED <<pool, granted, closed, balance>>

Collect(r) ==
    /\ r \in granted
    /\ granted' = granted \ {r}
    /\ balance' = balance - r.num
    /\ UNCHANGED <<pool, line, closed>>

\* A request is withdrawn from the line, ...
Leave(i) ==
    /\ Settle(pool, SubSeq(line, 1, i - 1) \o SubSeq(line, i + 1, Len(line)), granted)
    /\ UNCHANGED <<closed, balance>>

\* ... or after it has been granted.
GiveBack(r) ==
    /\ r \in granted
    /\ Settle(pool + r.num, line, granted \ {r})
    /\ UNCHANGED <<closed, balance>>

Put(n) ==
    /\ IF closed THEN UNCHANGED <<pool, line, granted>>
                 ELSE Settle(pool + n, line, granted)
    /\ balance' = balance + n
    /\ UNCHANGED closed

Close ==
    /\ closed' = TRUE
    /\ pool' = 0
    /\ line' = <<>>
    /\ granted' = {}
    /\ UNCHANGED balance

Next ==
    \/ \E n \in Amounts : Take(n) \/ Put(n)
    \/ \E r \in Request : Join(r) \/ Collect(r) \/ GiveBack(r)
    \/ \E i \in DOMAIN line : Leave(i)
    \/ Close

Spec == Init /\ [][Next]_<<pool, line, granted, closed, balance>>
=============================================================================
