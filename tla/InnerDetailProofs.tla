-------------------------- MODULE InnerDetailProofs --------------------------
(***************************************************************************)
(* What SemaphoreInner takes in one step, or as one number, seen from      *)
(* close by.  First the loop of add_permits with its list of wakers, for   *)
(* any size of the list, number of waiters and permits: every waker is     *)
(* used once, and the call that returns has done what the single step of   *)
(* SemaphoreInner does.  Then the word of permits, for any width.          *)
(***************************************************************************)
EXTENDS AddPermitsLoop, PermitWord, SequenceTheorems, FiniteSetTheorems, TLAPS

\* The call begins with waiters that are short of something and can be woken.
Started ==
    /\ start.rem \in Nat
    /\ start.permits \in Nat
    /\ start.waiters \in Seq(Futures)
    /\ \A i, j \in 1..Len(start.waiters) :
          start.waiters[i] = start.waiters[j] => i = j
    /\ start.acq \in [Futures -> Inner!Future]
    /\ \A i \in 1..Len(start.waiters) :
          LET r == start.acq[start.waiters[i]]
          IN  r.remaining > 0 /\ r.notified = FALSE /\ r.waker = r.cx

\* k waiters have been popped, and left[i] was there after the i-th.
Turns(k, left) ==
    /\ k \in 0..Len(start.waiters)
    /\ left \in [0..k -> 0..start.rem]
    /\ left[0] = start.rem
    /\ \A i \in 1..k :
          left[i] = left[i - 1] - start.acq[start.waiters[i]].remaining

Suffix(k) ==
    /\ waiters \in Seq(Futures)
    /\ Len(waiters) = Len(start.waiters) - k
    /\ \A i \in 1..Len(waiters) : waiters[i] = start.waiters[k + i]

Gone(k) == {start.waiters[i] : i \in 1..k}

\* The others are as they were, but that the oldest of them may have been given
\* what was left.
Fed(k, left) ==
    /\ k < Len(start.waiters)
    /\ rem = 0
    /\ left[k] < start.acq[start.waiters[k + 1]].remaining

Staying(k, left) ==
    \A f \in Futures \ Gone(k) :
       acq[f] = IF k < Len(start.waiters) /\ f = start.waiters[k + 1]
                THEN [start.acq[f] EXCEPT !.remaining = @ - (left[k] - rem)]
                ELSE start.acq[f]

\* Where the permits are.
Account(k, left) ==
    /\ rem \in Nat
    /\ is_empty \in BOOLEAN
    /\ acq = [f \in Futures |-> acq[f]]
    /\ pc \in {"serve", "settle", "wake", "done", "unwind", "panicked"}
    /\ pc = "serve" => rem = left[k] /\ ~is_empty
    /\ pc \in {"serve", "settle"} => permits = start.permits
    /\ pc \in {"settle", "wake", "done"} /\ ~is_empty =>
          permits = start.permits /\ (rem = left[k] \/ Fed(k, left))
    /\ pc \in {"settle", "wake", "done"} /\ is_empty => k = Len(start.waiters)
    /\ pc = "settle" /\ is_empty => rem = left[k]
    /\ pc \in {"wake", "done"} /\ is_empty =>
          rem = 0 /\ left[k] <= MaxPermits /\ permits = start.permits + left[k]
    /\ pc = "done" => rem = 0

\* The cells of the list, and what became of the waiters that were popped.
Batch(k) ==
    /\ curr \in 0..NumWakers
    /\ inner \in [Cells -> Futures \cup {None}]
    /\ \A i \in Cells : IF i < curr THEN inner[i] \in Gone(k) ELSE inner[i] = None
    /\ \A i, j \in 0..curr - 1 : inner[i] = inner[j] => i = j
    /\ pc \in {"done", "panicked"} => curr = 0
    /\ pc # "panicked" => dropped = {}

InCell(f) == \E i \in 0..curr - 1 : inner[i] = f

\* A waiter that has been served, before and after its waker is used; and what
\* became of those that have been popped.
Silent(f) == [start.acq[f] EXCEPT !.remaining = 0, !.waker = None]
Awake(f) == [start.acq[f] EXCEPT !.remaining = 0, !.waker = None, !.notified = TRUE]

Fates(k) ==
    \A f \in Gone(k) :
       \/ InCell(f) /\ f \notin dropped /\ acq[f] = Silent(f)
       \/ ~InCell(f) /\ f \in dropped /\ acq[f] = Silent(f)
       \/ ~InCell(f) /\ f \notin dropped /\ acq[f] = Awake(f)

\* The inductive invariant: where the call is when k waiters have been popped.
Loop(k, left) ==
    /\ Started
    /\ Turns(k, left)
    /\ Suffix(k)
    /\ Staying(k, left)
    /\ Account(k, left)
    /\ Batch(k)
    /\ Fates(k)

-----------------------------------------------------------------------------
LEMMA NothingGiven ==
    ASSUME NEW r \in Inner!Future
    PROVE  [r EXCEPT !.remaining = @ - 0] = r
  BY DEF Inner!Future

LEMMA StartedFacts ==
    ASSUME Started
    PROVE  /\ Len(start.waiters) \in Nat
           /\ \A i \in 1..Len(start.waiters) : start.waiters[i] \in Futures
           /\ \A f \in Futures : start.acq[f] \in Inner!Future
           /\ \A f \in Futures : start.acq[f].remaining \in Nat
<1>1. /\ Len(start.waiters) \in Nat
      /\ \A i \in 1..Len(start.waiters) : start.waiters[i] \in Futures
  <2>. DEFINE q == start.waiters
  <2>1. q \in Seq(Futures)
    BY DEF Started
  <2>. HIDE DEF q
  <2>2. Len(q) \in Nat /\ \A i \in 1..Len(q) : q[i] \in Futures
    BY <2>1
  <2>. QED
    BY <2>2 DEF q
<1>2. \A f \in Futures : start.acq[f] \in Inner!Future
  BY DEF Started
<1>3. \A f \in Futures : start.acq[f].remaining \in Nat
  BY <1>2 DEF Inner!Future
<1>. QED
  BY <1>1, <1>2, <1>3

LEMMA StartedStays == ASSUME Started, start' = start PROVE Started'
  BY DEF Started

LEMMA TurnsStay ==
    ASSUME NEW k, NEW left, Turns(k, left), start' = start PROVE Turns(k, left)'
  BY DEF Turns

\* The permits that are left after k turns are a number.
LEMMA LeftIsNat ==
    ASSUME NEW k, NEW left, Started, Turns(k, left)
    PROVE  left[k] \in Nat /\ left[k] <= start.rem /\ k \in Nat
<1>1. /\ k \in 0..Len(start.waiters) /\ left \in [0..k -> 0..start.rem]
      /\ start.rem \in Nat
  BY DEF Turns, Started
<1>2. Len(start.waiters) \in Nat
  BY StartedFacts
<1>3. k \in 0..k
  BY <1>1, <1>2
<1>. QED
  BY <1>1, <1>2, <1>3

\* The wait list, its first element, and the waiters that have been popped.
LEMMA FirstWaiter ==
    ASSUME NEW k, NEW left, Started, Turns(k, left), Suffix(k), waiters # <<>>
    PROVE  /\ k < Len(start.waiters)
           /\ k + 1 \in 1..Len(start.waiters)
           /\ Head(waiters) = start.waiters[k + 1]
           /\ Head(waiters) \in Futures
           /\ Head(waiters) \notin Gone(k)
           /\ start.acq[Head(waiters)].remaining > 0
<1>. DEFINE n == Len(start.waiters)
<1>0. n \in Nat /\ k \in 0..n /\ \A i \in 1..n : start.waiters[i] \in Futures
  BY StartedFacts DEF Turns
<1>1. /\ waiters \in Seq(Futures) /\ Len(waiters) = n - k
      /\ \A i \in 1..Len(waiters) : waiters[i] = start.waiters[k + i]
  BY DEF Suffix
<1>2. Len(waiters) \in Nat /\ Len(waiters) > 0 /\ Head(waiters) = waiters[1]
  BY <1>1, EmptySeq, HeadTailProperties
<1>. HIDE DEF n
<1>3. k < n /\ k + 1 \in 1..n
  BY <1>0, <1>1, <1>2
<1>4. Head(waiters) = start.waiters[k + 1]
  BY <1>1, <1>2
<1>5. Head(waiters) \notin Gone(k)
  <2>1. \A i \in 1..k : i \in 1..n /\ i # k + 1
    BY <1>0, <1>3
  <2>2. \A i, j \in 1..n : start.waiters[i] = start.waiters[j] => i = j
    BY DEF Started, n
  <2>. QED
    BY <1>3, <1>4, <2>1, <2>2 DEF Gone
<1>6. start.acq[Head(waiters)].remaining > 0
  BY <1>3, <1>4 DEF Started, n
<1>. QED
  BY <1>0, <1>3, <1>4, <1>5, <1>6 DEF n

LEMMA NoWaiter ==
    ASSUME NEW k, NEW left, Started, Turns(k, left), Suffix(k), waiters = <<>>
    PROVE  k = Len(start.waiters)
<1>. DEFINE n == Len(start.waiters)
<1>1. n \in Nat /\ k \in 0..n /\ Len(waiters) = n - k /\ Len(waiters) = 0
  BY StartedFacts DEF Turns, Suffix
<1>. HIDE DEF n
<1>2. k = n
  BY <1>1
<1>. QED
  BY <1>2 DEF n

LEMMA GoneAreFutures ==
    ASSUME NEW k, NEW left, Started, Turns(k, left)
    PROVE  Gone(k) \subseteq Futures
<1>1. k \in 0..Len(start.waiters) /\ Len(start.waiters) \in Nat
  BY StartedFacts DEF Turns
<1>2. \A i \in 1..k : i \in 1..Len(start.waiters)
  BY <1>1
<1>. QED
  BY <1>2, StartedFacts DEF Gone

\* A step that leaves the waiters and the cells alone.
LEMMA QuietTurn ==
    ASSUME NEW k, NEW left, Loop(k, left),
           UNCHANGED <<inner, curr, waiters, acq, start, dropped>>,
           rem' = rem \/ k = Len(start.waiters),
           pc \notin {"done", "panicked"}, pc' # "panicked",
           pc' = "done" => curr = 0,
           Account(k, left)'
    PROVE  Loop(k, left)'
<1>1. Started' /\ Turns(k, left)' /\ Suffix(k)'
  BY StartedStays, TurnsStay DEF Loop, Suffix
<1>2. Staying(k, left)'
  <2>1. k = Len(start.waiters) => ~(k < Len(start.waiters))
    BY StartedFacts DEF Loop
  <2>. QED
    BY <2>1 DEF Loop, Staying, Gone
<1>3. Batch(k)'
  BY DEF Loop, Batch, Gone
<1>4. Fates(k)'
  BY DEF Loop, Fates, Gone, InCell, Silent, Awake
<1>. QED
  BY <1>1, <1>2, <1>3, <1>4 DEF Loop

LEMMA EmptyTurn ==
    ASSUME NEW k, NEW left, Loop(k, left), Empty PROVE Loop(k, left)'
<1>1. k = Len(start.waiters)
  BY NoWaiter DEF Loop, Empty
<1>2. Account(k, left)'
  BY <1>1 DEF Loop, Account, Empty
<1>. QED
  BY <1>1, <1>2, QuietTurn DEF Empty

LEMMA FullTurn ==
    ASSUME NEW k, NEW left, Loop(k, left), Full PROVE Loop(k, left)'
<1>1. Account(k, left)'
  BY DEF Loop, Account, Full
<1>. QED
  BY <1>1, QuietTurn DEF Full

LEMMA SettleTurn ==
    ASSUME NEW k, NEW left, Loop(k, left), Settle PROVE Loop(k, left)'
<1>0. left[k] \in Nat /\ rem \in Nat /\ start.permits \in Nat /\ MaxPermits \in Nat
  BY LeftIsNat, LoopAssumption DEF Loop, Account, Started
<1>1. pc = "settle" /\ pc' = "wake" /\ UNCHANGED <<is_empty, inner, curr, waiters, acq, start, dropped>>
  BY DEF Settle
<1>2. CASE rem > 0 /\ is_empty
  <2>1. rem <= MaxPermits /\ permits' = permits + rem /\ rem' = 0
    BY <1>2 DEF Settle
  <2>2. k = Len(start.waiters) /\ rem = left[k] /\ permits = start.permits
    BY <1>1, <1>2 DEF Loop, Account
  <2>3. Account(k, left)'
    BY <1>0, <1>1, <1>2, <2>1, <2>2 DEF Loop, Account
  <2>. QED
    BY <1>1, <2>2, <2>3, QuietTurn
<1>3. CASE ~(rem > 0 /\ is_empty)
  <2>1. permits' = permits /\ rem' = rem
    BY <1>3 DEF Settle
  <2>2. is_empty => rem = 0 /\ left[k] = 0
    BY <1>0, <1>1, <1>3 DEF Loop, Account
  <2>3. Account(k, left)'
    <3>1. CASE is_empty
      BY <1>0, <1>1, <2>1, <2>2, <3>1 DEF Loop, Account
    <3>2. CASE ~is_empty
      BY <1>0, <1>1, <2>1, <3>2 DEF Loop, Account, Fed
    <3>. QED
      BY <3>1, <3>2
  <2>. QED
    BY <1>1, <2>1, <2>3, QuietTurn
<1>. QED
  BY <1>2, <1>3

LEMMA PanicTurn ==
    ASSUME NEW k, NEW left, Loop(k, left), Panic PROVE Loop(k, left)'
<1>1. Account(k, left)'
  BY DEF Loop, Account, Panic
<1>. QED
  BY <1>1, QuietTurn DEF Panic

LEMMA TurnTurn ==
    ASSUME NEW k, NEW left, Loop(k, left), Turn PROVE Loop(k, left)'
<1>0. /\ rem \in Nat /\ pc = "wake" /\ curr = 0
      /\ pc' = IF rem > 0 THEN "serve" ELSE "done"
      /\ UNCHANGED <<rem, is_empty, inner, curr, permits, waiters, acq, start, dropped>>
  BY DEF Loop, Account, Turn
<1>1. CASE rem > 0
  <2>1. pc' = "serve" /\ ~is_empty /\ rem = left[k] /\ permits = start.permits
    BY <1>0, <1>1 DEF Loop, Account, Fed
  <2>2. Account(k, left)'
    BY <1>0, <2>1 DEF Loop, Account
  <2>. QED
    BY <1>0, <2>1, <2>2, QuietTurn
<1>2. CASE ~(rem > 0)
  <2>1. pc' = "done" /\ rem = 0
    BY <1>0, <1>2
  <2>2. Account(k, left)'
    BY <1>0, <2>1 DEF Loop, Account, Fed
  <2>. QED
    BY <1>0, <2>1, <2>2, QuietTurn
<1>. QED
  BY <1>1, <1>2

\* Popping one more waiter adds it to those that are gone.
LEMMA GoneGrows ==
    ASSUME NEW k \in Nat
    PROVE  Gone(k + 1) = Gone(k) \cup {start.waiters[k + 1]}
<1>1. 1..k + 1 = (1..k) \cup {k + 1}
  OBVIOUS
<1>. QED
  BY <1>1 DEF Gone

\* The waiter at the head is as it was when the call began.
LEMMA HeadIsFresh ==
    ASSUME NEW k, NEW left, Loop(k, left), pc = "serve", waiters # <<>>
    PROVE  acq[Head(waiters)] = start.acq[Head(waiters)]
<1>. DEFINE f == Head(waiters)
<1>1. /\ k < Len(start.waiters) /\ f = start.waiters[k + 1]
      /\ f \in Futures /\ f \notin Gone(k)
  BY FirstWaiter DEF Loop
<1>2. left[k] \in Nat /\ rem = left[k] /\ start.acq[f] \in Inner!Future
  BY <1>1, LeftIsNat, StartedFacts DEF Loop, Account
<1>. HIDE DEF f
<1>3. acq[f] = [start.acq[f] EXCEPT !.remaining = @ - (left[k] - rem)]
  BY <1>1 DEF Loop, Staying
<1>4. left[k] - rem = 0
  BY <1>2
<1>5. acq[f] = start.acq[f]
  BY <1>2, <1>3, <1>4, NothingGiven
<1>. QED
  BY <1>5 DEF f

LEMMA ServeTurn ==
    ASSUME NEW k, NEW left, Loop(k, left), Serve
    PROVE  \E l : Loop(k + 1, l)'
<1>. DEFINE f == Head(waiters)
            n == Len(start.waiters)
            need == start.acq[f].remaining
<1>0. \E l : l = [i \in 0..k + 1 |-> IF i <= k THEN left[i] ELSE left[k] - need]
  OBVIOUS
<1>9. PICK left2 : left2 = [i \in 0..k + 1 |-> IF i <= k THEN left[i] ELSE left[k] - need]
  BY <1>0
<1>1. /\ pc = "serve" /\ curr < NumWakers /\ waiters # <<>>
      /\ rem >= acq[f].remaining /\ rem' = rem - acq[f].remaining
      /\ acq' = [acq EXCEPT ![f].remaining = 0, ![f].waker = None]
      /\ inner' = [inner EXCEPT ![curr] = f] /\ curr' = curr + 1
      /\ waiters' = Tail(waiters)
      /\ UNCHANGED <<pc, is_empty, permits, start, dropped>>
  BY DEF Serve, Push
<1>2. /\ k < n /\ k + 1 \in 1..n /\ f = start.waiters[k + 1]
      /\ f \in Futures /\ f \notin Gone(k) /\ need > 0
  BY <1>1, FirstWaiter DEF Loop
<1>3. /\ acq[f] = start.acq[f] /\ start.acq[f] \in Inner!Future
      /\ need \in Nat /\ n \in Nat
  BY <1>1, <1>2, HeadIsFresh, StartedFacts DEF Loop
<1>4. left[k] \in Nat /\ left[k] <= start.rem /\ k \in Nat /\ start.rem \in Nat
  BY LeftIsNat DEF Loop, Started
<1>5. rem = left[k] /\ ~is_empty /\ permits = start.permits /\ dropped = {}
  BY <1>1 DEF Loop, Account, Batch
<1>6. Gone(k + 1) = Gone(k) \cup {f} /\ Gone(k + 1)' = Gone(k + 1) /\ Gone(k) \subseteq Futures
  BY <1>1, <1>2, <1>4, GoneGrows, GoneAreFutures DEF Gone, Loop
<1>7. waiters \in Seq(Futures) /\ Len(waiters) = n - k /\ Len(waiters) \in Nat
      /\ \A i \in 1..Len(waiters) : waiters[i] = start.waiters[k + i]
  BY DEF Loop, Suffix
<1>. HIDE DEF f, n, need
<1>8. left2[k + 1] = left[k] - need /\ left[k] - need \in 0..start.rem /\ rem' = left2[k + 1]
      /\ rem' \in Nat
  BY <1>9, <1>1, <1>3, <1>4, <1>5 DEF need
<1>10. Started'
  BY <1>1, StartedStays DEF Loop
<1>11. Turns(k + 1, left2)'
  <2>1. k \in 0..n /\ left \in [0..k -> 0..start.rem] /\ left[0] = start.rem
        /\ \A i \in 1..k : left[i] = left[i - 1] - start.acq[start.waiters[i]].remaining
    BY DEF Loop, Turns, n
  <2>2. left2 \in [0..k + 1 -> 0..start.rem]
    <3>1. \A i \in 0..k + 1 : i <= k => i \in 0..k
      BY <1>4
    <3>. QED
      BY <1>9, <1>8, <2>1, <3>1
  <2>3. left2[0] = start.rem
    BY <1>9, <1>4, <2>1
  <2>4. \A i \in 1..k + 1 : left2[i] = left2[i - 1] - start.acq[start.waiters[i]].remaining
    <3>1. SUFFICES ASSUME NEW i \in 1..k + 1
                   PROVE  left2[i] = left2[i - 1] - start.acq[start.waiters[i]].remaining
      OBVIOUS
    <3>2. CASE i = k + 1
      <4>1. i - 1 = k /\ k \in 0..k + 1
        BY <1>4, <3>2
      <4>2. left2[i - 1] = left[k]
        BY <1>9, <4>1, <1>4
      <4>. QED
        BY <1>2, <1>8, <3>2, <4>2 DEF need
    <3>3. CASE i # k + 1
      <4>1. i \in 1..k /\ i - 1 \in 0..k /\ i \in 0..k + 1 /\ i - 1 \in 0..k + 1
        BY <1>4, <3>3
      <4>2. left2[i] = left[i] /\ left2[i - 1] = left[i - 1]
        BY <1>9, <4>1, <1>4
      <4>. QED
        BY <2>1, <4>1, <4>2
    <3>. QED
      BY <3>2, <3>3
  <2>5. k + 1 \in 0..n
    BY <1>2
  <2>6. start' = start
    BY <1>1
  <2>7. Turns(k + 1, left2)
    BY <2>2, <2>3, <2>4, <2>5 DEF Turns, n
  <2>. QED
    BY <2>6, <2>7, TurnsStay
<1>12. Suffix(k + 1)'
  <2>1. /\ Tail(waiters) \in Seq(Futures) /\ Len(Tail(waiters)) = Len(waiters) - 1
        /\ \A i \in 1..Len(Tail(waiters)) : Tail(waiters)[i] = waiters[i + 1]
    BY <1>1, <1>7, EmptySeq, HeadTailProperties
  <2>2. Len(waiters') = n - (k + 1)
    BY <1>1, <1>3, <1>4, <1>7, <2>1
  <2>3. ASSUME NEW i \in 1..Len(waiters') PROVE waiters'[i] = start.waiters[(k + 1) + i]
    <3>1. i \in Nat /\ i + 1 \in 1..Len(waiters) /\ k + (i + 1) = (k + 1) + i
      BY <1>1, <1>4, <1>7, <2>1
    <3>2. waiters[i + 1] = start.waiters[k + (i + 1)]
      BY <1>7, <3>1
    <3>. QED
      BY <1>1, <2>1, <3>1, <3>2
  <2>. QED
    BY <1>1, <2>1, <2>2, <2>3 DEF Suffix, n
<1>13. Staying(k + 1, left2)'
  <2>1. SUFFICES ASSUME NEW g \in Futures \ Gone(k + 1)
                 PROVE  acq'[g] = IF k + 1 < n /\ g = start.waiters[(k + 1) + 1]
                                  THEN [start.acq[g] EXCEPT !.remaining = @ - (left2[k + 1] - rem')]
                                  ELSE start.acq[g]
    BY <1>1, <1>6 DEF Staying, n
  <2>2. g \notin Gone(k) /\ g # f
    BY <1>6
  <2>3. acq'[g] = start.acq[g]
    <3>1. acq[g] = start.acq[g]
      BY <1>2, <2>2 DEF Loop, Staying, n
    <3>2. g \in DOMAIN acq
      BY DEF Loop, Account
    <3>. QED
      BY <1>1, <2>2, <3>1, <3>2
  <2>4. left2[k + 1] - rem' = 0
    BY <1>8
  <2>5. [start.acq[g] EXCEPT !.remaining = @ - 0] = start.acq[g]
    BY StartedFacts, NothingGiven DEF Loop
  <2>. QED
    BY <2>3, <2>4, <2>5
<1>14. Account(k + 1, left2)'
  <2>1. acq' = [x \in Futures |-> acq'[x]] /\ is_empty \in BOOLEAN
    BY <1>1 DEF Loop, Account
  <2>. QED
    BY <1>1, <1>5, <1>8, <2>1 DEF Account
<1>20. /\ curr \in Nat /\ NumWakers \in Nat /\ Cells = 0..NumWakers - 1 /\ curr \in Cells
       /\ inner \in [Cells -> Futures \cup {None}]
       /\ \A i \in Cells : IF i < curr THEN inner[i] \in Gone(k) ELSE inner[i] = None
       /\ \A i, j \in 0..curr - 1 : inner[i] = inner[j] => i = j
  <2>1. NumWakers \in Nat /\ curr \in 0..NumWakers
    BY LoopAssumption DEF Loop, Batch
  <2>. QED
    BY <1>1, <2>1 DEF Loop, Batch, Cells
<1>21. \A i \in 0..curr - 1 : i \in Cells /\ inner[i] \in Gone(k) /\ inner[i] # f
                              /\ inner'[i] = inner[i]
  <2>1. \A i \in 0..curr - 1 : i \in Cells /\ i < curr /\ i # curr
    BY <1>20
  <2>. QED
    BY <1>1, <1>2, <1>20, <2>1
<1>22. inner'[curr] = f /\ 0..curr' - 1 = (0..curr - 1) \cup {curr}
  BY <1>1, <1>20
<1>15. Batch(k + 1)'
  <2>1. curr' \in 0..NumWakers
    BY <1>1, <1>20
  <2>2. inner' \in [Cells -> Futures \cup {None}]
    BY <1>1, <1>2, <1>20
  <2>3. ASSUME NEW i \in Cells
        PROVE  IF i < curr' THEN inner'[i] \in Gone(k + 1) ELSE inner'[i] = None
    <3>1. CASE i < curr
      <4>1. i \in 0..curr - 1 /\ i < curr'
        BY <1>1, <1>20, <3>1
      <4>. QED
        BY <1>6, <1>21, <4>1
    <3>2. CASE i = curr
      <4>1. i < curr'
        BY <1>1, <1>20, <3>2
      <4>. QED
        BY <1>6, <1>22, <3>2, <4>1
    <3>3. CASE i > curr
      <4>1. ~(i < curr') /\ ~(i < curr) /\ i # curr
        BY <1>1, <1>20, <3>3
      <4>2. inner[i] = None
        BY <1>20, <4>1
      <4>. QED
        BY <1>1, <1>20, <4>1, <4>2
    <3>4. i < curr \/ i = curr \/ i > curr
      BY <1>20
    <3>. QED
      BY <3>1, <3>2, <3>3, <3>4
  <2>4. \A i, j \in 0..curr' - 1 : inner'[i] = inner'[j] => i = j
    BY <1>20, <1>21, <1>22
  <2>5. pc' = "serve" /\ dropped' = {}
    BY <1>1, <1>5
  <2>6. Gone(k + 1)' = Gone(k + 1) /\ Cells' = Cells
    BY <1>6 DEF Cells
  <2>. QED
    BY <2>1, <2>2, <2>3, <2>4, <2>5, <2>6 DEF Batch
<1>16. Fates(k + 1)'
  <2>1. SUFFICES ASSUME NEW g \in Gone(k + 1)
                 PROVE  \/ InCell(g)' /\ g \notin dropped' /\ acq'[g] = Silent(g)
                        \/ ~InCell(g)' /\ g \in dropped' /\ acq'[g] = Silent(g)
                        \/ ~InCell(g)' /\ g \notin dropped' /\ acq'[g] = Awake(g)
    BY <1>1, <1>6 DEF Fates, Silent, Awake
  <2>2. DOMAIN acq = Futures
    BY DEF Loop, Account
  <2>3. CASE g = f
    <3>1. InCell(g)'
      BY <1>20, <1>22, <2>3 DEF InCell
    <3>2. acq'[g] = Silent(g)
      BY <1>1, <1>2, <1>3, <2>2, <2>3 DEF Silent
    <3>. QED
      BY <1>1, <1>5, <3>1, <3>2
  <2>4. CASE g # f
    <3>1. g \in Gone(k)
      BY <1>6, <2>4
    <3>2. acq'[g] = acq[g]
      BY <1>1, <1>6, <2>2, <2>4, <3>1
    <3>3. InCell(g)' <=> InCell(g)
      BY <1>21, <1>22, <2>4 DEF InCell
    <3>4. dropped' = dropped
      BY <1>1
    <3>. QED
      BY <3>1, <3>2, <3>3, <3>4 DEF Loop, Fates
  <2>. QED
    BY <2>3, <2>4
<1>17. Loop(k + 1, left2)'
  BY <1>10, <1>11, <1>12, <1>13, <1>14, <1>15, <1>16 DEF Loop
<1>. QED
  BY <1>17

LEMMA FeedTurn ==
    ASSUME NEW k, NEW left, Loop(k, left), Feed PROVE Loop(k, left)'
<1>. DEFINE f == Head(waiters)
            n == Len(start.waiters)
            need == start.acq[f].remaining
<1>1. /\ pc = "serve" /\ waiters # <<>> /\ rem < acq[f].remaining
      /\ acq' = [acq EXCEPT ![f].remaining = @ - rem]
      /\ rem' = 0 /\ pc' = "settle"
      /\ UNCHANGED <<is_empty, inner, curr, permits, waiters, start, dropped>>
  BY DEF Feed
<1>2. /\ k < n /\ f = start.waiters[k + 1]
      /\ f \in Futures /\ f \notin Gone(k)
  BY <1>1, FirstWaiter DEF Loop
<1>3. acq[f] = start.acq[f]
  BY <1>1, HeadIsFresh
<1>4. left[k] \in Nat /\ rem = left[k] /\ ~is_empty /\ permits = start.permits
  BY <1>1, LeftIsNat DEF Loop, Account
<1>5. DOMAIN acq = Futures /\ Gone(k)' = Gone(k)
  BY <1>1 DEF Loop, Account, Gone
<1>. HIDE DEF f, n, need
<1>6. Started' /\ Turns(k, left)' /\ Suffix(k)' /\ Batch(k)'
  <2>1. Started' /\ Turns(k, left)'
    BY <1>1, StartedStays, TurnsStay DEF Loop
  <2>2. Suffix(k)'
    BY <1>1 DEF Loop, Suffix
  <2>3. Batch(k)'
    BY <1>1, <1>5 DEF Loop, Batch, Cells
  <2>. QED
    BY <2>1, <2>2, <2>3
<1>7. Staying(k, left)'
  <2>1. SUFFICES ASSUME NEW g \in Futures \ Gone(k)
                 PROVE  acq'[g] = IF k < n /\ g = start.waiters[k + 1]
                                  THEN [start.acq[g] EXCEPT !.remaining = @ - (left[k] - rem')]
                                  ELSE start.acq[g]
    BY <1>1, <1>5 DEF Staying, n
  <2>2. left[k] - rem' = left[k]
    BY <1>1, <1>4
  <2>3. CASE g = f
    <3>1. acq'[g] = [start.acq[g] EXCEPT !.remaining = @ - left[k]]
      BY <1>1, <1>3, <1>4, <1>5, <2>3
    <3>. QED
      BY <1>2, <2>2, <2>3, <3>1
  <2>4. CASE g # f
    <3>1. acq[g] = start.acq[g]
      BY <1>2, <2>4 DEF Loop, Staying, n
    <3>2. acq'[g] = acq[g]
      BY <1>1, <1>5, <2>4
    <3>. QED
      BY <1>2, <2>4, <3>1, <3>2
  <2>. QED
    BY <2>3, <2>4
<1>8. Account(k, left)'
  <2>1. acq' = [x \in Futures |-> acq'[x]] /\ is_empty \in BOOLEAN
    BY <1>1 DEF Loop, Account
  <2>2. Fed(k, left)'
    BY <1>1, <1>2, <1>3, <1>4 DEF Fed, n
  <2>. QED
    BY <1>1, <1>4, <2>1, <2>2 DEF Account
<1>9. Fates(k)'
  <2>1. SUFFICES ASSUME NEW g \in Gone(k)
                 PROVE  \/ InCell(g)' /\ g \notin dropped' /\ acq'[g] = Silent(g)
                        \/ ~InCell(g)' /\ g \in dropped' /\ acq'[g] = Silent(g)
                        \/ ~InCell(g)' /\ g \notin dropped' /\ acq'[g] = Awake(g)
    BY <1>1, <1>5 DEF Fates, Silent, Awake
  <2>2. g \in Futures /\ g # f
    BY <1>2, GoneAreFutures DEF Loop
  <2>3. acq'[g] = acq[g] /\ (InCell(g)' <=> InCell(g)) /\ dropped' = dropped
    BY <1>1, <1>5, <2>2 DEF InCell
  <2>. QED
    BY <2>3 DEF Loop, Fates
<1>. QED
  BY <1>6, <1>7, <1>8, <1>9 DEF Loop

\* What is in the cells below curr.
LEMMA CellFacts ==
    ASSUME NEW k, Batch(k)
    PROVE  /\ NumWakers \in Nat /\ curr \in 0..NumWakers
           /\ inner \in [Cells -> Futures \cup {None}]
           /\ \A i \in 0..curr - 1 : i \in Cells /\ i < curr /\ inner[i] \in Gone(k)
           /\ \A i \in Cells : ~(i < curr) => inner[i] = None
           /\ \A i, j \in 0..curr - 1 : inner[i] = inner[j] => i = j
<1>1. NumWakers \in Nat /\ curr \in 0..NumWakers
  BY LoopAssumption DEF Batch
<1>2. \A i \in 0..curr - 1 : i \in Cells /\ i < curr
  BY <1>1 DEF Cells
<1>. QED
  BY <1>1, <1>2 DEF Batch

LEMMA WakeTurn ==
    ASSUME NEW k, NEW left, Loop(k, left), Wake PROVE Loop(k, left)'
<1>. DEFINE f == inner[curr - 1]
<1>1. /\ pc = "wake" /\ curr > 0 /\ curr' = curr - 1
      /\ acq' = [acq EXCEPT ![f].notified = @ \/ start.acq[f].waker = acq[f].cx]
      /\ inner' = [inner EXCEPT ![curr - 1] = None]
      /\ pc' \in {"wake", "unwind"}
      /\ UNCHANGED <<rem, is_empty, permits, waiters, start, dropped>>
  BY DEF Wake
<1>2. /\ NumWakers \in Nat /\ curr \in 0..NumWakers
      /\ inner \in [Cells -> Futures \cup {None}]
      /\ \A i \in 0..curr - 1 : i \in Cells /\ i < curr /\ inner[i] \in Gone(k)
      /\ \A i \in Cells : ~(i < curr) => inner[i] = None
      /\ \A i, j \in 0..curr - 1 : inner[i] = inner[j] => i = j
  BY CellFacts DEF Loop
<1>3. curr - 1 \in 0..curr - 1 /\ curr - 1 \in Cells /\ curr' \in 0..NumWakers
      /\ f \in Gone(k) /\ InCell(f)
  <2>1. curr - 1 \in 0..curr - 1 /\ curr' \in 0..NumWakers
    BY <1>1, <1>2
  <2>. QED
    BY <1>2, <2>1 DEF InCell
<1>4. dropped = {} /\ dropped' = {}
  BY <1>1 DEF Loop, Batch
<1>5. acq[f] = Silent(f) /\ f \in Futures /\ start.acq[f] \in Inner!Future
      /\ DOMAIN acq = Futures
  BY <1>3, GoneAreFutures, StartedFacts DEF Loop, Fates, Account
<1>6. start.acq[f].notified = FALSE /\ start.acq[f].waker = start.acq[f].cx
  <2>1. PICK i \in 1..k : f = start.waiters[i]
    BY <1>3 DEF Gone
  <2>2. i \in 1..Len(start.waiters)
    BY StartedFacts DEF Loop, Turns
  <2>. QED
    BY <2>1, <2>2 DEF Loop, Started
<1>7. Gone(k)' = Gone(k)
  BY <1>1 DEF Gone
<1>. HIDE DEF f
<1>8. acq'[f] = Awake(f)
  <2>1. start.acq[f].waker = acq[f].cx
    BY <1>5, <1>6 DEF Silent, Inner!Future
  <2>2. acq'[f] = [acq[f] EXCEPT !.notified = TRUE]
    BY <1>1, <1>5, <2>1
  <2>. QED
    BY <1>5, <2>2 DEF Silent, Awake, Inner!Future
<1>9. \A i \in 0..curr' - 1 : /\ i \in 0..curr - 1 /\ i # curr - 1
                              /\ inner'[i] = inner[i] /\ inner[i] # f
  <2>1. \A i \in 0..curr' - 1 : i \in 0..curr - 1 /\ i # curr - 1
    BY <1>1, <1>2
  <2>. QED
    BY <1>1, <1>2, <1>3, <2>1 DEF f
<1>10. \A i \in 0..curr - 1 : i # curr - 1 => i \in 0..curr' - 1
  BY <1>1, <1>2
<1>11. Started' /\ Turns(k, left)' /\ Suffix(k)'
  BY <1>1, StartedStays, TurnsStay DEF Loop, Suffix
<1>12. Staying(k, left)'
  <2>1. SUFFICES ASSUME NEW g \in Futures \ Gone(k)
                 PROVE  acq'[g] = IF k < Len(start.waiters) /\ g = start.waiters[k + 1]
                                  THEN [start.acq[g] EXCEPT !.remaining = @ - (left[k] - rem)]
                                  ELSE start.acq[g]
    BY <1>1, <1>7 DEF Staying
  <2>2. acq'[g] = acq[g]
    BY <1>1, <1>3, <1>5
  <2>. QED
    BY <2>2 DEF Loop, Staying
<1>13. Account(k, left)'
  <2>1. acq' = [x \in Futures |-> acq'[x]] /\ is_empty \in BOOLEAN /\ rem \in Nat
    BY <1>1 DEF Loop, Account
  <2>. QED
    BY <1>1, <2>1 DEF Loop, Account, Fed
<1>14. Batch(k)'
  <2>1. inner' \in [Cells -> Futures \cup {None}]
    BY <1>1, <1>2
  <2>2. ASSUME NEW i \in Cells
        PROVE  IF i < curr' THEN inner'[i] \in Gone(k) ELSE inner'[i] = None
    <3>1. CASE i < curr'
      <4>0. i \in Int /\ 0 <= i
        BY DEF Cells
      <4>1. i \in 0..curr' - 1
        BY <1>1, <1>2, <3>1, <4>0
      <4>. QED
        BY <1>2, <1>9, <3>1, <4>1
    <3>2. CASE i = curr - 1
      <4>1. ~(i < curr')
        BY <1>1, <1>2, <3>2
      <4>. QED
        BY <1>1, <1>2, <3>2, <4>1
    <3>3. CASE ~(i < curr') /\ i # curr - 1
      <4>1. ~(i < curr)
        BY <1>1, <1>2, <3>3 DEF Cells
      <4>. QED
        BY <1>1, <1>2, <3>3, <4>1
    <3>. QED
      BY <3>1, <3>2, <3>3
  <2>3. \A i, j \in 0..curr' - 1 : inner'[i] = inner'[j] => i = j
    BY <1>2, <1>9
  <2>4. Cells' = Cells /\ pc' # "done" /\ pc' # "panicked"
    BY <1>1 DEF Cells
  <2>. QED
    BY <1>3, <1>4, <1>7, <2>1, <2>2, <2>3, <2>4 DEF Batch
<1>15. Fates(k)'
  <2>1. SUFFICES ASSUME NEW g \in Gone(k)
                 PROVE  \/ InCell(g)' /\ g \notin dropped' /\ acq'[g] = Silent(g)
                        \/ ~InCell(g)' /\ g \in dropped' /\ acq'[g] = Silent(g)
                        \/ ~InCell(g)' /\ g \notin dropped' /\ acq'[g] = Awake(g)
    BY <1>1, <1>7 DEF Fates, Silent, Awake
  <2>2. CASE g = f
    <3>1. ~InCell(g)'
      BY <1>9, <2>2 DEF InCell
    <3>. QED
      BY <1>4, <1>8, <2>2, <3>1
  <2>3. CASE g # f
    <3>1. acq'[g] = acq[g]
      BY <1>1, <1>5, <2>3
    <3>2. InCell(g)' <=> InCell(g)
      <4>1. ASSUME InCell(g) PROVE InCell(g)'
        <5>1. PICK i \in 0..curr - 1 : inner[i] = g
          BY <4>1 DEF InCell
        <5>2. i # curr - 1
          BY <2>3, <5>1 DEF f
        <5>3. i \in 0..curr' - 1 /\ inner'[i] = g
          BY <1>9, <1>10, <5>1, <5>2
        <5>. QED
          BY <5>3 DEF InCell
      <4>2. ASSUME InCell(g)' PROVE InCell(g)
        BY <1>9, <4>2 DEF InCell
      <4>. QED
        BY <4>1, <4>2
    <3>. QED
      BY <1>4, <3>1, <3>2 DEF Loop, Fates
  <2>. QED
    BY <2>2, <2>3
<1>. QED
  BY <1>11, <1>12, <1>13, <1>14, <1>15 DEF Loop

LEMMA UnwindTurn ==
    ASSUME NEW k, NEW left, Loop(k, left), Unwind PROVE Loop(k, left)'
<1>1. /\ pc = "unwind" /\ pc' = "panicked" /\ curr' = 0
      /\ dropped' = {inner[i] : i \in 0..curr - 1}
      /\ inner' = [i \in Cells |-> IF i < curr THEN None ELSE inner[i]]
      /\ UNCHANGED <<rem, is_empty, permits, waiters, acq, start>>
  BY DEF Unwind
<1>2. /\ NumWakers \in Nat /\ curr \in 0..NumWakers
      /\ \A i \in Cells : ~(i < curr) => inner[i] = None
  BY CellFacts DEF Loop
<1>3. dropped = {} /\ Gone(k)' = Gone(k)
  BY <1>1 DEF Loop, Batch, Gone
<1>4. Started' /\ Turns(k, left)' /\ Suffix(k)' /\ Staying(k, left)'
  <2>1. Started' /\ Turns(k, left)' /\ Suffix(k)'
    BY <1>1, StartedStays, TurnsStay DEF Loop, Suffix
  <2>2. Staying(k, left)'
    BY <1>1, <1>3 DEF Loop, Staying
  <2>. QED
    BY <2>1, <2>2
<1>5. Account(k, left)'
  BY <1>1 DEF Loop, Account
<1>6. Batch(k)'
  <2>1. inner' = [i \in Cells |-> None]
    BY <1>1, <1>2
  <2>2. \A i \in Cells : ~(i < 0)
    BY <1>2 DEF Cells
  <2>3. inner' \in [Cells -> Futures \cup {None}]
    BY <2>1
  <2>4. \A i \in Cells : IF i < curr' THEN inner'[i] \in Gone(k) ELSE inner'[i] = None
    BY <1>1, <2>1, <2>2
  <2>5. \A i, j \in 0..curr' - 1 : FALSE
    BY <1>1
  <2>6. curr' \in 0..NumWakers
    BY <1>1, <1>2
  <2>7. Cells' = Cells
    BY DEF Cells
  <2>. QED
    BY <1>1, <1>3, <2>3, <2>4, <2>5, <2>6, <2>7 DEF Batch
<1>7. Fates(k)'
  <2>1. SUFFICES ASSUME NEW g \in Gone(k)
                 PROVE  \/ InCell(g)' /\ g \notin dropped' /\ acq'[g] = Silent(g)
                        \/ ~InCell(g)' /\ g \in dropped' /\ acq'[g] = Silent(g)
                        \/ ~InCell(g)' /\ g \notin dropped' /\ acq'[g] = Awake(g)
    BY <1>1, <1>3 DEF Fates, Silent, Awake
  <2>2. ~InCell(g)'
    BY <1>1 DEF InCell
  <2>3. g \in dropped' <=> InCell(g)
    BY <1>1 DEF InCell
  <2>4. \/ InCell(g) /\ acq[g] = Silent(g)
        \/ ~InCell(g) /\ acq[g] = Awake(g)
    BY <1>3 DEF Loop, Fates
  <2>5. acq'[g] = acq[g]
    BY <1>1
  <2>. QED
    BY <2>2, <2>3, <2>4, <2>5
<1>. QED
  BY <1>4, <1>5, <1>6, <1>7 DEF Loop

\* The loop somewhere between its turns.
SomeTurn ==
    \E k \in 0..Len(start.waiters) : \E left \in [0..k -> 0..start.rem] : Loop(k, left)

LEMMA WaiterFacts ==
    ASSUME NEW n \in 1..MaxNeed, NEW c \in Contexts
    PROVE  /\ Waiter(n, c) \in Inner!Future
           /\ Waiter(n, c).remaining > 0 /\ Waiter(n, c).notified = FALSE
           /\ Waiter(n, c).waker = Waiter(n, c).cx
<1>1. n \in Nat /\ n > 0
  <2>1. MaxNeed \in Nat
    BY LoopAssumption
  <2>. QED
    BY <2>1
<1>. DEFINE r == Inner!NewFuture(n)
<1>2. Inner!NoFuture \in Inner!Future /\ Inner!NoFuture.notified = FALSE
  BY DEF Inner!NoFuture, Inner!Future
<1>3. r \in Inner!Future /\ r.remaining = n /\ r.notified = FALSE
  BY <1>1, <1>2 DEF Inner!NewFuture, Inner!Future
<1>. HIDE DEF r
<1>4. Waiter(n, c) = [r EXCEPT !.queued = TRUE, !.waker = c, !.cx = c]
  BY DEF Waiter, r
<1>5. [r EXCEPT !.queued = TRUE, !.waker = c, !.cx = c] \in Inner!Future
  BY <1>3 DEF Inner!Future
<1>6. /\ Waiter(n, c).remaining = n /\ Waiter(n, c).notified = FALSE
      /\ Waiter(n, c).waker = c /\ Waiter(n, c).cx = c
  BY <1>3, <1>4 DEF Inner!Future
<1>. QED
  BY <1>1, <1>4, <1>5, <1>6

LEMMA InitIsStarted == ASSUME Init PROVE Started
<1>1. PICK q \in WaitLists :
          \E a \in [Range(q) -> {Waiter(n, c) : n \in 1..MaxNeed, c \in Contexts}] :
             start \in [rem     : 1..MaxRem,
                        permits : IF q = <<>> THEN {0, 1} ELSE {0},
                        waiters : {q},
                        acq     : {[f \in Futures |-> IF f \in Range(q) THEN a[f]
                                                     ELSE Inner!NoFuture]}]
  BY DEF Init
<1>2. PICK a : /\ a \in [Range(q) -> {Waiter(n, c) : n \in 1..MaxNeed, c \in Contexts}]
               /\ start \in [rem     : 1..MaxRem,
                             permits : IF q = <<>> THEN {0, 1} ELSE {0},
                             waiters : {q},
                             acq     : {[f \in Futures |-> IF f \in Range(q) THEN a[f]
                                                          ELSE Inner!NoFuture]}]
  BY <1>1
<1>3. /\ start.rem \in 1..MaxRem
      /\ start.permits \in IF q = <<>> THEN {0, 1} ELSE {0}
      /\ start.waiters = q
      /\ start.acq = [f \in Futures |-> IF f \in Range(q) THEN a[f] ELSE Inner!NoFuture]
  BY <1>2
<1>4. start.rem \in Nat /\ start.permits \in Nat
  <2>1. MaxRem \in Nat
    BY LoopAssumption
  <2>2. start.rem \in Nat
    BY <1>3, <2>1
  <2>3. CASE q = <<>>
    BY <1>3, <2>2, <2>3
  <2>4. CASE q # <<>>
    BY <1>3, <2>2, <2>4
  <2>. QED
    BY <2>3, <2>4
<1>5. q \in Seq(Futures) /\ \A i, j \in 1..Len(q) : q[i] = q[j] => i = j
  <2>1. PICK n \in 0..Cardinality(Futures) : q \in [1..n -> Futures]
    BY DEF WaitLists
  <2>2. n \in Nat
    OBVIOUS
  <2>3. q \in Seq(Futures) /\ Len(q) = n /\ DOMAIN q = 1..n
    BY <2>1, <2>2, SeqDef, LenProperties
  <2>4. Inner!Distinct(q)
    BY DEF WaitLists
  <2>. QED
    BY <2>3, <2>4 DEF Inner!Distinct
<1>. DEFINE Short == {r \in Inner!Future :
                        r.remaining > 0 /\ r.notified = FALSE /\ r.waker = r.cx}
<1>6. \A f \in Range(q) : a[f] \in Short
  <2>1. ASSUME NEW f \in Range(q) PROVE a[f] \in Short
    <3>1. a[f] \in {Waiter(n, c) : n \in 1..MaxNeed, c \in Contexts}
      BY <1>2
    <3>2. PICK m \in 1..MaxNeed, d \in Contexts : a[f] = Waiter(m, d)
      BY <3>1
    <3>3. /\ Waiter(m, d) \in Inner!Future
          /\ Waiter(m, d).remaining > 0 /\ Waiter(m, d).notified = FALSE
          /\ Waiter(m, d).waker = Waiter(m, d).cx
      BY WaiterFacts
    <3>. QED
      BY <3>2, <3>3
  <2>. HIDE DEF Short
  <2>. QED
    BY <2>1
<1>7. Inner!NoFuture \in Inner!Future
  BY DEF Inner!NoFuture, Inner!Future
<1>8. start.acq \in [Futures -> Inner!Future]
  BY <1>3, <1>6, <1>7
<1>9. \A i \in 1..Len(q) : q[i] \in Range(q) /\ q[i] \in Futures
  <2>1. DOMAIN q = 1..Len(q)
    BY <1>5, LenProperties
  <2>. QED
    BY <1>5, <2>1 DEF Range
<1>10. \A i \in 1..Len(q) : start.acq[q[i]] = a[q[i]]
  BY <1>3, <1>9
<1>. QED
  BY <1>3, <1>4, <1>5, <1>6, <1>8, <1>9, <1>10 DEF Started

LEMMA InitLoop == ASSUME Init PROVE SomeTurn
<1>. DEFINE left == [i \in 0..0 |-> start.rem]
<1>1. Started
  BY InitIsStarted
<1>2. /\ rem = start.rem /\ permits = start.permits /\ waiters = start.waiters
      /\ acq = start.acq /\ inner = [i \in Cells |-> None] /\ curr = 0
      /\ is_empty = FALSE /\ dropped = {} /\ pc = "serve"
  BY DEF Init
<1>3. start.rem \in Nat /\ Len(start.waiters) \in Nat /\ start.acq \in [Futures -> Inner!Future]
      /\ start.waiters \in Seq(Futures) /\ \A f \in Futures : start.acq[f] \in Inner!Future
  BY <1>1, StartedFacts DEF Started
<1>4. Gone(0) = {}
  BY DEF Gone
<1>5. 0 \in 0..Len(start.waiters) /\ left \in [0..0 -> 0..start.rem] /\ left[0] = start.rem
  BY <1>3
<1>6. Turns(0, left)
  <2>1. \A i \in 1..0 : left[i] = left[i - 1] - start.acq[start.waiters[i]].remaining
    OBVIOUS
  <2>. QED
    BY <1>5, <2>1 DEF Turns
<1>7. Suffix(0)
  BY <1>2, <1>3 DEF Suffix
<1>8. Staying(0, left)
  <2>1. left[0] - rem = 0
    BY <1>2, <1>3
  <2>2. \A f \in Futures : [start.acq[f] EXCEPT !.remaining = @ - 0] = start.acq[f]
    BY <1>3, NothingGiven
  <2>. QED
    BY <1>2, <2>1, <2>2 DEF Staying
<1>9. Account(0, left)
  BY <1>2, <1>3, <1>5 DEF Account
<1>10. Batch(0)
  <2>1. NumWakers \in Nat
    BY LoopAssumption
  <2>2. curr \in 0..NumWakers /\ \A i \in Cells : ~(i < curr)
    BY <1>2, <2>1 DEF Cells
  <2>. QED
    BY <1>2, <2>2 DEF Batch
<1>11. Fates(0)
  BY <1>4 DEF Fates
<1>12. Loop(0, left)
  BY <1>1, <1>6, <1>7, <1>8, <1>9, <1>10, <1>11 DEF Loop
<1>. QED
  BY <1>5, <1>12 DEF SomeTurn

LEMMA SomeTurnIntro ==
    ASSUME NEW k, NEW left, Loop(k, left)' PROVE SomeTurn'
  BY DEF SomeTurn, Loop, Turns

LEMMA StepLoop == ASSUME SomeTurn, [Next]_vars PROVE SomeTurn'
<1>1. PICK k \in 0..Len(start.waiters) : \E left \in [0..k -> 0..start.rem] : Loop(k, left)
  BY DEF SomeTurn
<1>2. PICK left \in [0..k -> 0..start.rem] : Loop(k, left)
  BY <1>1
<1>3. CASE Serve
  <2>1. \E l : Loop(k + 1, l)'
    BY <1>2, <1>3, ServeTurn
  <2>. QED
    BY <2>1, SomeTurnIntro
<1>4. CASE Feed \/ Empty \/ Full \/ Settle \/ Panic \/ Wake \/ Turn \/ Unwind
  <2>1. Loop(k, left)'
    BY <1>2, <1>4, FeedTurn, EmptyTurn, FullTurn, SettleTurn, PanicTurn, WakeTurn, TurnTurn,
       UnwindTurn
  <2>. QED
    BY <2>1, SomeTurnIntro
<1>5. CASE UNCHANGED vars
  <2>1. UNCHANGED <<pc, rem, is_empty, inner, curr, permits, waiters, acq, start, dropped>>
    BY <1>5 DEF vars
  <2>2. Started' /\ Turns(k, left)' /\ Suffix(k)' /\ Staying(k, left)'
    BY <1>2, <2>1, StartedStays, TurnsStay DEF Loop, Suffix, Staying, Gone
  <2>3. Account(k, left)' /\ Batch(k)' /\ Fates(k)'
    <3>1. Account(k, left)'
      BY <1>2, <2>1 DEF Loop, Account, Fed
    <3>2. Batch(k)'
      BY <1>2, <2>1 DEF Loop, Batch, Gone, Cells
    <3>3. Fates(k)'
      BY <1>2, <2>1 DEF Loop, Fates, Gone, InCell, Silent, Awake
    <3>. QED
      BY <3>1, <3>2, <3>3
  <2>4. Loop(k, left)'
    BY <2>2, <2>3 DEF Loop
  <2>. QED
    BY <2>4, SomeTurnIntro
<1>. QED
  BY <1>3, <1>4, <1>5 DEF Next

LEMMA AlwaysSomeTurn == Spec => []SomeTurn
<1>1. Init => SomeTurn
  BY InitLoop
<1>2. SomeTurn /\ [Next]_vars => SomeTurn'
  BY StepLoop
<1>. QED
  BY <1>1, <1>2, PTL DEF Spec
-----------------------------------------------------------------------------
\* A waker has been pushed, and is in the list, woken, or dropped.
LEMMA UsedOnce ==
    ASSUME NEW k, NEW left, Loop(k, left), NEW f \in Gone(k) PROVE Uses(f) = 1
<1>. DEFINE S == {i \in Cells : inner[i] = f}
<1>1. /\ NumWakers \in Nat /\ curr \in 0..NumWakers
      /\ \A i \in 0..curr - 1 : i \in Cells /\ i < curr /\ inner[i] \in Gone(k)
      /\ \A i \in Cells : ~(i < curr) => inner[i] = None
      /\ \A i, j \in 0..curr - 1 : inner[i] = inner[j] => i = j
  BY CellFacts DEF Loop
<1>2. f \in Futures /\ f # None
  BY GoneAreFutures, LoopAssumption DEF Loop
<1>3. \A i \in S : i \in 0..curr - 1
  BY <1>1, <1>2 DEF Cells
<1>4. start.acq[f].notified = FALSE /\ start.acq[f] \in Inner!Future
  <2>1. PICK i \in 1..k : f = start.waiters[i]
    BY DEF Gone
  <2>2. i \in 1..Len(start.waiters)
    BY StartedFacts DEF Loop, Turns
  <2>. QED
    BY <1>2, <2>1, <2>2, StartedFacts DEF Loop, Started
<1>5. CASE InCell(f)
  <2>1. f \notin dropped /\ acq[f] = Silent(f)
    BY <1>5 DEF Loop, Fates
  <2>2. acq[f].notified = FALSE
    BY <1>4, <2>1 DEF Silent, Inner!Future
  <2>3. PICK i \in 0..curr - 1 : inner[i] = f
    BY <1>5 DEF InCell
  <2>4. S = {i}
    BY <1>1, <1>3, <2>3
  <2>5. Cardinality(S) = 1
    BY <2>4, FS_Singleton
  <2>. QED
    BY <2>1, <2>2, <2>5 DEF Uses
<1>6. CASE ~InCell(f)
  <2>1. S = {}
    BY <1>3, <1>6 DEF InCell
  <2>2. Cardinality(S) = 0
    BY <2>1, FS_EmptySet
  <2>3. CASE f \in dropped
    <3>1. acq[f] = Silent(f)
      BY <1>6, <2>3 DEF Loop, Fates
    <3>2. acq[f].notified = FALSE
      BY <1>4, <3>1 DEF Silent, Inner!Future
    <3>. QED
      BY <2>2, <2>3, <3>2 DEF Uses
  <2>4. CASE f \notin dropped
    <3>1. acq[f] = Awake(f)
      BY <1>6, <2>4 DEF Loop, Fates
    <3>2. acq[f].notified = TRUE
      BY <1>4, <3>1 DEF Awake, Inner!Future
    <3>. QED
      BY <2>2, <2>4, <3>2 DEF Uses
  <2>. QED
    BY <2>3, <2>4
<1>. QED
  BY <1>5, <1>6

\* The waiters that have been popped are those that the turns have served.
LEMMA PoppedAreGone ==
    ASSUME NEW k, NEW left, Loop(k, left) PROVE Popped \subseteq Gone(k)
<1>. DEFINE n == Len(start.waiters)
<1>1. n \in Nat /\ k \in 0..n
  BY StartedFacts DEF Loop, Turns
<1>2. /\ start.waiters \in Seq(Futures) /\ waiters \in Seq(Futures)
      /\ Len(waiters) = n - k
      /\ \A i \in 1..Len(waiters) : waiters[i] = start.waiters[k + i]
  BY DEF Loop, Started, Suffix
<1>3. DOMAIN start.waiters = 1..n /\ DOMAIN waiters = 1..n - k
  <2>1. \A s \in Seq(Futures) : DOMAIN s = 1..Len(s)
    BY LenProperties
  <2>. QED
    BY <1>2, <2>1
<1>. HIDE DEF n
<1>4. SUFFICES ASSUME NEW f \in Popped PROVE f \in Gone(k)
  OBVIOUS
<1>5. PICK i \in 1..n : f = start.waiters[i]
  BY <1>3 DEF Popped, Range
<1>6. CASE i <= k
  <2>1. i \in 1..k
    BY <1>1, <1>6
  <2>. QED
    BY <1>5, <2>1 DEF Gone
<1>7. CASE i > k
  <2>1. i - k \in 1..n - k /\ k + (i - k) = i
    BY <1>1, <1>7
  <2>2. waiters[i - k] = f
    BY <1>2, <1>5, <2>1
  <2>3. f \in Range(waiters)
    BY <1>3, <2>1, <2>2 DEF Range
  <2>. QED
    BY <2>3 DEF Popped
<1>. QED
  BY <1>1, <1>6, <1>7

LEMMA SomeTurnIsOrderly == ASSUME SomeTurn PROVE WakersUsedOnce
<1>1. PICK k \in 0..Len(start.waiters) : \E left \in [0..k -> 0..start.rem] : Loop(k, left)
  BY DEF SomeTurn
<1>2. PICK left \in [0..k -> 0..start.rem] : Loop(k, left)
  BY <1>1
<1>3. /\ NumWakers \in Nat /\ curr \in 0..NumWakers
      /\ \A i \in Cells : IF i < curr THEN inner[i] \in Gone(k) ELSE inner[i] = None
  BY <1>2, CellFacts DEF Loop, Batch
<1>4. None \notin Gone(k)
  BY <1>2, GoneAreFutures, LoopAssumption DEF Loop
<1>5. curr <= NumWakers /\ \A i \in Cells : inner[i] # None <=> i < curr
  BY <1>3, <1>4
<1>6. \A f \in Popped : Uses(f) = 1
  BY <1>2, UsedOnce, PoppedAreGone
<1>. QED
  BY <1>5, <1>6 DEF WakersUsedOnce

\* Every waker that is taken from a waiter is used once, whatever the size of the
\* list and the number of waiters, and even if a waker panics: Inner::add_permits
\* and WakeList.
THEOREM WakersAreUsedOnce == Spec => []WakersUsedOnce
<1>1. SomeTurn => WakersUsedOnce
  BY SomeTurnIsOrderly
<1>. QED
  BY <1>1, AlwaysSomeTurn, PTL
-----------------------------------------------------------------------------
\* The call that returns has done what the single step does.
LEMMA DoneIsAdded ==
    ASSUME NEW k, NEW left, Loop(k, left)', pc' = "done", pc # "done", start' = start
    PROVE  Inner!AddPermits(start.rem, start.permits, start.waiters, start.acq)
<1>. DEFINE n == Len(start.waiters)
            q == start.waiters
            a == start.acq
<1>1. /\ Started /\ n \in Nat /\ k \in 0..n /\ k \in Nat
      /\ left \in [0..k -> 0..start.rem] /\ left[0] = start.rem
      /\ \A i \in 1..k : left[i] = left[i - 1] - a[q[i]].remaining
  <2>1. Started
    BY DEF Loop, Started
  <2>2. n \in Nat
    BY <2>1, StartedFacts
  <2>. QED
    BY <2>1, <2>2 DEF Loop, Turns
<1>2. left[k] \in Nat
  BY <1>1
<1>3. /\ q \in Seq(Futures) /\ waiters' \in Seq(Futures) /\ Len(waiters') = n - k
      /\ \A i \in 1..Len(waiters') : waiters'[i] = q[k + i]
      /\ \A i \in 1..n : a[q[i]].remaining > 0 /\ a[q[i]].notified = FALSE
                         /\ a[q[i]].waker = a[q[i]].cx /\ q[i] \in Futures
      /\ \A f \in Futures : a[f] \in Inner!Future
  BY <1>1, StartedFacts DEF Loop, Suffix, Started
<1>4. /\ rem' = 0 /\ curr' = 0 /\ dropped' = {}
      /\ ~is_empty' => permits' = start.permits /\ (left[k] = 0 \/ Fed(k, left)')
      /\ is_empty' => k = n /\ left[k] <= MaxPermits /\ permits' = start.permits + left[k]
      /\ acq' = [f \in Futures |-> acq'[f]]
  BY DEF Loop, Account, Batch
<1>5. Inner!Served(q, k) = Gone(k)' /\ Gone(k)' \subseteq Futures
  <2>1. \A i \in 1..k : i \in 1..n
    BY <1>1
  <2>. QED
    BY <1>3, <2>1 DEF Inner!Served, Gone
<1>6. IF k = n
      THEN left[k] <= MaxPermits /\ permits' = start.permits + left[k]
      ELSE left[k] < a[q[k + 1]].remaining /\ permits' = start.permits
  <2>0. start.permits \in Nat /\ MaxPermits \in Nat
    BY <1>1, LoopAssumption DEF Started
  <2>1. CASE is_empty'
    BY <1>4, <2>1
  <2>2. CASE ~is_empty' /\ left[k] = 0
    <3>1. k # n => k + 1 \in 1..n
      BY <1>1
    <3>2. left[k] <= MaxPermits /\ permits' = start.permits + left[k] /\ permits' = start.permits
      BY <1>4, <2>0, <2>2
    <3>3. k # n => left[k] < a[q[k + 1]].remaining
      BY <1>3, <2>2, <3>1
    <3>. QED
      BY <3>2, <3>3
  <2>3. CASE ~is_empty' /\ Fed(k, left)'
    <3>1. k < n /\ left[k] < a[q[k + 1]].remaining
      BY <2>3 DEF Fed
    <3>. QED
      BY <1>1, <1>4, <2>3, <3>1
  <2>. QED
    BY <1>4, <2>1, <2>2, <2>3
<1>7. waiters' = SubSeq(q, k + 1, n)
  <2>1. /\ SubSeq(q, k + 1, n) \in Seq(Futures) /\ Len(SubSeq(q, k + 1, n)) = n - k
        /\ \A i \in 1..n - k : SubSeq(q, k + 1, n)[i] = q[k + i]
    <3>. HIDE DEF q
    <3>1. Len(q) = n
      BY DEF q
    <3>. HIDE DEF n
    <3>2. \A i \in k + 1..n : q[i] \in Futures
      BY <1>1, <1>3
    <3>3. Len(SubSeq(q, k + 1, n)) = n - k
          /\ \A i \in 1..n - k : SubSeq(q, k + 1, n)[i] = q[k + i]
      BY <1>1, <1>3, <3>1
    <3>4. SubSeq(q, k + 1, n) \in Seq(Futures)
      BY <1>1, <1>3, <3>1, <3>2
    <3>. QED
      BY <3>3, <3>4
  <2>. HIDE DEF q, n
  <2>. QED
    BY <1>3, <2>1, SeqEqual
<1>8. acq' = [f \in Futures |->
                IF f \in Inner!Served(q, k)
                THEN Inner!Woken([a[f] EXCEPT !.remaining = 0])
                ELSE IF k < n /\ f = q[k + 1]
                THEN [a[f] EXCEPT !.remaining = @ - left[k]]
                ELSE a[f]]
  <2>1. ASSUME NEW f \in Futures
        PROVE  acq'[f] = IF f \in Inner!Served(q, k)
                         THEN Inner!Woken([a[f] EXCEPT !.remaining = 0])
                         ELSE IF k < n /\ f = q[k + 1]
                         THEN [a[f] EXCEPT !.remaining = @ - left[k]]
                         ELSE a[f]
    <3>1. CASE f \in Gone(k)'
      <4>1. ~InCell(f)' /\ f \notin dropped'
        BY <1>4 DEF InCell
      <4>5. \/ InCell(f)' /\ f \notin dropped' /\ acq'[f] = Silent(f)'
            \/ ~InCell(f)' /\ f \in dropped' /\ acq'[f] = Silent(f)'
            \/ ~InCell(f)' /\ f \notin dropped' /\ acq'[f] = Awake(f)'
        BY <3>1 DEF Loop, Fates
      <4>2. acq'[f] = Awake(f)'
        BY <4>1, <4>5
      <4>3. a[f].notified = FALSE /\ a[f].waker = a[f].cx
        <5>1. PICK i \in 1..k : f = q[i]
          BY <3>1 DEF Gone
        <5>2. i \in 1..n
          BY <1>1
        <5>. QED
          BY <1>3, <5>1, <5>2
      <4>4. Inner!Woken([a[f] EXCEPT !.remaining = 0])
              = [a[f] EXCEPT !.remaining = 0, !.waker = None, !.notified = TRUE]
        BY <1>3, <4>3 DEF Inner!Woken, Inner!Future
      <4>. QED
        BY <1>5, <3>1, <4>2, <4>4 DEF Awake
    <3>2. CASE f \notin Gone(k)'
      <4>1. left[k] - rem' = left[k]
        BY <1>2, <1>4
      <4>2. acq'[f] = IF k < n /\ f = q[k + 1]
                      THEN [a[f] EXCEPT !.remaining = @ - (left[k] - rem')]
                      ELSE a[f]
        BY <3>2 DEF Loop, Staying
      <4>. QED
        BY <1>5, <3>2, <4>1, <4>2
    <3>. QED
      BY <3>1, <3>2
  <2>. QED
    BY <1>4, <2>1
<1>. QED
  BY <1>1, <1>6, <1>7, <1>8 DEF Inner!AddPermits

LEMMA StepIsOneStep ==
    ASSUME SomeTurn, SomeTurn', [Next]_vars
    PROVE  [Inner!AddPermits(start.rem, start.permits, start.waiters, start.acq)]_<<Inner!vars>>
<1>1. start' = start /\ (pc = "done" => UNCHANGED vars)
  BY DEF Next, vars, Serve, Push, Feed, Empty, Full, Settle, Panic, Wake, Turn, Unwind
<1>2. CASE pc = "done"
  <2>1. UNCHANGED Inner!vars
    BY <1>1, <1>2 DEF vars, Inner!vars
  <2>. QED
    BY <2>1
<1>3. CASE pc # "done" /\ pc' # "done"
  <2>1. UNCHANGED Inner!vars
    BY <1>1, <1>3 DEF Inner!vars
  <2>. QED
    BY <2>1
<1>4. CASE pc # "done" /\ pc' = "done"
  <2>1. PICK k \in 0..Len(start'.waiters) :
            \E left \in [0..k -> 0..start'.rem] : Loop(k, left)'
    BY DEF SomeTurn
  <2>2. PICK left \in [0..k -> 0..start'.rem] : Loop(k, left)'
    BY <2>1
  <2>. QED
    BY <1>1, <1>4, <2>2, DoneIsAdded
<1>. QED
  BY <1>2, <1>3, <1>4

\* The batches cannot be told from outside: a call of Inner::add_permits that
\* returns has done what the single step of SemaphoreInner does, whatever the size
\* of the list of wakers.
THEOREM ImplementsOneStep == Spec => OneStep
<1>1. SomeTurn /\ SomeTurn' /\ [Next]_vars =>
        [Inner!AddPermits(start.rem, start.permits, start.waiters, start.acq)]_<<Inner!vars>>
  BY StepIsOneStep
<1>. QED
  BY <1>1, AlwaysSomeTurn, PTL DEF Spec, OneStep
-----------------------------------------------------------------------------
(***************************************************************************)
(* The other thing that SemaphoreInner takes as one: the word of permits,  *)
(* which it has as a number and a flag.  PermitWord is the system here,    *)
(* and has constants and variables of its own.                             *)
(***************************************************************************)
\* Of SemaphoreInnerProofs, how units are counted.
P == INSTANCE SemaphoreInnerProofs WITH
    Futures <- Slots, Contexts <- {}, None <- 0, Amounts <- {},
    InitialPermits <- 0, MaxPermits <- 0, MaxBalance <- 0,
    permits <- 0, closed <- FALSE, waiters <- <<>>, acq <- <<>>, balance <- 0

\* A request that is shifted fits the word, and so do all the permits there are,
\* with the flag.
Fits ==
    /\ 2 * RequestSize <= WordSize
    /\ 2 * MaxSupply + 1 < WordSize

SlotType ==
    {r \in [phase : {"free", "waiting", "held"}, num : Nat, state : Nat] :
        /\ r.state <= r.num
        /\ r.phase = "free" => r.num = 0
        /\ r.phase = "held" => r.state = 0}

\* What the slots have of the permits.
Share(s) == [g \in Slots |-> s[g].num - s[g].state]
Taken(s) == P!Count(Slots, Share(s))

Flag == IF closed THEN 1 ELSE 0

WordInv ==
    /\ closed \in BOOLEAN
    /\ supply \in Nat
    /\ 2 * supply + 1 < WordSize
    /\ slot \in [Slots -> SlotType]
    /\ word \in Nat
    /\ word = 2 * (supply - Taken(slot)) + Flag

LEMMA SlotsFinite == ASSUME Fits PROVE P!IsFiniteSet(Slots) /\ P!SemaphoreAssumption
<1>1. P!IsFiniteSet(Slots)
  BY WordAssumption DEF IsFiniteSet, P!IsFiniteSet
<1>. QED
  BY <1>1 DEF P!SemaphoreAssumption

LEMMA FitsNumbers ==
    ASSUME Fits
    PROVE  /\ WordSize \in Nat /\ WordSize > 8 /\ MaxSupply \in Nat
           /\ RequestSize \in Nat /\ RequestSize > 0
           /\ 2 * RequestSize <= WordSize /\ 2 * MaxSupply + 1 < WordSize
  BY WordAssumption DEF Fits

LEMMA ShareType ==
    ASSUME NEW s \in [Slots -> SlotType], Fits
    PROVE  Share(s) \in [Slots -> Nat] /\ Taken(s) \in Nat
<1>1. \A g \in Slots : s[g].num - s[g].state \in Nat
  <2>. TAKE g \in Slots
  <2>1. s[g] \in SlotType
    OBVIOUS
  <2>. QED
    BY <2>1 DEF SlotType
<1>2. Share(s) \in [Slots -> Nat]
  BY <1>1 DEF Share
<1>. QED
  BY <1>2, SlotsFinite, P!UnitsFinite DEF Taken

\* One slot changes, and the permits that are taken by its share more or less.
LEMMA TakenChange ==
    ASSUME NEW s \in [Slots -> SlotType], NEW g \in Slots, NEW r \in SlotType, Fits
    PROVE  /\ [s EXCEPT ![g] = r] \in [Slots -> SlotType]
           /\ Taken([s EXCEPT ![g] = r])
                = Taken(s) - (s[g].num - s[g].state) + (r.num - r.state)
<1>. DEFINE t == [s EXCEPT ![g] = r]
<1>1. t \in [Slots -> SlotType] /\ t[g] = r /\ \A h \in Slots : h # g => t[h] = s[h]
  OBVIOUS
<1>. HIDE DEF t
<1>2. Share(s) \in [Slots -> Nat] /\ Share(t) \in [Slots -> Nat]
  BY <1>1, ShareType
<1>3. \A h \in Slots : h # g => Share(t)[h] = Share(s)[h]
  BY <1>1 DEF Share
<1>4. P!ChangedBy(Slots, Share(s), Share(t), g)
  BY <1>2, <1>3, SlotsFinite, P!UnitsChange
<1>5. Taken(t) = Taken(s) - Share(s)[g] + Share(t)[g]
  BY <1>4 DEF Taken, P!ChangedBy
<1>6. Share(s)[g] = s[g].num - s[g].state /\ Share(t)[g] = r.num - r.state
  BY <1>1 DEF Share
<1>. QED
  BY <1>1, <1>5, <1>6 DEF t

LEMMA SlotChange ==
    ASSUME NEW g \in Slots, NEW r \in SlotType, Fits, slot \in [Slots -> SlotType],
           slot' = [slot EXCEPT ![g] = r]
    PROVE  /\ slot' \in [Slots -> SlotType]
           /\ Taken(slot') = Taken(slot) - (slot[g].num - slot[g].state) + (r.num - r.state)
  BY TakenChange

\* A share is part of what is taken.
LEMMA ShareIsTaken ==
    ASSUME NEW s \in [Slots -> SlotType], NEW g \in Slots, Fits
    PROVE  s[g].num - s[g].state <= Taken(s)
<1>. DEFINE r == [phase |-> "free", num |-> 0, state |-> 0]
            n == s[g].num - s[g].state
            t == [s EXCEPT ![g] = r]
<1>1. r \in SlotType /\ r.num - r.state = 0
  BY DEF SlotType
<1>2. n \in Nat
  <2>1. s[g] \in SlotType
    OBVIOUS
  <2>. QED
    BY <2>1 DEF SlotType
<1>. HIDE DEF n, r
<1>3. t \in [Slots -> SlotType] /\ Taken(t) = Taken(s) - n + 0
  BY <1>1, TakenChange DEF n
<1>. HIDE DEF t
<1>4. Taken(t) \in Nat /\ Taken(s) \in Nat
  BY <1>3, ShareType
<1>5. n <= Taken(s)
  BY <1>2, <1>3, <1>4
<1>. QED
  BY <1>5 DEF n

\* A number below the size of the word is not changed by it.
LEMMA NoWrap == ASSUME NEW x \in Nat, NEW m \in Nat, x < m PROVE x % m = x
  OBVIOUS

\* What is shifted, and what is compared.
LEMMA Shifted ==
    ASSUME NEW n \in Nat, Fits, 2 * n < WordSize PROVE Shl(n) = 2 * n
<1>1. n * 2 \in Nat /\ WordSize \in Nat /\ n * 2 < WordSize /\ n * 2 = 2 * n
  BY FitsNumbers
<1>2. (n * 2) % WordSize = n * 2
  BY <1>1, NoWrap
<1>. QED
  BY <1>1, <1>2 DEF Shl

LEMMA RequestFits == ASSUME NEW n \in Requests, Fits PROVE n \in Nat /\ Shl(n) = 2 * n
<1>1. n \in Nat /\ 2 * n < WordSize
  BY FitsNumbers DEF Requests
<1>. QED
  BY <1>1, Shifted

\* The count and the flag of a word.
LEMMA WordParts ==
    ASSUME WordInv, Fits
    PROVE  /\ Taken(slot) \in Nat /\ supply - Taken(slot) \in Nat
           /\ Count = supply - Taken(slot)
           /\ CLOSED <=> closed
<1>1. Taken(slot) \in Nat
  BY ShareType DEF WordInv
<1>. DEFINE c == supply - Taken(slot)
<1>2. c \in Int /\ word \in Nat /\ word = 2 * c + Flag /\ closed \in BOOLEAN
  BY <1>1 DEF WordInv
<1>. HIDE DEF c
<1>3. CASE closed
  <2>1. word = 2 * c + 1
    BY <1>2, <1>3 DEF Flag
  <2>2. c \in Nat /\ word \div 2 = c /\ word % 2 = 1
    BY <1>2, <2>1
  <2>. QED
    BY <1>1, <1>3, <2>2 DEF c, Count, CLOSED
<1>4. CASE ~closed
  <2>1. word = 2 * c
    BY <1>2, <1>4 DEF Flag
  <2>2. c \in Nat /\ word \div 2 = c /\ word % 2 = 0
    BY <1>2, <2>1
  <2>. QED
    BY <1>1, <1>4, <2>2 DEF c, Count, CLOSED
<1>. QED
  BY <1>2, <1>3, <1>4

\* add_permits: what it is given goes to the waiter or to the word.
LEMMA GiveAdds ==
    ASSUME Fits, NEW added \in Nat, NEW c \in Nat, NEW b \in {0, 1}, NEW avail, avail = 2 * c + b,
           2 * (c + added) + 1 < WordSize,
           NEW s \in [Slots -> SlotType], Give(added, avail, s)
    PROVE  /\ slot' \in [Slots -> SlotType]
           /\ word' \in Nat
           /\ word' = 2 * (c + added + Taken(s) - Taken(slot')) + b
<1>0. Taken(s) \in Nat
  BY ShareType
<1>1. ASSUME NEW n \in Nat, n <= added, word' = (avail + Shl(n)) % WordSize
      PROVE  word' = 2 * (c + n) + b /\ word' \in Nat
  <2>1. 2 * n < WordSize /\ WordSize \in Nat
    BY <1>1, FitsNumbers
  <2>2. Shl(n) = 2 * n
    BY <2>1, Shifted
  <2>3. avail + Shl(n) = 2 * (c + n) + b
    BY <2>2
  <2>. DEFINE x == 2 * (c + n) + b
  <2>4. x \in Nat /\ x < WordSize
    BY <1>1, <2>1
  <2>. HIDE DEF x
  <2>5. x % WordSize = x
    BY <2>1, <2>4, NoWrap
  <2>6. word' = x
    BY <1>1, <2>3, <2>5 DEF x
  <2>. QED
    BY <2>4, <2>6 DEF x
<1>2. CASE word' = (avail + Shl(added)) % WordSize /\ slot' = s
  <2>1. word' = 2 * (c + added) + b /\ word' \in Nat
    BY <1>1, <1>2
  <2>. QED
    BY <1>0, <1>2, <2>1
<1>3. CASE \E g \in Slots :
              LET assign == IF added < s[g].state THEN added ELSE s[g].state
              IN  /\ s[g].phase = "waiting"
                  /\ word' = (avail + Shl(added - assign)) % WordSize
                  /\ slot' = [s EXCEPT ![g].state = @ - assign]
  <2>1. PICK g \in Slots :
              LET assign == IF added < s[g].state THEN added ELSE s[g].state
              IN  /\ s[g].phase = "waiting"
                  /\ word' = (avail + Shl(added - assign)) % WordSize
                  /\ slot' = [s EXCEPT ![g].state = @ - assign]
    BY <1>3
  <2>. DEFINE assign == IF added < s[g].state THEN added ELSE s[g].state
              r == [s[g] EXCEPT !.state = @ - assign]
  <2>2. s[g] \in SlotType
    OBVIOUS
  <2>3. s[g].state \in Nat /\ s[g].num \in Nat /\ s[g].state <= s[g].num
    BY <2>2 DEF SlotType
  <2>4. assign \in Nat /\ assign <= added /\ assign <= s[g].state
    BY <2>3
  <2>5. /\ s[g].phase = "waiting" /\ word' = (avail + Shl(added - assign)) % WordSize
        /\ slot' = [s EXCEPT ![g] = r]
    BY <2>1
  <2>. HIDE DEF assign
  <2>6. r.num = s[g].num /\ r.state = s[g].state - assign /\ r.phase = "waiting"
        /\ r \in [phase : {"free", "waiting", "held"}, num : Nat, state : Nat]
    BY <2>2, <2>3, <2>4, <2>5 DEF SlotType
  <2>7. r \in SlotType
    BY <2>3, <2>4, <2>6 DEF SlotType
  <2>. HIDE DEF r
  <2>8. slot' \in [Slots -> SlotType]
        /\ Taken(slot') = Taken(s) - (s[g].num - s[g].state) + (r.num - r.state)
    BY <2>5, <2>7, TakenChange
  <2>9. Taken(slot') = Taken(s) + assign
    <3>. DEFINE n == s[g].num
                m == s[g].state
    <3>1. Taken(slot') = Taken(s) - (n - m) + (n - (m - assign))
      BY <2>6, <2>8
    <3>2. n \in Nat /\ m \in Nat
      BY <2>3
    <3>. HIDE DEF n, m
    <3>. QED
      BY <1>0, <2>4, <3>1, <3>2
  <2>10. added - assign \in Nat /\ added - assign <= added
    BY <2>4
  <2>11. word' = 2 * (c + (added - assign)) + b /\ word' \in Nat
    BY <1>1, <2>5, <2>10
  <2>. DEFINE ts == Taken(s)
              tn == Taken(slot')
  <2>. HIDE DEF ts, tn
  <2>12. word' = 2 * (c + added + ts - tn) + b
    <3>1. ts \in Nat /\ tn = ts + assign
      BY <1>0, <2>9 DEF ts, tn
    <3>. QED
      BY <2>4, <2>11, <3>1
  <2>. QED
    BY <2>8, <2>11, <2>12 DEF ts, tn
<1>. QED
  BY <1>2, <1>3 DEF Give

\* A release of n permits that a slot or a caller had.
LEMMA Released ==
    ASSUME Fits, WordInv, NEW n \in Nat, NEW s \in [Slots -> SlotType], Give(n, word, s),
           Taken(s) + n = Taken(slot) + (supply' - supply),
           supply' \in Nat, 2 * supply' + 1 < WordSize, closed' = closed
    PROVE  WordInv'
<1>. DEFINE t == Taken(slot)
            c == supply - t
            ts == Taken(s)
            tn == Taken(slot')
<1>1. t \in Nat /\ c \in Nat /\ ts \in Nat /\ supply \in Nat
  BY WordParts, ShareType DEF WordInv
<1>2. word = 2 * c + Flag /\ Flag \in {0, 1} /\ ts + n = t + (supply' - supply)
  BY DEF WordInv, Flag
<1>. DEFINE u == supply'
            w == WordSize
<1>3. w \in Nat /\ u \in Nat /\ 2 * u + 1 < w /\ ts + n = t + (u - supply) /\ c = supply - t
  BY <1>2, FitsNumbers
<1>. HIDE DEF t, c, ts, tn, u, w
<1>4. c + n <= u
  BY <1>1, <1>3
<1>11. 2 * (c + n) + 1 < w
  BY <1>1, <1>3, <1>4
<1>5. slot' \in [Slots -> SlotType] /\ word' \in Nat /\ word' = 2 * (c + n + ts - tn) + Flag
  BY <1>1, <1>2, <1>11, GiveAdds DEF ts, tn, w
<1>6. tn \in Nat
  BY <1>5, ShareType DEF tn
<1>7. c + n + ts - tn = u - tn
  BY <1>1, <1>3, <1>6
<1>8. word' = 2 * (supply' - tn) + Flag
  BY <1>5, <1>7 DEF u
<1>9. Flag' = Flag
  BY DEF Flag
<1>10. Taken(slot)' = tn
  BY DEF tn, Taken, Share
<1>. QED
  BY <1>5, <1>8, <1>9, <1>10 DEF WordInv

LEMMA InitWord == ASSUME Fits, WordInit PROVE WordInv
<1>1. PICK n \in 0..WordSize - 1 : supply = n % (MAX_PERMITS + 1)
  BY DEF WordInit
<1>2. word = Shl(supply) /\ slot = [g \in Slots |-> Free] /\ closed = FALSE
  BY DEF WordInit
<1>. DEFINE m == MAX_PERMITS
<1>3. WordSize \in Nat /\ WordSize > 8 /\ m \in Nat /\ 8 * m <= WordSize - 1
  BY FitsNumbers DEF MAX_PERMITS
<1>4. supply \in Nat /\ supply <= m
  <2>. HIDE DEF m
  <2>1. n \in Nat /\ m + 1 \in Nat /\ m + 1 > 0
    BY <1>3
  <2>2. n % (m + 1) \in 0..(m + 1) - 1
    BY <2>1
  <2>. QED
    BY <1>1, <1>3, <2>2 DEF m
<1>. HIDE DEF m
<1>5. 2 * supply + 1 < WordSize
  BY <1>3, <1>4
<1>6. word = 2 * supply /\ word \in Nat
  <2>1. 2 * supply < WordSize
    BY <1>3, <1>4, <1>5
  <2>. QED
    BY <1>2, <1>4, <2>1, Shifted
<1>7. slot \in [Slots -> SlotType] /\ \A g \in Slots : slot[g].num - slot[g].state = 0
  BY <1>2 DEF Free, SlotType
<1>8. Taken(slot) = 0
  <2>1. P!Units(Slots, Share(slot)) = {}
    BY <1>7 DEF P!Units, Share
  <2>2. P!Cardinality({}) = 0
    <3>1. P!Cardinality({}) = Cardinality({})
      BY DEF P!Cardinality, Cardinality
    <3>. QED
      BY <3>1, FS_EmptySet
  <2>. QED
    BY <2>1, <2>2 DEF Taken, P!Count
<1>9. Flag = 0
  BY <1>2 DEF Flag
<1>10. word = 2 * (supply - Taken(slot)) + Flag
  BY <1>4, <1>6, <1>8, <1>9
<1>. QED
  BY <1>2, <1>4, <1>5, <1>6, <1>7, <1>10 DEF WordInv

\* A slot takes n permits from the word, at once.
LEMMA Taking ==
    ASSUME Fits, WordInv, NEW g \in Slots, NEW n \in Requests,
           slot[g] = Free, word >= Shl(n), word' = word - Shl(n),
           slot' = [slot EXCEPT ![g] = Guard(n)], UNCHANGED <<supply, closed>>
    PROVE  WordInv'
<1>1. n \in Nat /\ Shl(n) = 2 * n
  BY RequestFits
<1>2. slot \in [Slots -> SlotType] /\ word \in Nat /\ word = 2 * (supply - Taken(slot)) + Flag
      /\ supply \in Nat /\ Flag \in {0, 1} /\ Taken(slot) \in Nat
  BY WordParts DEF WordInv, Flag
<1>3. Guard(n) \in SlotType /\ Guard(n).num = n /\ Guard(n).state = 0
  BY <1>1 DEF Guard, SlotType
<1>4. slot[g].num = 0 /\ slot[g].state = 0
  BY DEF Free
<1>9. 0 = slot[g].num - slot[g].state /\ n = Guard(n).num - Guard(n).state
  BY <1>1, <1>3, <1>4
<1>5. slot' \in [Slots -> SlotType] /\ Taken(slot') = Taken(slot) - 0 + n
  <2>. DEFINE r == Guard(n)
  <2>1. r \in SlotType /\ slot' = [slot EXCEPT ![g] = r] /\ n = r.num - r.state
    BY <1>3, <1>9
  <2>. HIDE DEF r
  <2>2. /\ slot' \in [Slots -> SlotType]
        /\ Taken(slot') = Taken(slot) - (slot[g].num - slot[g].state) + (r.num - r.state)
    BY <1>2, <2>1, SlotChange
  <2>. QED
    BY <1>9, <2>1, <2>2
<1>. DEFINE t == Taken(slot)
            u == Taken(slot')
<1>6. Taken(slot)' = u
  BY DEF Taken, Share
<1>7. word' = 2 * (supply - u) + Flag /\ word' \in Nat
  <2>1. t \in Nat /\ u = t + n /\ word = 2 * (supply - t) + Flag
    BY <1>1, <1>2, <1>5
  <2>. HIDE DEF t, u
  <2>. QED
    BY <1>1, <1>2, <2>1
<1>8. Flag' = Flag
  BY DEF Flag
<1>. QED
  BY <1>5, <1>6, <1>7, <1>8 DEF WordInv

\* A first poll that finds less takes it all.
LEMMA TakingAll ==
    ASSUME Fits, WordInv, NEW g \in Slots, NEW n \in Requests, PollShort(g, n)
    PROVE  WordInv'
<1>1. n \in Nat /\ Shl(n) = 2 * n
  BY RequestFits
<1>2. /\ slot[g] = Free /\ ~CLOSED /\ word < Shl(n) /\ word' = 0
      /\ slot' = [slot EXCEPT ![g] = [phase |-> "waiting", num |-> n, state |-> n - Count]]
      /\ UNCHANGED <<supply, closed>>
  BY DEF PollShort
<1>. DEFINE c == Count
            r == [phase |-> "waiting", num |-> n, state |-> n - c]
            t == Taken(slot)
            u == Taken(slot')
<1>3. slot \in [Slots -> SlotType] /\ word = 2 * c /\ c = supply - t /\ c \in Nat
      /\ supply \in Nat /\ t \in Nat /\ Flag = 0
  BY <1>2, WordParts DEF WordInv, Flag
<1>4. n - c \in Nat /\ n - c <= n
  BY <1>1, <1>2, <1>3
<1>5. r \in SlotType /\ r.num = n /\ r.state = n - c
  BY <1>1, <1>4 DEF SlotType
<1>6. slot[g].num = 0 /\ slot[g].state = 0
  BY <1>2 DEF Free
<1>. HIDE DEF c, r
<1>11. 0 = slot[g].num - slot[g].state /\ c = r.num - r.state
  BY <1>1, <1>3, <1>5, <1>6
<1>12. slot' = [slot EXCEPT ![g] = r]
  BY <1>2 DEF r, c
<1>7. slot' \in [Slots -> SlotType] /\ Taken(slot') = Taken(slot) - 0 + c
  <2>1. /\ slot' \in [Slots -> SlotType]
        /\ Taken(slot') = Taken(slot) - (slot[g].num - slot[g].state) + (r.num - r.state)
    BY <1>3, <1>5, <1>12, SlotChange
  <2>. QED
    BY <1>11, <2>1
<1>8. Taken(slot)' = u
  BY DEF Taken, Share
<1>9. word' = 2 * (supply - u) + 0 /\ word' \in Nat
  <2>1. u = t - 0 + c
    BY <1>7
  <2>. HIDE DEF t, u
  <2>. QED
    BY <1>1, <1>2, <1>3, <2>1
<1>10. Flag' = 0
  BY <1>2, <1>3 DEF Flag
<1>. QED
  BY <1>2, <1>7, <1>8, <1>9, <1>10 DEF WordInv

\* The poll of a future that has been served.
LEMMA TakingServed ==
    ASSUME Fits, WordInv, NEW g \in Slots, PollServed(g)
    PROVE  WordInv'
<1>. DEFINE n == slot[g].num
            m == slot[g].state
            c == Count
            s == [slot EXCEPT ![g] = Guard(n)]
            t == Taken(slot)
            ts == Taken(s)
            tn == Taken(slot')
<1>1. /\ m <= c /\ ~CLOSED /\ Give(c - m, 0, s) /\ UNCHANGED <<supply, closed>>
  BY DEF PollServed
<1>2. slot \in [Slots -> SlotType] /\ c = supply - t /\ c \in Nat
      /\ supply \in Nat /\ t \in Nat /\ Flag = 0 /\ 2 * supply + 1 < WordSize
  BY <1>1, WordParts DEF WordInv, Flag
<1>3. n \in Nat /\ m \in Nat /\ m <= n
  <2>1. slot[g] \in SlotType
    BY <1>2
  <2>. QED
    BY <2>1 DEF SlotType
<1>. HIDE DEF n, m
<1>4. Guard(n) \in SlotType /\ Guard(n).num = n /\ Guard(n).state = 0
  BY <1>3 DEF Guard, SlotType
<1>12. n - m = slot[g].num - slot[g].state /\ n = Guard(n).num - Guard(n).state
  <2>1. n - 0 = n
    BY <1>3
  <2>. QED
    BY <1>4, <2>1 DEF n, m
<1>5. s \in [Slots -> SlotType] /\ ts = t - (n - m) + n
  <2>. DEFINE r == Guard(n)
  <2>1. r \in SlotType /\ s = [slot EXCEPT ![g] = r] /\ n = r.num - r.state
    BY <1>4, <1>12 DEF n
  <2>. HIDE DEF r, s, n, m, ts, t
  <2>2. /\ s \in [Slots -> SlotType]
        /\ Taken(s) = Taken(slot) - (slot[g].num - slot[g].state) + (r.num - r.state)
    BY <1>2, <2>1, TakenChange
  <2>. QED
    BY <1>12, <2>1, <2>2 DEF t, ts
<1>. HIDE DEF s, t, ts, tn, c
<1>6. c - m \in Nat /\ 0 = 2 * 0 + 0 /\ 2 * (0 + (c - m)) + 1 < WordSize /\ WordSize \in Nat
  BY <1>1, <1>2, <1>3, FitsNumbers
<1>7. slot' \in [Slots -> SlotType] /\ word' \in Nat /\ word' = 2 * (0 + (c - m) + ts - tn) + 0
  BY <1>1, <1>5, <1>6, GiveAdds DEF ts, tn
<1>8. tn \in Nat
  BY <1>7, ShareType DEF tn
<1>9. 0 + (c - m) + ts - tn = supply - tn
  BY <1>2, <1>3, <1>5, <1>8
<1>10. Taken(slot)' = tn /\ Flag' = 0
  BY <1>1, <1>2 DEF tn, Taken, Share, Flag
<1>11. word' = 2 * (supply' - tn) + 0
  BY <1>1, <1>7, <1>9
<1>. QED
  BY <1>1, <1>2, <1>7, <1>10, <1>11 DEF WordInv

\* A slot is freed, and gives back what it had of the permits.
LEMMA Freeing ==
    ASSUME Fits, WordInv, NEW g \in Slots, NEW n, n = slot[g].num - slot[g].state,
           Give(n, word, [slot EXCEPT ![g] = Free]), UNCHANGED <<supply, closed>>
    PROVE  WordInv'
<1>. DEFINE s == [slot EXCEPT ![g] = Free]
<1>1. slot \in [Slots -> SlotType] /\ Taken(slot) \in Nat /\ supply \in Nat
      /\ 2 * supply + 1 < WordSize
  BY WordParts DEF WordInv
<1>2. n \in Nat
  <2>1. slot[g] \in SlotType
    BY <1>1
  <2>. QED
    BY <2>1 DEF SlotType
<1>3. Free \in SlotType /\ Free.num - Free.state = 0
  BY DEF Free, SlotType
<1>4. s \in [Slots -> SlotType] /\ Taken(s) = Taken(slot) - n + 0
  BY <1>1, <1>3, TakenChange
<1>. DEFINE t == Taken(slot)
            ts == Taken(s)
<1>5. t \in Nat /\ ts = t - n + 0
  BY <1>1, <1>4
<1>. HIDE DEF s, t, ts
<1>6. ts + n = t + (supply' - supply)
  BY <1>1, <1>2, <1>5
<1>. QED
  BY <1>1, <1>2, <1>4, <1>6, Released DEF s, t, ts

LEMMA WordStep == ASSUME Fits, WordInv, [WordNext]_wordVars PROVE WordInv'
<1>1. ASSUME NEW g \in Slots, NEW n \in Requests, TryAcquire(g, n) \/ PollFast(g, n)
      PROVE  WordInv'
  BY <1>1, Taking DEF TryAcquire, PollFast
<1>2. ASSUME NEW g \in Slots, NEW n \in Requests, PollShort(g, n) PROVE WordInv'
  BY <1>2, TakingAll
<1>3. ASSUME NEW g \in Slots, PollServed(g) PROVE WordInv'
  BY <1>3, TakingServed
<1>4. ASSUME NEW g \in Slots, DropAcquire(g) PROVE WordInv'
  BY <1>4, Freeing DEF DropAcquire
<1>5. ASSUME NEW g \in Slots, DropGuard(g) PROVE WordInv'
  <2>1. slot[g] \in SlotType
    BY DEF WordInv
  <2>2. slot[g].phase = "held" /\ Give(slot[g].num, word, [slot EXCEPT ![g] = Free])
        /\ UNCHANGED <<supply, closed>>
    BY <1>5 DEF DropGuard
  <2>3. slot[g].num = slot[g].num - slot[g].state
    BY <2>1, <2>2 DEF SlotType
  <2>. QED
    BY <2>2, <2>3, Freeing
<1>6. ASSUME NEW g \in Slots, Forget(g) PROVE WordInv'
  <2>. DEFINE n == slot[g].num
              t == Taken(slot)
              u == Taken(slot')
  <2>1. slot[g].phase = "held" /\ slot' = [slot EXCEPT ![g] = Free]
        /\ supply' = supply - n /\ UNCHANGED <<word, closed>>
    BY <1>6 DEF Forget
  <2>2. slot \in [Slots -> SlotType] /\ t \in Nat /\ supply - t \in Nat /\ supply \in Nat
        /\ 2 * supply + 1 < WordSize /\ word = 2 * (supply - t) + Flag /\ word \in Nat
        /\ WordSize \in Nat
    BY WordParts, FitsNumbers DEF WordInv
  <2>3. n \in Nat /\ slot[g].state = 0
    <3>1. slot[g] \in SlotType
      BY <2>2
    <3>. QED
      BY <2>1, <3>1 DEF SlotType
  <2>4. n <= t
    <3>1. slot[g].num - slot[g].state <= t
      BY <2>2, ShareIsTaken
    <3>. QED
      BY <2>3, <3>1
  <2>5. Free \in SlotType /\ Free.num - Free.state = 0
    BY DEF Free, SlotType
  <2>11. n = slot[g].num - slot[g].state
    BY <2>3
  <2>6. slot' \in [Slots -> SlotType] /\ u = t - n + 0
    <3>. DEFINE r == Free
    <3>1. r \in SlotType /\ slot' = [slot EXCEPT ![g] = r] /\ r.num - r.state = 0
      BY <2>1, <2>5
    <3>. HIDE DEF r, n, t, u
    <3>2. /\ slot' \in [Slots -> SlotType]
          /\ Taken(slot') = Taken(slot) - (slot[g].num - slot[g].state) + (r.num - r.state)
      BY <2>2, <3>1, SlotChange
    <3>. QED
      BY <2>11, <3>1, <3>2 DEF t, u
  <2>7. Taken(slot)' = u /\ Flag' = Flag /\ Flag \in {0, 1}
    BY <2>1 DEF Taken, Share, Flag
  <2>. HIDE DEF n, t, u
  <2>8. supply' \in Nat /\ 2 * supply' + 1 < WordSize
    BY <2>1, <2>2, <2>3, <2>4
  <2>9. word' = 2 * (supply' - u) + Flag /\ word' \in Nat
    BY <2>1, <2>2, <2>3, <2>6, <2>7
  <2>10. closed' \in BOOLEAN
    BY <2>1 DEF WordInv
  <2>. QED
    BY <2>6, <2>7, <2>8, <2>9, <2>10 DEF WordInv
<1>7. ASSUME NEW n \in 1..MaxSupply, AddPermits(n) PROVE WordInv'
  <2>1. supply + n <= MaxSupply /\ Give(n, word, slot) /\ supply' = supply + n /\ closed' = closed
    BY <1>7 DEF AddPermits
  <2>2. slot \in [Slots -> SlotType] /\ Taken(slot) \in Nat /\ supply \in Nat
        /\ MaxSupply \in Nat /\ 2 * MaxSupply + 1 < WordSize /\ WordSize \in Nat
    BY WordParts, FitsNumbers DEF WordInv
  <2>3. n \in Nat /\ supply' \in Nat /\ 2 * supply' + 1 < WordSize /\ supply' - supply = n
    BY <2>1, <2>2
  <2>. QED
    BY <2>1, <2>2, <2>3, Released
<1>8. CASE Close
  <2>. DEFINE t == Taken(slot)
  <2>1. word' = (IF CLOSED THEN word ELSE word + 1) /\ closed' = TRUE
        /\ UNCHANGED <<slot, supply>>
    BY <1>8 DEF Close
  <2>2. /\ CLOSED <=> closed
        /\ word = 2 * (supply - t) + (IF closed THEN 1 ELSE 0) /\ word \in Nat
        /\ supply - t \in Nat
    BY WordParts DEF WordInv, Flag
  <2>3. Taken(slot)' = t /\ Flag' = 1
    BY <2>1 DEF Taken, Share, Flag
  <2>. HIDE DEF t
  <2>4. word' = 2 * (supply - t) + 1 /\ word' \in Nat
    BY <2>1, <2>2
  <2>. QED
    BY <2>1, <2>3, <2>4 DEF WordInv
<1>9. CASE UNCHANGED wordVars
  BY <1>9 DEF wordVars, WordInv, Flag, Taken, Share
<1>. QED
  BY <1>1, <1>2, <1>3, <1>4, <1>5, <1>6, <1>7, <1>8, <1>9 DEF WordNext

LEMMA WordInvCounts == ASSUME Fits, WordInv PROVE WordIsCount
<1>1. slot \in [Slots -> SlotType] /\ word = 2 * (supply - Taken(slot)) + Flag
  BY DEF WordInv
<1>2. ASSUME NEW g \in Slots PROVE Held(g) + Assigned(g) = Share(slot)[g]
  <2>1. slot[g] \in SlotType
    BY <1>1
  <2>2. slot[g].phase \in {"free", "waiting", "held"} /\ slot[g].num \in Nat /\ slot[g].state \in Nat
        /\ slot[g].state <= slot[g].num
        /\ (slot[g].phase = "free" => slot[g].num = 0)
        /\ (slot[g].phase = "held" => slot[g].state = 0)
    BY <2>1 DEF SlotType
  <2>3. Held(g) + Assigned(g) = slot[g].num - slot[g].state
    BY <2>2 DEF Held, Assigned
  <2>. QED
    BY <2>3 DEF Share
<1>3. UNION {{g} \X (1..Held(g) + Assigned(g)) : g \in Slots} = P!Units(Slots, Share(slot))
  BY <1>2 DEF P!Units
<1>4. \A S : Cardinality(S) = P!Cardinality(S)
  BY DEF Cardinality, P!Cardinality
<1>5. Out = Taken(slot)
  BY <1>3, <1>4 DEF Out, Taken, P!Count
<1>. QED
  BY <1>1, <1>5 DEF WordIsCount, Flag

\* As long as the permits there are fit in the word, and a request that is shifted
\* does (a u32 in a usize of 64 bits), the word is the number of the permits that
\* are free, with the flag: the arithmetic of Inner, on a usize of any width.
THEOREM WordCounts == ASSUME Fits PROVE WordSpec => []WordIsCount
<1>1. WordInit => WordInv
  BY InitWord
<1>2. WordInv /\ [WordNext]_wordVars => WordInv'
  BY WordStep
<1>3. WordInv => WordIsCount
  BY WordInvCounts
<1>. QED
  BY <1>1, <1>2, <1>3, PTL DEF WordSpec
=============================================================================
