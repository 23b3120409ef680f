------------------------ MODULE SemaphoreInnerProofs ------------------------
(***************************************************************************)
(* Theorems about SemaphoreInner, for any number of futures, contexts and  *)
(* permits.  IndInv is inductive; the invariants the runs check follow     *)
(* from it, and so do the action properties.  The second part follows the  *)
(* permits, and shows that FairSemaphore is implemented.                   *)
(***************************************************************************)
EXTENDS SemaphoreInner, SequenceTheorems, FiniteSetTheorems, TLAPS

(***************************************************************************)
(* What joining and leaving do to a queue of distinct elements.            *)
(*                                                                         *)
(* Removing f from a queue closes the gap at its position p, and leaves a  *)
(* queue without f (p past the end) as it is: LinkedList::remove.          *)
(***************************************************************************)
LEMMA WithoutShape ==
    ASSUME NEW S, NEW q \in Seq(S), NEW f
    PROVE  \E p \in 1..Len(q) + 1 :
              /\ p <= Len(q) => q[p] = f
              /\ p > Len(q) => f \notin Range(q)
              /\ Without(q, f) \in Seq(S)
              /\ Len(Without(q, f)) = IF p <= Len(q) THEN Len(q) - 1 ELSE Len(q)
              /\ \A i \in 1..Len(Without(q, f)) :
                    Without(q, f)[i] = IF i < p THEN q[i] ELSE q[i + 1]
<1>1. CASE f \notin Range(q)
  <2>1. Without(q, f) = q
    BY <1>1 DEF Without
  <2>. QED
    BY <1>1, <2>1
<1>2. CASE f \in Range(q)
  <2>. DEFINE p == CHOOSE j \in 1..Len(q) : q[j] = f
              l == SubSeq(q, 1, p - 1)
              r == SubSeq(q, p + 1, Len(q))
  <2>1. p \in 1..Len(q) /\ q[p] = f
    <3>1. \E j \in 1..Len(q) : q[j] = f
      BY <1>2 DEF Range
    <3>. QED
      BY <3>1
  <2>2. Without(q, f) = l \o r
    BY <1>2 DEF Without
  <2>. HIDE DEF p
  <2>3. /\ l \in Seq(S)
        /\ Len(l) = p - 1
        /\ \A i \in 1..p-1 : l[i] = q[i]
    BY <2>1, SubSeqProperties
  <2>4. /\ r \in Seq(S)
        /\ Len(r) = Len(q) - p
        /\ \A i \in 1..Len(q)-p : r[i] = q[p + i]
    BY <2>1, SubSeqProperties
  <2>5. /\ l \o r \in Seq(S)
        /\ Len(l \o r) = Len(q) - 1
        /\ \A i \in 1..Len(q)-1 : (l \o r)[i] = IF i < p THEN q[i] ELSE q[i + 1]
    <3>. HIDE DEF l, r
    <3>1. /\ l \o r \in Seq(S)
          /\ Len(l \o r) = Len(l) + Len(r)
          /\ \A i \in 1..Len(l) + Len(r) :
                (l \o r)[i] = IF i <= Len(l) THEN l[i] ELSE r[i - Len(l)]
      BY <2>3, <2>4, ConcatProperties
    <3>. QED
      BY <2>1, <2>3, <2>4, <3>1
  <2>. HIDE DEF l, r
  <2>6. /\ p \in 1..Len(q) + 1
        /\ p <= Len(q)
        /\ Without(q, f) \in Seq(S)
        /\ Len(Without(q, f)) = Len(q) - 1
        /\ \A i \in 1..Len(Without(q, f)) :
              Without(q, f)[i] = IF i < p THEN q[i] ELSE q[i + 1]
    BY <2>1, <2>2, <2>5
  <2>. QED
    BY <2>1, <2>6
<1>. QED
  BY <1>1, <1>2

LEMMA WithoutProperties ==
    ASSUME NEW S, NEW q \in Seq(S), NEW f, Distinct(q)
    PROVE  /\ Without(q, f) \in Seq(S)
           /\ Distinct(Without(q, f))
           /\ Range(Without(q, f)) = Range(q) \ {f}
<1>. DEFINE w == Without(q, f)
<1>1. PICK p \in 1..Len(q) + 1 :
         /\ p <= Len(q) => q[p] = f
         /\ p > Len(q) => f \notin Range(q)
         /\ w \in Seq(S)
         /\ Len(w) = IF p <= Len(q) THEN Len(q) - 1 ELSE Len(q)
         /\ \A i \in 1..Len(w) : w[i] = IF i < p THEN q[i] ELSE q[i + 1]
  BY WithoutShape
<1>. HIDE DEF w
<1>2. Distinct(w)
  <2>. SUFFICES ASSUME NEW i \in 1..Len(w), NEW j \in 1..Len(w), w[i] = w[j]
                PROVE  i = j
    BY <1>1 DEF Distinct
  <2>1. \A m, n \in 1..Len(q) : q[m] = q[n] => m = n
    BY DEF Distinct
  <2>. QED
    BY <1>1, <2>1
<1>3. ASSUME NEW g \in Range(w) PROVE g \in Range(q) \ {f}
  <2>1. PICK i \in 1..Len(w) : w[i] = g
    BY <1>1 DEF Range
  <2>2. /\ (IF i < p THEN i ELSE i + 1) \in 1..Len(q)
        /\ q[IF i < p THEN i ELSE i + 1] = g
    BY <1>1, <2>1
  <2>3. g \in Range(q)
    BY <2>2 DEF Range
  <2>4. CASE p <= Len(q)
    BY <1>1, <2>2, <2>4, <2>3 DEF Distinct
  <2>5. CASE p > Len(q)
    BY <1>1, <2>3, <2>5
  <2>. QED
    BY <2>3, <2>4, <2>5
<1>4. ASSUME NEW g \in Range(q), g # f PROVE g \in Range(w)
  <2>1. PICK i \in 1..Len(q) : q[i] = g
    BY DEF Range
  <2>2. i # p
    BY <1>1, <1>4, <2>1
  <2>3. /\ (IF i < p THEN i ELSE i - 1) \in 1..Len(w)
        /\ w[IF i < p THEN i ELSE i - 1] = g
    BY <1>1, <2>1, <2>2
  <2>. QED
    BY <1>1, <2>3 DEF Range
<1>5. Range(w) = Range(q) \ {f}
  BY <1>3, <1>4
<1>. QED
  BY <1>1, <1>2, <1>5 DEF w

\* Joining the queue at its end.
LEMMA AppendDistinct ==
    ASSUME NEW S, NEW q \in Seq(S), NEW f \in S, Distinct(q), f \notin Range(q)
    PROVE  /\ Append(q, f) \in Seq(S)
           /\ Distinct(Append(q, f))
           /\ Range(Append(q, f)) = Range(q) \cup {f}
<1>. DEFINE w == Append(q, f)
<1>1. /\ w \in Seq(S)
      /\ Len(w) = Len(q) + 1
      /\ \A i \in 1..Len(q) : w[i] = q[i]
      /\ w[Len(q) + 1] = f
  BY AppendProperties
<1>. HIDE DEF w
<1>2. \A i \in 1..Len(q) : q[i] # f
  BY DEF Range
<1>3. Distinct(w)
  <2>1. \A m, n \in 1..Len(q) : q[m] = q[n] => m = n
    BY DEF Distinct
  <2>. SUFFICES ASSUME NEW i \in 1..Len(w), NEW j \in 1..Len(w), w[i] = w[j]
                PROVE  i = j
    BY <1>1 DEF Distinct
  <2>. QED
    BY <1>1, <1>2, <2>1
<1>4. Range(w) = Range(q) \cup {f}
  <2>1. ASSUME NEW g \in Range(w) PROVE g \in Range(q) \cup {f}
    <3>1. PICK i \in 1..Len(q) + 1 : w[i] = g
      BY <1>1 DEF Range
    <3>. QED
      BY <1>1, <3>1 DEF Range
  <2>2. ASSUME NEW g \in Range(q) PROVE g \in Range(w)
    <3>1. PICK i \in 1..Len(q) : q[i] = g
      BY DEF Range
    <3>2. i \in 1..Len(w) /\ w[i] = g
      BY <1>1, <3>1
    <3>. QED
      BY <1>1, <3>2 DEF Range
  <2>3. f \in Range(w)
    BY <1>1 DEF Range
  <2>. QED
    BY <2>1, <2>2, <2>3
<1>. QED
  BY <1>1, <1>3, <1>4 DEF w

LEMMA RangeInSet ==
    ASSUME NEW S, NEW q \in Seq(S) PROVE Range(q) \subseteq S
  BY RangeOfSeq

LEMMA EmptyRange ==
    ASSUME NEW S, NEW q \in Seq(S), Range(q) = {}
    PROVE  q = <<>>
<1>1. q # <<>> => 1 \in DOMAIN q
  BY EmptySeq
<1>. QED
  BY <1>1 DEF Range
-----------------------------------------------------------------------------
(***************************************************************************)
(* A release, on a queue q, a word of `avail` permits and futures a, that  *)
(* serves the k oldest waiters and has n permits left then: p, w and b are *)
(* the word, the queue and the futures that it leaves.                     *)
(***************************************************************************)
Grant(avail, q, a, k, n, p, w, b) ==
    /\ IF k = Len(q) THEN p = avail + n
                     ELSE p = avail /\ n < a[q[k + 1]].remaining
    /\ w = SubSeq(q, k + 1, Len(q))
    /\ b = [f \in Futures |->
              IF f \in Served(q, k)
              THEN Woken([a[f] EXCEPT !.remaining = 0])
              ELSE IF k < Len(q) /\ f = q[k + 1]
              THEN [a[f] EXCEPT !.remaining = @ - n]
              ELSE a[f]]

(***************************************************************************)
(* What such a release leaves if all futures of the queue need permits:    *)
(* the futures outside the queue are left alone; those that stay in it     *)
(* still need some; those that leave it have all they need and are woken;  *)
(* the word gains nothing unless the queue is emptied; and no future is    *)
(* given anything before those ahead of it have left.                      *)
(***************************************************************************)
Outcome(avail, q, a, p, w, b) ==
    /\ p \in Nat
    /\ w \in Seq(Futures)
    /\ b \in [Futures -> Future]
    /\ Distinct(w)
    /\ Range(w) \subseteq Range(q)
    /\ w # <<>> => p = avail
    /\ \A f \in Futures \ Range(q) : b[f] = a[f]
    /\ \A f \in Range(w) :
          \E r \in 1..a[f].remaining : b[f] = [a[f] EXCEPT !.remaining = r]
    /\ \A f \in Range(q) \ Range(w) :
          b[f] = Woken([a[f] EXCEPT !.remaining = 0])
    /\ \A i, j \in DOMAIN q :
          i < j /\ b[q[j]].remaining < a[q[j]].remaining =>
             q[i] \notin Range(w)

LEMMA GrantProperties ==
    ASSUME NEW avail \in Nat,
           NEW q \in Seq(Futures), Distinct(q),
           NEW a \in [Futures -> Future],
           \A f \in Range(q) : a[f].remaining > 0,
           NEW k \in 0..Len(q), NEW n \in Nat,
           NEW p, NEW w, NEW b,
           Grant(avail, q, a, k, n, p, w, b)
    PROVE  Outcome(avail, q, a, p, w, b)
<1>1. /\ w \in Seq(Futures)
      /\ Len(w) = Len(q) - k
      /\ \A i \in 1..Len(q) - k : w[i] = q[k + i]
  <2>1. w = SubSeq(q, k + 1, Len(q))
    BY DEF Grant
  <2>. QED
    BY <2>1, SubSeqProperties
<1>2. \A i, j \in 1..Len(q) : q[i] = q[j] => i = j
  BY DEF Distinct
<1>3. \A i \in 1..Len(q) :
         /\ q[i] \in Futures
         /\ a[q[i]] \in Future
         /\ a[q[i]].remaining \in Nat \ {0}
  <2>. TAKE i \in 1..Len(q)
  <2>1. q[i] \in Futures /\ q[i] \in Range(q)
    BY DEF Range
  <2>. QED
    BY <2>1 DEF Future
<1>4. \A f \in Range(q) : \E i \in 1..Len(q) : q[i] = f
  BY DEF Range
<1>5. \A f \in Range(w) : \E i \in k+1..Len(q) : q[i] = f
  <2>. TAKE f \in Range(w)
  <2>1. PICK i \in 1..Len(q) - k : w[i] = f
    BY <1>1 DEF Range
  <2>2. k + i \in k+1..Len(q) /\ q[k + i] = f
    BY <1>1, <2>1
  <2>. QED
    BY <2>2
<1>6. \A i \in k+1..Len(q) : q[i] \in Range(w)
  <2>. TAKE i \in k+1..Len(q)
  <2>1. i - k \in 1..Len(w) /\ w[i - k] = q[i]
    BY <1>1
  <2>. QED
    BY <1>1, <2>1 DEF Range
<1>7. \A i \in 1..Len(q) : q[i] \in Served(q, k) <=> i <= k
  BY <1>2 DEF Served
<1>8. \A i \in 1..Len(q) : q[i] \in Range(w) <=> i > k
  <2>. TAKE i \in 1..Len(q)
  <2>1. ASSUME q[i] \in Range(w) PROVE i > k
    <3>1. PICK j \in k+1..Len(q) : q[j] = q[i]
      BY <1>5, <2>1
    <3>. QED
      BY <1>2, <3>1
  <2>. QED
    BY <1>6, <2>1
<1>10. p \in Nat /\ (w # <<>> => p = avail)
  <2>1. w # <<>> => k # Len(q)
    BY <1>1, EmptySeq
  <2>. QED
    BY <2>1 DEF Grant
<1>11. Distinct(w)
  <2>. SUFFICES ASSUME NEW i \in 1..Len(q) - k, NEW j \in 1..Len(q) - k, w[i] = w[j]
                PROVE  i = j
    BY <1>1 DEF Distinct
  <2>. QED
    BY <1>1, <1>2
<1>12. Range(w) \subseteq Range(q)
  <2>. SUFFICES ASSUME NEW f \in Range(w) PROVE f \in Range(q)
    OBVIOUS
  <2>1. PICK i \in k+1..Len(q) : q[i] = f
    BY <1>5
  <2>. QED
    BY <2>1 DEF Range
<1>13. \A f \in Futures \ Range(q) : b[f] = a[f]
  <2>. TAKE f \in Futures \ Range(q)
  <2>1. f \notin Served(q, k) /\ ~(k < Len(q) /\ f = q[k + 1])
    BY DEF Range, Served
  <2>. QED
    BY <2>1 DEF Grant
<1>14. \A f \in Range(w) :
          \E r \in 1..a[f].remaining : b[f] = [a[f] EXCEPT !.remaining = r]
  <2>. TAKE f \in Range(w)
  <2>1. PICK i \in k+1..Len(q) : q[i] = f
    BY <1>5
  <2>2. /\ f \notin Served(q, k)
        /\ k < Len(q)
        /\ f \in Futures
        /\ a[f] \in Future
        /\ a[f].remaining \in Nat \ {0}
    BY <1>3, <1>7, <2>1
  <2>3. CASE f = q[k + 1]
    <3>1. b[f] = [a[f] EXCEPT !.remaining = a[f].remaining - n]
      BY <2>2, <2>3 DEF Grant
    <3>2. a[f].remaining - n \in 1..a[f].remaining
      BY <2>2, <2>3 DEF Grant
    <3>. QED
      BY <3>1, <3>2
  <2>4. CASE f # q[k + 1]
    <3>1. b[f] = a[f]
      BY <2>2, <2>4 DEF Grant
    <3>2. a[f] = [a[f] EXCEPT !.remaining = a[f].remaining]
      BY <2>2 DEF Future
    <3>. QED
      BY <2>2, <3>1, <3>2
  <2>. QED
    BY <2>3, <2>4
<1>15. \A f \in Range(q) \ Range(w) : b[f] = Woken([a[f] EXCEPT !.remaining = 0])
  <2>. TAKE f \in Range(q) \ Range(w)
  <2>1. PICK i \in 1..Len(q) : q[i] = f
    BY <1>4
  <2>2. f \in Served(q, k) /\ f \in Futures
    BY <1>3, <1>7, <1>8, <2>1
  <2>. QED
    BY <2>2 DEF Grant
<1>16. b \in [Futures -> Future]
  <2>1. ASSUME NEW f \in Futures PROVE b[f] \in Future
    <3>1. a[f] \in Future
      OBVIOUS
    <3>2. CASE f \notin Range(q)
      BY <1>13, <3>1, <3>2
    <3>3. CASE f \in Range(w)
      <4>1. PICK r \in 1..a[f].remaining : b[f] = [a[f] EXCEPT !.remaining = r]
        BY <1>14, <3>3
      <4>2. r \in Nat
        BY <3>1, <4>1 DEF Future
      <4>. QED
        BY <3>1, <4>1, <4>2 DEF Future
    <3>4. CASE f \in Range(q) \ Range(w)
      <4>1. Woken([a[f] EXCEPT !.remaining = 0]) \in Future
        BY <3>1 DEF Future, Woken
      <4>. QED
        BY <1>15, <3>4, <4>1
    <3>. QED
      BY <3>2, <3>3, <3>4
  <2>2. b = [f \in Futures |-> b[f]]
    BY DEF Grant
  <2>. QED
    BY <2>1, <2>2
<1>17. ASSUME NEW i \in 1..Len(q), NEW j \in 1..Len(q), i < j,
              b[q[j]].remaining < a[q[j]].remaining
       PROVE  q[i] \notin Range(w)
  <2>1. j <= k + 1
    <3>. SUFFICES ASSUME j > k + 1 PROVE FALSE
      OBVIOUS
    <3>1. q[j] \notin Served(q, k) /\ q[j] # q[k + 1] /\ q[j] \in Futures
      BY <1>2, <1>3, <1>7
    <3>2. b[q[j]] = a[q[j]]
      BY <3>1 DEF Grant
    <3>. QED
      BY <1>3, <1>17, <3>2
  <2>. QED
    BY <1>8, <1>17, <2>1
<1>18. \A i, j \in DOMAIN q :
          i < j /\ b[q[j]].remaining < a[q[j]].remaining =>
             q[i] \notin Range(w)
  <2>. DOMAIN q = 1..Len(q)
    OBVIOUS
  <2>. QED
    BY <1>17
<1>. QED
  BY <1>1, <1>10, <1>11, <1>12, <1>13, <1>14, <1>15, <1>16, <1>18
     DEF Outcome

(***************************************************************************)
(* What a release does to the i-th waiter, of which nothing but the need   *)
(* and the waker changes, and to who does not wait.                        *)
(***************************************************************************)
Elementwise(q, a, k, n, b) ==
    /\ \A i \in 1..Len(q) : /\ b[q[i]].phase = a[q[i]].phase
                            /\ b[q[i]].num = a[q[i]].num
                            /\ b[q[i]].queued = a[q[i]].queued
                            /\ i <= k => b[q[i]].remaining = 0
                            /\ i = k + 1 => b[q[i]].remaining = a[q[i]].remaining - n
                            /\ i > k + 1 => b[q[i]] = a[q[i]]
    /\ \A f \in Futures \ Range(q) : b[f] = a[f]

LEMMA GrantElements ==
    ASSUME NEW avail \in Nat,
           NEW q \in Seq(Futures), Distinct(q),
           NEW a \in [Futures -> Future],
           NEW k \in 0..Len(q), NEW n \in Nat,
           NEW p, NEW w, NEW b,
           Grant(avail, q, a, k, n, p, w, b)
    PROVE  /\ w \in Seq(Futures)
           /\ Len(w) = Len(q) - k
           /\ \A i \in 1..Len(q) - k : w[i] = q[k + i]
           /\ Elementwise(q, a, k, n, b)
<1>1. /\ w \in Seq(Futures)
      /\ Len(w) = Len(q) - k
      /\ \A i \in 1..Len(q) - k : w[i] = q[k + i]
  <2>1. w = SubSeq(q, k + 1, Len(q))
    BY DEF Grant
  <2>. QED
    BY <2>1, SubSeqProperties
<1>2. \A i, j \in 1..Len(q) : q[i] = q[j] => i = j
  BY DEF Distinct
<1>3. \A i \in 1..Len(q) : q[i] \in Futures
  OBVIOUS
<1>4. \A i \in 1..Len(q) : q[i] \in Served(q, k) <=> i <= k
  BY <1>2 DEF Served
<1>5. ASSUME NEW i \in 1..Len(q)
      PROVE  /\ b[q[i]].phase = a[q[i]].phase
             /\ b[q[i]].num = a[q[i]].num
             /\ b[q[i]].queued = a[q[i]].queued
             /\ i <= k => b[q[i]].remaining = 0
             /\ i = k + 1 => b[q[i]].remaining = a[q[i]].remaining - n
             /\ i > k + 1 => b[q[i]] = a[q[i]]
  <2>1. a[q[i]] \in Future /\ q[i] \in Futures
    BY <1>3
  <2>2. CASE i <= k
    <3>1. b[q[i]] = Woken([a[q[i]] EXCEPT !.remaining = 0])
      BY <1>4, <2>1, <2>2 DEF Grant
    <3>. QED
      BY <2>1, <2>2, <3>1 DEF Woken, Future
  <2>3. CASE i = k + 1
    <3>1. q[i] \notin Served(q, k) /\ k < Len(q)
      BY <1>4, <2>3
    <3>2. b[q[i]] = [a[q[i]] EXCEPT !.remaining = @ - n]
      BY <2>1, <2>3, <3>1 DEF Grant
    <3>. QED
      BY <2>1, <2>3, <3>2 DEF Future
  <2>4. CASE i > k + 1
    <3>1. q[i] \notin Served(q, k)
      BY <1>4, <2>4
    <3>2. q[i] # q[k+1]
      BY <1>2, <2>4
    <3>3. b[q[i]] = a[q[i]]
      BY <2>1, <3>1, <3>2 DEF Grant
    <3>. QED
      BY <2>4, <3>3
  <2>. QED
    BY <2>2, <2>3, <2>4
<1>8. \A f \in Futures \ Range(q) : b[f] = a[f]
  <2>. TAKE f \in Futures \ Range(q)
  <2>1. f \notin Served(q, k) /\ ~(k < Len(q) /\ f = q[k + 1])
    BY DEF Range, Served
  <2>. QED
    BY <2>1 DEF Grant
<1>. QED
  BY <1>1, <1>5, <1>8 DEF Elementwise

\* The same of the variables after a step of add_permits.
LEMMA AddPermitsProperties ==
    ASSUME NEW rem \in Nat, NEW avail \in Nat,
           NEW q \in Seq(Futures), Distinct(q),
           NEW a \in [Futures -> Future],
           \A f \in Range(q) : a[f].remaining > 0,
           AddPermits(rem, avail, q, a)
    PROVE  Outcome(avail, q, a, permits', waiters', acq')
<1>1. PICK k \in 0..Len(q), n \in Nat :
         Grant(avail, q, a, k, n, permits', waiters', acq')
  <2>1. PICK k \in 0..Len(q) : \E left \in [0..k -> 0..rem] :
           Grant(avail, q, a, k, left[k], permits', waiters', acq')
    BY DEF AddPermits, Grant
  <2>2. PICK left \in [0..k -> 0..rem] :
           Grant(avail, q, a, k, left[k], permits', waiters', acq')
    BY <2>1
  <2>3. left[k] \in Nat
    OBVIOUS
  <2>. QED
    BY <2>2, <2>3
<1>. QED
  BY <1>1, GrantProperties
-----------------------------------------------------------------------------
(***************************************************************************)
(* IndInv as a relation between values, so that the state in the middle of *)
(* a step (the future dropped, its permits not yet released) can have it.  *)
(***************************************************************************)
Short(r) == r.phase = "live" /\ r.queued /\ r.remaining > 0

Sound(p, c, q, a) ==
    /\ p \in Nat
    /\ c \in BOOLEAN
    /\ q \in Seq(Futures)
    /\ a \in [Futures -> Future]
    /\ Distinct(q)
    /\ \A f \in Futures : f \in Range(q) <=> Short(a[f]) /\ ~c
    /\ q # <<>> => p = 0
    /\ \A f \in Futures :
          /\ a[f].phase = "live"
          /\ a[f].queued
          /\ a[f].remaining = 0 \/ c
          => a[f].notified
    /\ \A f \in Futures : a[f].remaining <= a[f].num
    /\ \A f \in Range(q) : a[f].waker = a[f].cx

LEMMA IndInvSound ==
    IndInv <=> Sound(permits, closed, waiters, acq) /\ balance \in Int
  BY DEF IndInv, TypeOK, WaitersAreLive, NoIdlePermits, NoLostWakeup,
         AssignedWithinRequest, WakerIsCurrent, Waiting, Sound, Short, Distinct

LEMMA IndInvSoundPrime ==
    IndInv' <=> Sound(permits', closed', waiters', acq') /\ balance' \in Int
  BY DEF IndInv, TypeOK, WaitersAreLive, NoIdlePermits, NoLostWakeup,
         AssignedWithinRequest, WakerIsCurrent, Waiting, Sound, Short, Distinct

\* A release keeps everything sound.
LEMMA OutcomeSound ==
    ASSUME NEW p, NEW c, NEW q, NEW a, Sound(p, c, q, a),
           NEW p2, NEW w, NEW b, Outcome(p, q, a, p2, w, b)
    PROVE  Sound(p2, c, w, b)
<1>1. /\ q \in Seq(Futures)
      /\ a \in [Futures -> Future]
      /\ c \in BOOLEAN
      /\ \A f \in Futures : f \in Range(q) <=> Short(a[f]) /\ ~c
      /\ \A f \in Futures :
            /\ a[f].phase = "live"
            /\ a[f].queued
            /\ a[f].remaining = 0 \/ c
            => a[f].notified
      /\ \A f \in Futures : a[f].remaining <= a[f].num
      /\ \A f \in Range(q) : a[f].waker = a[f].cx
  BY DEF Sound
<1>2. /\ p2 \in Nat
      /\ w \in Seq(Futures)
      /\ b \in [Futures -> Future]
      /\ Distinct(w)
      /\ Range(w) \subseteq Range(q)
      /\ \A f \in Futures \ Range(q) : b[f] = a[f]
      /\ \A f \in Range(w) :
            \E r \in 1..a[f].remaining : b[f] = [a[f] EXCEPT !.remaining = r]
      /\ \A f \in Range(q) \ Range(w) :
            b[f] = Woken([a[f] EXCEPT !.remaining = 0])
  BY DEF Outcome
<1>3. w # <<>> => p2 = 0
  <2>1. SUFFICES ASSUME w # <<>> PROVE p2 = 0
    OBVIOUS
  <2>2. PICK f : f \in Range(w)
    <3>1. 1 \in 1..Len(w)
      BY <1>2, <2>1, EmptySeq
    <3>. QED
      BY <1>2, <3>1 DEF Range
  <2>3. q # <<>>
    BY <1>2, <2>2 DEF Range
  <2>. QED
    BY <2>1, <2>3 DEF Sound, Outcome
<1>4. ASSUME NEW f \in Futures
      PROVE  /\ f \in Range(w) <=> Short(b[f]) /\ ~c
             /\ (/\ b[f].phase = "live"
                 /\ b[f].queued
                 /\ b[f].remaining = 0 \/ c) => b[f].notified
             /\ b[f].remaining <= b[f].num
             /\ f \in Range(w) => b[f].waker = b[f].cx
  <2>1. a[f] \in Future
    BY <1>1
  <2>2. CASE f \notin Range(q)
    <3>1. b[f] = a[f] /\ f \notin Range(w)
      BY <1>2, <2>2
    <3>. QED
      BY <1>1, <2>2, <3>1
  <2>3. CASE f \in Range(w)
    <3>1. PICK r \in 1..a[f].remaining : b[f] = [a[f] EXCEPT !.remaining = r]
      BY <1>2, <2>3
    <3>2. f \in Range(q) /\ Short(a[f]) /\ ~c /\ a[f].waker = a[f].cx
      BY <1>1, <1>2, <2>3
    <3>3. a[f].remaining <= a[f].num
      BY <1>1
    <3>. QED
      BY <1>1, <2>1, <2>3, <3>1, <3>2, <3>3 DEF Short, Future
  <2>4. CASE f \in Range(q) \ Range(w)
    <3>1. b[f] = Woken([a[f] EXCEPT !.remaining = 0])
      BY <1>2, <2>4
    <3>2. Short(a[f]) /\ ~c /\ a[f].waker = a[f].cx
      BY <1>1, <2>4
    <3>. QED
      BY <1>1, <2>1, <2>4, <3>1, <3>2 DEF Short, Future, Woken
  <2>. QED
    BY <2>2, <2>3, <2>4
<1>5. Range(w) \subseteq Futures
  BY <1>2, RangeInSet
<1>. QED
  BY <1>1, <1>2, <1>3, <1>4, <1>5 DEF Sound

LEMMA ReleaseSound ==
    ASSUME NEW rem \in Nat, NEW avail, NEW q, NEW a,
           Sound(avail, closed, q, a), AddPermits(rem, avail, q, a)
    PROVE  /\ Sound(permits', closed, waiters', acq')
           /\ Outcome(avail, q, a, permits', waiters', acq')
<1>1. /\ avail \in Nat
      /\ q \in Seq(Futures)
      /\ a \in [Futures -> Future]
      /\ Distinct(q)
      /\ \A f \in Range(q) : a[f].remaining > 0
  BY RangeInSet DEF Sound, Short
<1>2. Outcome(avail, q, a, permits', waiters', acq')
  BY <1>1, AddPermitsProperties
<1>. QED
  BY <1>2, OutcomeSound

\* A future that leaves its slot, and the queue, keeps everything sound.
LEMMA ForgetSound ==
    ASSUME NEW p, NEW c, NEW q, NEW a, Sound(p, c, q, a),
           NEW f \in Futures,
           NEW p2 \in Nat, NEW w \in Seq(Futures),
           Distinct(w), Range(w) = Range(q) \ {f}, w # <<>> => p2 = 0
    PROVE  Sound(p2, c, w, [a EXCEPT ![f] = NoFuture])
<1>. DEFINE b == [a EXCEPT ![f] = NoFuture]
<1>1. NoFuture \in Future /\ ~Short(NoFuture)
  BY DEF NoFuture, Future, Short
<1>2. b \in [Futures -> Future]
  BY <1>1 DEF Sound
<1>3. \A g \in Futures : b[g] = IF g = f THEN NoFuture ELSE a[g]
  BY DEF Sound
<1>. HIDE DEF b
<1>4. \A g \in Futures : g \in Range(w) <=> Short(b[g]) /\ ~c
  BY <1>1, <1>3 DEF Sound
<1>5. \A g \in Futures : /\ b[g].phase = "live"
                         /\ b[g].queued
                         /\ b[g].remaining = 0 \/ c
                         => b[g].notified
  BY <1>3 DEF Sound, NoFuture
<1>6. \A g \in Futures : b[g].remaining <= b[g].num
  BY <1>3 DEF Sound, NoFuture
<1>7. \A g \in Range(w) : b[g].waker = b[g].cx
  BY <1>3, RangeInSet DEF Sound
<1>8. Sound(p2, c, w, b)
  BY <1>2, <1>4, <1>5, <1>6, <1>7 DEF Sound
<1>. QED
  BY <1>8 DEF b

(***************************************************************************)
(* The initial states, and one lemma for each action.                      *)
(***************************************************************************)
LEMMA InitSound == Init => IndInv
<1>. SUFFICES ASSUME Init PROVE IndInv
  OBVIOUS
<1>1. permits \in Nat
  BY SemaphoreAssumption DEF Init
<1>2. NoFuture \in Future /\ ~Short(NoFuture)
  BY DEF NoFuture, Future, Short
<1>3. waiters \in Seq(Futures) /\ Range(waiters) = {} /\ Distinct(waiters)
  BY EmptySeq DEF Init, Range, Distinct
<1>4. acq = [f \in Futures |-> NoFuture] /\ closed = FALSE /\ waiters = <<>>
  BY DEF Init
<1>5. /\ NoFuture.phase # "live"
      /\ NoFuture.remaining <= NoFuture.num
  BY DEF NoFuture
<1>6. Sound(permits, closed, waiters, acq)
  BY <1>1, <1>2, <1>3, <1>4, <1>5 DEF Sound
<1>. QED
  BY <1>1, <1>6, IndInvSound DEF Init

LEMMA AcquireSound ==
    ASSUME IndInv, NEW f \in Futures, NEW n \in Amounts, Acquire(f, n)
    PROVE  IndInv'
<1>1. n \in Nat
  BY SemaphoreAssumption
<1>2. Sound(permits, closed, waiters, acq) /\ balance \in Int
  BY IndInvSound
<1>3. /\ NewFuture(n) \in Future
      /\ ~NewFuture(n).queued
      /\ NewFuture(n).remaining <= NewFuture(n).num
  <2>1. NoFuture \in Future /\ ~NoFuture.queued
    BY DEF NoFuture, Future
  <2>2. NewFuture(n) \in Future
    BY <1>1, <2>1 DEF NewFuture, Future
  <2>3. NewFuture(n).remaining = n /\ NewFuture(n).num = n /\ ~NewFuture(n).queued
    BY <2>1 DEF NewFuture, Future
  <2>. QED
    BY <1>1, <2>2, <2>3
<1>4. acq' = [acq EXCEPT ![f] = NewFuture(n)] /\ ~Short(acq[f])
  BY DEF Acquire, Short
<1>5. acq' \in [Futures -> Future]
  BY <1>2, <1>3, <1>4 DEF Sound
<1>6. \A g \in Futures : acq'[g] = IF g = f THEN NewFuture(n) ELSE acq[g]
  BY <1>2, <1>4 DEF Sound
<1>7. f \notin Range(waiters)
  BY <1>2, <1>4 DEF Sound
<1>8. Sound(permits, closed, waiters, acq')
  <2>1. \A g \in Futures : g \in Range(waiters) <=> Short(acq'[g]) /\ ~closed
    BY <1>2, <1>3, <1>6, <1>7 DEF Sound, Short
  <2>2. \A g \in Futures : /\ acq'[g].phase = "live"
                           /\ acq'[g].queued
                           /\ acq'[g].remaining = 0 \/ closed
                           => acq'[g].notified
    BY <1>2, <1>3, <1>6 DEF Sound
  <2>3. \A g \in Futures : acq'[g].remaining <= acq'[g].num
    BY <1>2, <1>3, <1>6 DEF Sound
  <2>4. \A g \in Range(waiters) : acq'[g].waker = acq'[g].cx
    BY <1>2, <1>6, <1>7, RangeInSet DEF Sound
  <2>. QED
    BY <1>2, <1>5, <2>1, <2>2, <2>3, <2>4 DEF Sound
<1>9. UNCHANGED <<permits, closed, waiters, balance>>
  BY DEF Acquire
<1>. QED
  BY <1>2, <1>8, <1>9, IndInvSoundPrime

LEMMA PollClosedSound ==
    ASSUME IndInv, NEW f \in Futures, PollClosed(f)
    PROVE  IndInv'
<1>1. Sound(permits, closed, waiters, acq) /\ balance \in Int
  BY IndInvSound
<1>. DEFINE r == [acq[f] EXCEPT !.phase = "failed", !.notified = FALSE]
<1>2. acq[f] \in Future
  BY <1>1 DEF Sound
<1>3. acq' = [acq EXCEPT ![f] = r]
  BY DEF PollClosed
<1>4. r \in Future /\ r.phase # "live" /\ r.remaining = acq[f].remaining
      /\ r.num = acq[f].num
  BY <1>2 DEF Future
<1>. HIDE DEF r
<1>5. acq' \in [Futures -> Future]
  BY <1>1, <1>3, <1>4 DEF Sound
<1>6. \A g \in Futures : acq'[g] = IF g = f THEN r ELSE acq[g]
  BY <1>1, <1>3 DEF Sound
<1>7. closed /\ UNCHANGED <<permits, closed, waiters, balance>>
  BY DEF PollClosed
<1>8. Range(waiters) = {}
  BY <1>1, <1>7, RangeInSet DEF Sound
<1>9. Sound(permits, closed, waiters, acq')
  BY <1>1, <1>4, <1>5, <1>6, <1>7, <1>8 DEF Sound
<1>. QED
  BY <1>1, <1>7, <1>9, IndInvSoundPrime

LEMMA PollFastSound ==
    ASSUME IndInv, NEW f \in Futures, PollFast(f)
    PROVE  IndInv'
<1>1. Sound(permits, closed, waiters, acq) /\ balance \in Int
  BY IndInvSound
<1>2. acq[f] \in Future /\ permits \in Nat /\ permits >= acq[f].num /\ ~acq[f].queued
  BY <1>1 DEF Sound, PollFast
<1>3. permits - acq[f].num \in Nat /\ balance - acq[f].num \in Int
  BY <1>1, <1>2 DEF Future
<1>4. f \notin Range(waiters)
  BY <1>1, <1>2 DEF Sound, Short
<1>5. waiters # <<>> => permits - acq[f].num = 0
  BY <1>1, <1>2, <1>3 DEF Sound, Future
<1>6. Sound(permits - acq[f].num, closed, waiters, [acq EXCEPT ![f] = NoFuture])
  <2>1. waiters \in Seq(Futures) /\ Distinct(waiters)
    BY <1>1 DEF Sound
  <2>2. Range(waiters) = Range(waiters) \ {f}
    BY <1>4
  <2>. QED
    BY <1>1, <1>3, <1>5, <2>1, <2>2, ForgetSound
<1>. QED
  BY <1>3, <1>6, IndInvSoundPrime DEF PollFast

\* A queued future covered by the word alone has no node in the list any more.
LEMMA PollAssignedSound ==
    ASSUME IndInv, NEW f \in Futures, PollAssigned(f)
    PROVE  /\ IndInv'
           /\ Outcome(0, waiters, [acq EXCEPT ![f] = NoFuture],
                      permits', waiters', acq')
<1>1. Sound(permits, closed, waiters, acq) /\ balance \in Int
  BY IndInvSound
<1>2. /\ acq[f] \in Future
      /\ permits \in Nat
      /\ permits >= acq[f].remaining
      /\ closed = FALSE
      /\ closed' = FALSE
      /\ balance' = balance - acq[f].num
      /\ AddPermits(permits - acq[f].remaining, 0, waiters,
                    [acq EXCEPT ![f] = NoFuture])
  BY <1>1 DEF Sound, PollAssigned
<1>3. permits - acq[f].remaining \in Nat /\ balance - acq[f].num \in Int
  BY <1>1, <1>2 DEF Future
<1>4. f \notin Range(waiters)
  <2>. SUFFICES ASSUME f \in Range(waiters) PROVE FALSE
    OBVIOUS
  <2>1. acq[f].remaining > 0
    BY <1>1 DEF Sound, Short
  <2>2. waiters # <<>>
    BY <1>1 DEF Sound, Range
  <2>3. permits = 0
    BY <1>1, <2>2 DEF Sound
  <2>. QED
    BY <1>2, <2>1, <2>3 DEF Future
<1>5. Sound(0, closed, waiters, [acq EXCEPT ![f] = NoFuture])
  <2>1. waiters \in Seq(Futures) /\ Distinct(waiters)
    BY <1>1 DEF Sound
  <2>2. Range(waiters) = Range(waiters) \ {f}
    BY <1>4
  <2>. QED
    BY <1>1, <2>1, <2>2, ForgetSound
<1>6. /\ Sound(permits', closed, waiters', acq')
      /\ Outcome(0, waiters, [acq EXCEPT ![f] = NoFuture], permits', waiters', acq')
  BY <1>2, <1>3, <1>5, ReleaseSound
<1>. QED
  BY <1>2, <1>3, <1>6, IndInvSoundPrime

LEMMA PollPendingSound ==
    ASSUME IndInv, NEW f \in Futures, NEW c \in Contexts, PollPending(f, c)
    PROVE  IndInv'
<1>1. Sound(permits, closed, waiters, acq) /\ balance \in Int
  BY IndInvSound
<1>. DEFINE r == [acq[f] EXCEPT !.remaining = @ - permits, !.queued = TRUE,
                                !.waker = c, !.cx = c, !.notified = FALSE]
<1>2. /\ acq[f] \in Future
      /\ acq[f].remaining <= acq[f].num
      /\ permits \in Nat
      /\ permits < acq[f].remaining
      /\ acq[f].phase = "live"
      /\ closed = FALSE
  BY <1>1 DEF Sound, PollPending
<1>3. /\ r \in Future
      /\ Short(r)
      /\ r.remaining <= r.num
      /\ r.waker = r.cx
      /\ r.remaining # 0
  <2>1. acq[f].remaining - permits \in Nat \ {0}
    BY <1>2 DEF Future
  <2>2. r \in Future
    BY <1>2, <2>1 DEF Future
  <2>3. /\ r.remaining = acq[f].remaining - permits
        /\ r.num = acq[f].num
        /\ r.phase = acq[f].phase
        /\ r.queued = TRUE
        /\ r.waker = c
        /\ r.cx = c
    BY <1>2 DEF Future
  <2>4. acq[f].remaining \in Nat /\ acq[f].num \in Nat
    BY <1>2 DEF Future
  <2>. HIDE DEF r
  <2>. QED
    BY <1>2, <2>1, <2>2, <2>3, <2>4 DEF Short
<1>4. /\ acq' = [acq EXCEPT ![f] = r]
      /\ permits' = 0
      /\ closed' = FALSE
      /\ waiters' = IF acq[f].queued THEN waiters ELSE Append(waiters, f)
      /\ balance' = balance
  BY DEF PollPending
<1>. HIDE DEF r
<1>5. acq' \in [Futures -> Future]
  BY <1>1, <1>3, <1>4 DEF Sound
<1>6. \A g \in Futures : acq'[g] = IF g = f THEN r ELSE acq[g]
  BY <1>1, <1>4 DEF Sound
<1>7. /\ waiters' \in Seq(Futures)
      /\ Distinct(waiters')
      /\ Range(waiters') = Range(waiters) \cup {f}
  <2>1. waiters \in Seq(Futures) /\ Distinct(waiters)
    BY <1>1 DEF Sound
  <2>2. CASE acq[f].queued
    <3>1. f \in Range(waiters)
      BY <1>1, <1>2, <2>2 DEF Sound, Short, Future
    <3>. QED
      BY <1>4, <2>1, <2>2, <3>1
  <2>3. CASE ~acq[f].queued
    <3>1. f \notin Range(waiters)
      BY <1>1, <2>3 DEF Sound, Short
    <3>2. waiters' = Append(waiters, f)
      BY <1>4, <2>3
    <3>. QED
      BY <2>1, <3>1, <3>2, AppendDistinct
  <2>. QED
    BY <2>2, <2>3
<1>8. Sound(permits', closed', waiters', acq')
  <2>1. \A g \in Futures : g \in Range(waiters') <=> Short(acq'[g]) /\ ~closed'
    BY <1>1, <1>2, <1>3, <1>4, <1>6, <1>7 DEF Sound
  <2>2. \A g \in Futures : /\ acq'[g].phase = "live"
                           /\ acq'[g].queued
                           /\ acq'[g].remaining = 0 \/ closed'
                           => acq'[g].notified
    BY <1>1, <1>2, <1>3, <1>4, <1>6 DEF Sound
  <2>3. \A g \in Futures : acq'[g].remaining <= acq'[g].num
    BY <1>1, <1>3, <1>6 DEF Sound
  <2>4. \A g \in Range(waiters') : acq'[g].waker = acq'[g].cx
    BY <1>1, <1>3, <1>6, <1>7, RangeInSet DEF Sound
  <2>. QED
    BY <1>4, <1>5, <1>7, <2>1, <2>2, <2>3, <2>4 DEF Sound
<1>. QED
  BY <1>1, <1>4, <1>8, IndInvSoundPrime

LEMMA DropAcquireSound ==
    ASSUME IndInv, NEW f \in Futures, DropAcquire(f)
    PROVE  /\ IndInv'
           /\ acq[f].queued =>
                 Outcome(permits, Without(waiters, f), [acq EXCEPT ![f] = NoFuture],
                         permits', waiters', acq')
<1>1. Sound(permits, closed, waiters, acq) /\ balance \in Int
  BY IndInvSound
<1>. DEFINE w == Without(waiters, f)
            a == [acq EXCEPT ![f] = NoFuture]
<1>2. /\ waiters \in Seq(Futures)
      /\ Distinct(waiters)
      /\ permits \in Nat
      /\ waiters # <<>> => permits = 0
      /\ UNCHANGED <<closed, balance>>
  BY <1>1 DEF Sound, DropAcquire
<1>3. CASE acq[f].queued
  <2>1. w \in Seq(Futures) /\ Distinct(w) /\ Range(w) = Range(waiters) \ {f}
    BY <1>2, WithoutProperties
  <2>2. w # <<>> => permits = 0
    <3>1. waiters = <<>> => w = <<>>
      BY DEF Without, Range
    <3>. QED
      BY <1>2, <3>1
  <2>3. Sound(permits, closed, w, a)
    <3>. HIDE DEF w
    <3>. QED
      BY <1>1, <1>2, <2>1, <2>2, ForgetSound
  <2>4. acq[f].num - acq[f].remaining \in Nat
    <3>1. acq[f] \in Future /\ acq[f].remaining <= acq[f].num
      BY <1>1 DEF Sound
    <3>. QED
      BY <3>1 DEF Future
  <2>5. AddPermits(acq[f].num - acq[f].remaining, permits, w, a)
    BY <1>3 DEF DropAcquire
  <2>6. /\ Sound(permits', closed, waiters', acq')
        /\ Outcome(permits, w, a, permits', waiters', acq')
    <3>. HIDE DEF w, a
    <3>. QED
      BY <2>3, <2>4, <2>5, ReleaseSound
  <2>. QED
    BY <1>1, <1>2, <2>6, IndInvSoundPrime
<1>4. CASE ~acq[f].queued
  <2>1. f \notin Range(waiters)
    BY <1>1, <1>4 DEF Sound, Short
  <2>2. Range(waiters) = Range(waiters) \ {f}
    BY <2>1
  <2>3. Sound(permits, closed, waiters, a)
    BY <1>1, <1>2, <2>2, ForgetSound
  <2>4. acq' = a /\ UNCHANGED <<permits, waiters>>
    BY <1>4 DEF DropAcquire
  <2>. QED
    BY <1>1, <1>2, <1>4, <2>3, <2>4, IndInvSoundPrime
<1>. QED
  BY <1>3, <1>4

LEMMA TryAcquireSound ==
    ASSUME IndInv, NEW n \in Amounts, TryAcquire(n)
    PROVE  IndInv'
<1>1. Sound(permits, closed, waiters, acq) /\ balance \in Int
  BY IndInvSound
<1>2. n \in Nat
  BY SemaphoreAssumption
<1>3. /\ permits - n \in Nat
      /\ balance - n \in Int
      /\ waiters # <<>> => permits - n = 0
  BY <1>1, <1>2 DEF Sound, TryAcquire
<1>4. Sound(permits - n, closed, waiters, acq)
  BY <1>1, <1>3 DEF Sound
<1>. QED
  BY <1>3, <1>4, IndInvSoundPrime DEF TryAcquire

LEMMA ReleaseStepSound ==
    ASSUME IndInv, NEW n \in Nat, Release(n)
    PROVE  /\ IndInv'
           /\ Outcome(permits, waiters, acq, permits', waiters', acq')
<1>1. Sound(permits, closed, waiters, acq) /\ balance \in Int
  BY IndInvSound
<1>2. /\ Sound(permits', closed, waiters', acq')
      /\ Outcome(permits, waiters, acq, permits', waiters', acq')
  BY <1>1, ReleaseSound DEF Release
<1>3. balance' \in Int /\ closed' = closed
  BY <1>1 DEF Release
<1>. QED
  BY <1>2, <1>3, IndInvSoundPrime

LEMMA CloseSound ==
    ASSUME IndInv, Close
    PROVE  IndInv'
<1>1. Sound(permits, closed, waiters, acq) /\ balance \in Int
  BY IndInvSound
<1>2. /\ acq' = [f \in Futures |->
                   IF f \in Range(waiters) THEN Woken(acq[f]) ELSE acq[f]]
      /\ closed' = TRUE
      /\ waiters' = <<>>
      /\ UNCHANGED <<permits, balance>>
  BY DEF Close
<1>3. waiters' \in Seq(Futures) /\ Range(waiters') = {} /\ Distinct(waiters')
  BY <1>2, EmptySeq DEF Range, Distinct
<1>4. ASSUME NEW f \in Futures
      PROVE  /\ acq'[f] \in Future
             /\ acq'[f].phase = "live" /\ acq'[f].queued => acq'[f].notified
             /\ acq'[f].remaining <= acq'[f].num
  <2>1. /\ acq[f] \in Future
        /\ acq[f].remaining <= acq[f].num
        /\ f \in Range(waiters) <=> Short(acq[f]) /\ ~closed
        /\ closed \in BOOLEAN
        /\ (/\ acq[f].phase = "live"
            /\ acq[f].queued
            /\ acq[f].remaining = 0 \/ closed) => acq[f].notified
        /\ f \in Range(waiters) => acq[f].waker = acq[f].cx
    BY <1>1 DEF Sound
  <2>2. CASE f \in Range(waiters)
    BY <1>2, <2>1, <2>2 DEF Future, Woken
  <2>3. CASE f \notin Range(waiters)
    <3>1. acq'[f] = acq[f]
      BY <1>2, <2>3
    <3>2. ~Short(acq[f]) \/ closed
      BY <2>1, <2>3
    <3>. QED
      BY <2>1, <3>1, <3>2 DEF Short, Future
  <2>. QED
    BY <2>2, <2>3
<1>5. acq' \in [Futures -> Future]
  BY <1>2, <1>4
<1>6. Sound(permits', closed', waiters', acq')
  BY <1>1, <1>2, <1>3, <1>4, <1>5 DEF Sound
<1>. QED
  BY <1>1, <1>2, <1>6, IndInvSoundPrime
-----------------------------------------------------------------------------
LEMMA StepSound == IndInv /\ [Next]_vars => IndInv'
<1>. SUFFICES ASSUME IndInv, [Next]_vars PROVE IndInv'
  OBVIOUS
<1>1. ASSUME NEW f \in Futures, NEW n \in Amounts, Acquire(f, n) PROVE IndInv'
  BY <1>1, AcquireSound
<1>2. ASSUME NEW f \in Futures, Poll(f) PROVE IndInv'
  BY <1>2, PollClosedSound, PollFastSound, PollAssignedSound, PollPendingSound
     DEF Poll
<1>3. ASSUME NEW f \in Futures, DropAcquire(f) PROVE IndInv'
  BY <1>3, DropAcquireSound
<1>4. ASSUME NEW n \in Amounts, TryAcquire(n) PROVE IndInv'
  BY <1>4, TryAcquireSound
<1>5. ASSUME NEW n \in Amounts, Release(n) PROVE IndInv'
  BY <1>5, ReleaseStepSound, SemaphoreAssumption
<1>6. CASE Close
  BY <1>6, CloseSound
<1>7. CASE UNCHANGED vars
  BY <1>7, IndInvSound, IndInvSoundPrime DEF vars
<1>. QED
  BY <1>1, <1>2, <1>3, <1>4, <1>5, <1>6, <1>7 DEF Next

\* The inductive invariant holds in every state the semaphore can reach.
THEOREM Invariance == Spec => []IndInv
  BY InitSound, StepSound, PTL DEF Spec

\* Each call leaves the word, the queue and the futures with their types.
THEOREM TypeCorrect == Spec => []TypeOK
  BY Invariance, PTL DEF IndInv

\* The intrusive list of the semaphore links exactly the futures that wait,
\* each once: no completed or dropped future leaves its node behind.
THEOREM ListHoldsTheWaiting == Spec => []WaitersAreLive
  BY Invariance, PTL DEF IndInv

\* Permits never idle in the word while there are waiters.
THEOREM PermitsDoNotIdle == Spec => []NoIdlePermits
  BY Invariance, PTL DEF IndInv

\* Whoever has what it asked for, or waits on a closed semaphore, is woken.
THEOREM WakeupsAreNotLost == Spec => []NoLostWakeup
  BY Invariance, PTL DEF IndInv
-----------------------------------------------------------------------------
(***************************************************************************)
(* Order.  A release serves the queue in order, and no call gives anything *)
(* to a waiter by another way.                                             *)
(***************************************************************************)
InTurn(q, a, b) ==
    \A i, j \in DOMAIN q :
       i < j /\ b[q[j]].remaining < a[q[j]].remaining => b[q[i]].remaining = 0

LEMMA OutcomeInTurn ==
    ASSUME NEW p, NEW q \in Seq(Futures), NEW a \in [Futures -> Future],
           NEW p2, NEW w, NEW b, Outcome(p, q, a, p2, w, b)
    PROVE  InTurn(q, a, b)
<1>1. ASSUME NEW i \in DOMAIN q, NEW j \in DOMAIN q,
             i < j, b[q[j]].remaining < a[q[j]].remaining
      PROVE  b[q[i]].remaining = 0
  <2>1. q[i] \in Range(q) \ Range(w)
    BY <1>1 DEF Outcome, Range
  <2>2. b[q[i]] = Woken([a[q[i]] EXCEPT !.remaining = 0])
    BY <2>1 DEF Outcome
  <2>3. a[q[i]] \in Future
    OBVIOUS
  <2>. QED
    BY <2>2, <2>3 DEF Woken, Future
<1>. QED
  BY <1>1 DEF InTurn

LEMMA OutcomeEmpty ==
    ASSUME NEW p, NEW q, NEW a, NEW p2, NEW w, NEW b,
           Outcome(p, q, a, p2, w, b), Range(q) = {}
    PROVE  w = <<>>
<1>1. w \in Seq(Futures) /\ Range(w) = {}
  BY DEF Outcome
<1>. QED
  BY <1>1, EmptyRange

LEMMA NobodyJoins ==
    ASSUME waiters' \in Seq(Futures), Range(waiters') \subseteq Range(waiters)
    PROVE  JoinedAtEnd
<1>1. \A i \in DOMAIN waiters' : waiters'[i] \in Range(waiters')
  <2>. DEFINE w == waiters'
  <2>1. \A i \in DOMAIN w : w[i] \in Range(w)
    <3>. HIDE DEF w
    <3>. QED
      BY DEF Range
  <2>. QED
    BY <2>1
<1>. QED
  BY <1>1 DEF JoinedAtEnd

LEMMA OutcomeFedInTurn ==
    ASSUME waiters \in Seq(Futures), acq \in [Futures -> Future],
           NEW p, Outcome(p, waiters, acq, permits', waiters', acq')
    PROVE  FedInTurn /\ JoinedAtEnd
<1>1. FedInTurn
  <2>1. InTurn(waiters, acq, acq')
    BY OutcomeInTurn
  <2>. QED
    BY <2>1 DEF FedInTurn, Fed, InTurn
<1>2. waiters' \in Seq(Futures) /\ Range(waiters') \subseteq Range(waiters)
  BY DEF Outcome
<1>. QED
  BY <1>1, <1>2, NobodyJoins

\* Steps that give no waiter anything and leave the queue alone.
LEMMA QuietInTurn ==
    ASSUME waiters \in Seq(Futures), acq \in [Futures -> Future],
           waiters' = waiters,
           \A f \in Range(waiters) : acq'[f].remaining = acq[f].remaining
    PROVE  FedInTurn /\ JoinedAtEnd
<1>1. \A j \in DOMAIN waiters : ~Fed(waiters[j])
  <2>. TAKE j \in DOMAIN waiters
  <2>1. waiters[j] \in Range(waiters) /\ acq[waiters[j]] \in Future
    BY DEF Range
  <2>2. acq'[waiters[j]].remaining = acq[waiters[j]].remaining
    BY <2>1
  <2>. QED
    BY <2>1, <2>2 DEF Fed, Future
<1>2. FedInTurn
  BY <1>1 DEF FedInTurn
<1>. QED
  BY <1>2, NobodyJoins

LEMMA DropInTurn ==
    ASSUME IndInv, NEW f \in Futures, DropAcquire(f), acq[f].queued
    PROVE  FedInTurn /\ JoinedAtEnd
<1>. DEFINE q == Without(waiters, f)
            a == [acq EXCEPT ![f] = NoFuture]
<1>1. /\ waiters \in Seq(Futures)
      /\ Distinct(waiters)
      /\ acq \in [Futures -> Future]
  BY IndInvSound DEF Sound
<1>2. PICK p \in 1..Len(waiters) + 1 :
         /\ p <= Len(waiters) => waiters[p] = f
         /\ p > Len(waiters) => f \notin Range(waiters)
         /\ q \in Seq(Futures)
         /\ Len(q) = IF p <= Len(waiters) THEN Len(waiters) - 1 ELSE Len(waiters)
         /\ \A i \in 1..Len(q) : q[i] = IF i < p THEN waiters[i] ELSE waiters[i + 1]
  BY <1>1, WithoutShape
<1>3. q \in Seq(Futures) /\ Distinct(q) /\ Range(q) = Range(waiters) \ {f}
  BY <1>1, WithoutProperties
<1>4. Outcome(permits, q, a, permits', waiters', acq')
  BY DropAcquireSound
<1>. HIDE DEF q
<1>5. a \in [Futures -> Future]
  BY <1>1 DEF NoFuture, Future
<1>6. acq'[f] = NoFuture
  <2>1. acq'[f] = a[f]
    BY <1>3, <1>4 DEF Outcome
  <2>. QED
    BY <1>1, <2>1
<1>7. ASSUME NEW i \in DOMAIN waiters, NEW j \in DOMAIN waiters,
             i < j, Fed(waiters[j])
      PROVE  acq'[waiters[i]].phase = "none" \/ acq'[waiters[i]].remaining = 0
  <2>1. i \in 1..Len(waiters) /\ j \in 1..Len(waiters)
    BY <1>1
  <2>2. waiters[j] # f
    BY <1>6, <1>7 DEF Fed, NoFuture
  <2>3. CASE waiters[i] = f
    BY <1>6, <2>3 DEF NoFuture
  <2>4. CASE waiters[i] # f
    <3>. DEFINE m == IF i < p THEN i ELSE i - 1
                n == IF j < p THEN j ELSE j - 1
    <3>1. i # p /\ j # p
      BY <1>2, <2>1, <2>2, <2>4
    <3>2. /\ m \in 1..Len(q)
          /\ n \in 1..Len(q)
          /\ m < n
          /\ q[m] = waiters[i]
          /\ q[n] = waiters[j]
      <4>1. m \in 1..Len(q) /\ n \in 1..Len(q) /\ m < n
        BY <1>2, <1>7, <2>1, <3>1
      <4>2. q[m] = waiters[i]
        <5>1. CASE i < p
          <6>1. m = i
            BY <5>1
          <6>. QED
            BY <1>2, <4>1, <5>1, <6>1
        <5>2. CASE ~(i < p)
          <6>1. m = i - 1 /\ ~(m < p) /\ m + 1 = i
            BY <2>1, <3>1, <5>2
          <6>2. q[m] = waiters[m + 1]
            BY <1>2, <4>1, <6>1
          <6>. QED
            BY <6>1, <6>2
        <5>. QED
          BY <5>1, <5>2
      <4>3. q[n] = waiters[j]
        <5>1. CASE j < p
          <6>1. n = j
            BY <5>1
          <6>. QED
            BY <1>2, <4>1, <5>1, <6>1
        <5>2. CASE ~(j < p)
          <6>1. n = j - 1 /\ ~(n < p) /\ n + 1 = j
            BY <2>1, <3>1, <5>2
          <6>2. q[n] = waiters[n + 1]
            BY <1>2, <4>1, <6>1
          <6>. QED
            BY <6>1, <6>2
        <5>. QED
          BY <5>1, <5>2
      <4>. QED
        BY <4>1, <4>2, <4>3
    <3>. HIDE DEF m, n
    <3>3. a[q[n]] = acq[q[n]]
      BY <1>1, <2>1, <2>2, <3>2
    <3>4. acq'[q[n]].remaining < a[q[n]].remaining
      BY <1>7, <3>2, <3>3 DEF Fed
    <3>5. m \in DOMAIN q /\ n \in DOMAIN q
      BY <1>2, <3>2
    <3>. HIDE DEF a
    <3>6. InTurn(q, a, acq')
      BY <1>3, <1>4, <1>5, OutcomeInTurn
    <3>. QED
      BY <3>2, <3>4, <3>5, <3>6 DEF InTurn
  <2>. QED
    BY <2>3, <2>4
<1>8. waiters' \in Seq(Futures) /\ Range(waiters') \subseteq Range(waiters)
  BY <1>3, <1>4 DEF Outcome
<1>9. FedInTurn
  BY <1>7 DEF FedInTurn
<1>. QED
  BY <1>8, <1>9, NobodyJoins

LEMMA PendingInTurn ==
    ASSUME IndInv, NEW f \in Futures, NEW c \in Contexts, PollPending(f, c)
    PROVE  FedInTurn /\ JoinedAtEnd
<1>1. /\ waiters \in Seq(Futures)
      /\ acq \in [Futures -> Future]
      /\ waiters # <<>> => permits = 0
      /\ \A g \in Futures : g \in Range(waiters) <=> Short(acq[g]) /\ ~closed
  BY IndInvSound DEF Sound
<1>2. \A g \in Range(waiters) : acq'[g].remaining = acq[g].remaining
  <2>. TAKE g \in Range(waiters)
  <2>1. permits = 0
    BY <1>1, EmptySeq DEF Range
  <2>2. acq[g] \in Future /\ g \in Futures
    BY <1>1, RangeInSet
  <2>3. CASE g = f
    BY <1>1, <2>1, <2>2, <2>3 DEF PollPending, Future
  <2>4. CASE g # f
    BY <1>1, <2>2, <2>4 DEF PollPending
  <2>. QED
    BY <2>3, <2>4
<1>3. CASE acq[f].queued
  BY <1>1, <1>2, <1>3, QuietInTurn DEF PollPending
<1>4. CASE ~acq[f].queued
  <2>1. waiters' = Append(waiters, f)
    BY <1>4 DEF PollPending
  <2>2. /\ Len(waiters') = Len(waiters) + 1
        /\ DOMAIN waiters' = 1..Len(waiters) + 1
        /\ \A i \in 1..Len(waiters) : waiters'[i] = waiters[i]
    <3>. DEFINE w == Append(waiters, f)
    <3>1. /\ w \in Seq(Futures)
          /\ Len(w) = Len(waiters) + 1
          /\ \A i \in 1..Len(waiters) : w[i] = waiters[i]
      BY <1>1, AppendProperties
    <3>2. DOMAIN w = 1..Len(w)
      BY <3>1, LenProperties
    <3>3. w = waiters'
      BY <2>1
    <3>. HIDE DEF w
    <3>. QED
      BY <3>1, <3>2, <3>3
  <2>3. \A i \in 1..Len(waiters) : waiters[i] \in Range(waiters)
    BY <1>1 DEF Range
  <2>4. JoinedAtEnd
    BY <1>1, <2>2, <2>3 DEF JoinedAtEnd
  <2>5. FedInTurn
    <3>1. \A j \in DOMAIN waiters : ~Fed(waiters[j])
      <4>. TAKE j \in DOMAIN waiters
      <4>1. waiters[j] \in Range(waiters) /\ acq[waiters[j]] \in Future
        BY <1>1 DEF Range
      <4>2. acq'[waiters[j]].remaining = acq[waiters[j]].remaining
        BY <1>2, <4>1
      <4>. QED
        BY <4>1, <4>2 DEF Fed, Future
    <3>. QED
      BY <3>1 DEF FedInTurn
  <2>. QED
    BY <2>4, <2>5
<1>. QED
  BY <1>3, <1>4

LEMMA PollAssignedInTurn ==
    ASSUME IndInv, NEW f \in Futures, PollAssigned(f)
    PROVE  TakenInTurn /\ FedInTurn /\ JoinedAtEnd
<1>. DEFINE a == [acq EXCEPT ![f] = NoFuture]
<1>1. /\ waiters \in Seq(Futures)
      /\ acq \in [Futures -> Future]
      /\ acq[f].queued
  BY IndInvSound DEF Sound, PollAssigned
<1>2. IndInv' /\ Outcome(0, waiters, a, permits', waiters', acq')
  BY PollAssignedSound
<1>3. f \notin Range(waiters)
  <2>. SUFFICES ASSUME f \in Range(waiters) PROVE FALSE
    OBVIOUS
  <2>1. acq[f].remaining > 0 /\ acq[f] \in Future
    BY IndInvSound DEF Sound, Short
  <2>2. permits = 0
    BY IndInvSound, EmptySeq DEF Sound, Range
  <2>. QED
    BY <2>1, <2>2 DEF PollAssigned, Future
<1>4. acq'[f] = NoFuture
  BY <1>1, <1>2, <1>3 DEF Outcome
<1>5. TakenInTurn
  BY <1>1, <1>4 DEF TakenInTurn, TakenUnqueued, NoFuture
<1>6. \A j \in DOMAIN waiters : a[waiters[j]] = acq[waiters[j]]
  BY <1>1, <1>3 DEF Range
<1>7. a \in [Futures -> Future]
  BY <1>1 DEF NoFuture, Future
<1>. HIDE DEF a
<1>8. InTurn(waiters, a, acq')
  BY <1>1, <1>2, <1>7, OutcomeInTurn
<1>9. FedInTurn
  BY <1>6, <1>8 DEF InTurn, FedInTurn, Fed
<1>10. JoinedAtEnd
  BY <1>2, NobodyJoins DEF Outcome
<1>. QED
  BY <1>5, <1>9, <1>10

LEMMA StepInTurn ==
    IndInv /\ [Next]_vars => [TakenInTurn /\ FedInTurn /\ JoinedAtEnd]_vars
<1>. DEFINE Goal == TakenInTurn /\ FedInTurn /\ JoinedAtEnd
<1>. SUFFICES ASSUME IndInv, Next PROVE Goal
  OBVIOUS
<1>0. /\ waiters \in Seq(Futures)
      /\ acq \in [Futures -> Future]
      /\ waiters # <<>> => permits = 0
      /\ permits \in Nat
      /\ balance \in Int
      /\ \A f \in Futures : f \in Range(waiters) <=> Short(acq[f]) /\ ~closed
      /\ Range(waiters) \subseteq Futures
  BY IndInvSound, RangeInSet DEF Sound
<1>a. ASSUME balance' = balance PROVE TakenInTurn
  BY <1>0, <1>a DEF TakenInTurn, TakenUnqueued
<1>1. ASSUME NEW f \in Futures, NEW n \in Amounts, Acquire(f, n) PROVE Goal
  <2>1. f \notin Range(waiters)
    BY <1>0, <1>1 DEF Acquire, Short
  <2>2. /\ waiters' = waiters
        /\ balance' = balance
        /\ \A g \in Range(waiters) : acq'[g].remaining = acq[g].remaining
    BY <1>0, <1>1, <2>1 DEF Acquire
  <2>. QED
    BY <1>0, <1>a, <2>2, QuietInTurn
<1>2. ASSUME NEW f \in Futures, PollClosed(f) PROVE Goal
  <2>1. /\ waiters' = waiters
        /\ balance' = balance
        /\ f \notin Range(waiters)
    BY <1>0, <1>2 DEF PollClosed
  <2>2. \A g \in Range(waiters) : acq'[g].remaining = acq[g].remaining
    BY <1>0, <1>2, <2>1 DEF PollClosed
  <2>. QED
    BY <1>0, <1>a, <2>1, <2>2, QuietInTurn
<1>3. ASSUME NEW f \in Futures, PollFast(f) PROVE Goal
  <2>1. f \notin Range(waiters) /\ waiters' = waiters
    BY <1>0, <1>3 DEF PollFast, Short
  <2>2. \A g \in Range(waiters) : acq'[g].remaining = acq[g].remaining
    BY <1>0, <1>3, <2>1 DEF PollFast
  <2>3. acq[f].num \in Nat /\ permits >= acq[f].num /\ balance' = balance - acq[f].num
    BY <1>0, <1>3 DEF PollFast, Future
  <2>4. TakenInTurn
    BY <1>0, <2>3 DEF TakenInTurn, TakenUnqueued
  <2>. QED
    BY <1>0, <2>1, <2>2, <2>4, QuietInTurn
<1>4. ASSUME NEW f \in Futures, PollAssigned(f) PROVE Goal
  BY <1>4, PollAssignedInTurn
<1>5. ASSUME NEW f \in Futures, NEW c \in Contexts, PollPending(f, c) PROVE Goal
  BY <1>5, <1>a, PendingInTurn DEF PollPending
<1>6. ASSUME NEW f \in Futures, DropAcquire(f) PROVE Goal
  <2>1. TakenInTurn
    BY <1>6, <1>a DEF DropAcquire
  <2>2. CASE acq[f].queued
    BY <1>6, <2>1, <2>2, DropInTurn
  <2>3. CASE ~acq[f].queued
    <3>1. f \notin Range(waiters) /\ waiters' = waiters
      BY <1>0, <1>6, <2>3 DEF DropAcquire, Short
    <3>2. \A g \in Range(waiters) : acq'[g].remaining = acq[g].remaining
      BY <1>0, <1>6, <2>3, <3>1 DEF DropAcquire
    <3>. QED
      BY <1>0, <2>1, <3>1, <3>2, QuietInTurn
  <2>. QED
    BY <2>2, <2>3
<1>7. ASSUME NEW n \in Amounts, TryAcquire(n) PROVE Goal
  <2>1. /\ waiters' = waiters
        /\ \A g \in Range(waiters) : acq'[g].remaining = acq[g].remaining
    BY <1>7 DEF TryAcquire
  <2>2. TakenInTurn
    BY <1>0, <1>7, SemaphoreAssumption DEF TryAcquire, TakenInTurn, TakenUnqueued
  <2>. QED
    BY <1>0, <2>1, <2>2, QuietInTurn
<1>8. ASSUME NEW n \in Amounts, Release(n) PROVE Goal
  <2>1. n \in Nat
    BY SemaphoreAssumption
  <2>2. Outcome(permits, waiters, acq, permits', waiters', acq')
    BY <1>8, <2>1, ReleaseStepSound
  <2>3. TakenInTurn
    BY <1>0, <1>8, <2>1 DEF Release, TakenInTurn, TakenUnqueued
  <2>. QED
    BY <1>0, <2>2, <2>3, OutcomeFedInTurn
<1>9. CASE Close
  <2>1. \A g \in Range(waiters) : acq'[g].remaining = acq[g].remaining
    <3>. TAKE g \in Range(waiters)
    <3>1. acq[g] \in Future /\ acq'[g] = Woken(acq[g])
      BY <1>0, <1>9 DEF Close
    <3>. QED
      BY <3>1 DEF Woken, Future
  <2>2. \A j \in DOMAIN waiters : ~Fed(waiters[j])
    <3>. TAKE j \in DOMAIN waiters
    <3>1. waiters[j] \in Range(waiters)
      BY DEF Range
    <3>2. acq[waiters[j]] \in Future
      BY <1>0, <3>1
    <3>. QED
      BY <2>1, <3>1, <3>2 DEF Fed, Future
  <2>3. waiters' = <<>> /\ balance' = balance
    BY <1>9 DEF Close
  <2>4. waiters' \in Seq(Futures) /\ Range(waiters') \subseteq Range(waiters)
    BY <2>3, EmptySeq DEF Range
  <2>. QED
    BY <1>a, <2>2, <2>3, <2>4, NobodyJoins DEF FedInTurn
<1>. HIDE DEF Goal
<1>. QED
  BY <1>1, <1>2, <1>3, <1>4, <1>5, <1>6, <1>7, <1>8, <1>9 DEF Next, Poll

\* Permits are given out in the order they were requested, whatever is cancelled,
\* released in parts or closed in between.
THEOREM Fair == Spec => FirstComeFirstServed
  BY Invariance, StepInTurn, PTL DEF Spec, FirstComeFirstServed

LEMMA StepClosed ==
    IndInv /\ [Next]_vars =>
       [closed => closed' /\ waiters' = <<>> /\ balance' >= balance]_vars
<1>. DEFINE Goal == closed' /\ waiters' = <<>> /\ balance' >= balance
<1>. SUFFICES ASSUME IndInv, Next, closed PROVE Goal
  OBVIOUS
<1>0. /\ balance \in Int
      /\ waiters \in Seq(Futures)
      /\ acq \in [Futures -> Future]
      /\ Range(waiters) = {}
      /\ closed = TRUE
  BY IndInvSound, RangeInSet DEF Sound
<1>1. waiters = <<>>
  BY <1>0, EmptyRange
<1>2. ASSUME NEW f \in Futures, NEW n \in Amounts, Acquire(f, n) PROVE Goal
  BY <1>0, <1>1, <1>2 DEF Acquire
<1>3. ASSUME NEW f \in Futures, Poll(f) PROVE Goal
  BY <1>0, <1>1, <1>3 DEF Poll, PollClosed, PollFast, PollAssigned, PollPending
<1>4. ASSUME NEW f \in Futures, DropAcquire(f) PROVE Goal
  <2>1. closed' /\ balance' = balance
    BY <1>0, <1>4 DEF DropAcquire
  <2>2. CASE acq[f].queued
    <3>1. Range(Without(waiters, f)) = {}
      BY <1>0, <1>1 DEF Without
    <3>2. Outcome(permits, Without(waiters, f), [acq EXCEPT ![f] = NoFuture],
                  permits', waiters', acq')
      BY <1>4, <2>2, DropAcquireSound
    <3>3. waiters' = <<>>
      BY <3>1, <3>2, OutcomeEmpty
    <3>. QED
      BY <1>0, <2>1, <3>3
  <2>3. CASE ~acq[f].queued
    BY <1>0, <1>1, <1>4, <2>1, <2>3 DEF DropAcquire
  <2>. QED
    BY <2>2, <2>3
<1>5. ASSUME NEW n \in Amounts, TryAcquire(n) PROVE Goal
  BY <1>0, <1>5 DEF TryAcquire
<1>6. ASSUME NEW n \in Amounts, Release(n) PROVE Goal
  <2>1. n \in Nat
    BY SemaphoreAssumption
  <2>2. Outcome(permits, waiters, acq, permits', waiters', acq')
    BY <1>6, <2>1, ReleaseStepSound
  <2>3. waiters' = <<>>
    BY <1>0, <2>2, OutcomeEmpty
  <2>. QED
    BY <1>0, <1>6, <2>1, <2>3 DEF Release
<1>7. CASE Close
  BY <1>0, <1>7 DEF Close
<1>. HIDE DEF Goal
<1>. QED
  BY <1>2, <1>3, <1>4, <1>5, <1>6, <1>7 DEF Next

\* A closed semaphore stays closed, lets nobody wait and gives out no permit.
THEOREM CloseIsFinal == Spec => ClosedForGood
  BY Invariance, StepClosed, PTL DEF Spec, ClosedForGood
-----------------------------------------------------------------------------
(***************************************************************************)
(* Where the permits go: to the requests in the order of FairSemaphore,    *)
(* which SemaphoreInner implements, and none is lost.                      *)
(***************************************************************************)
(***************************************************************************)
(* The state of FairSemaphore as values, so that the state in the middle of*)
(* a step has one, too.                                                    *)
(***************************************************************************)
Ask(a, f) == [who |-> f, num |-> a[f].num]

LineOf(q, a) == [i \in DOMAIN q |-> Ask(a, q[i])]

PartOf(q, a) == IF q = <<>> THEN 0 ELSE a[q[1]].num - a[q[1]].remaining

IsGranted(r) == r.phase = "live" /\ r.queued /\ r.remaining = 0

GrantedOf(a) == {Ask(a, f) : f \in {g \in Futures : IsGranted(a[g])}}

Settled(have, l, g, p2, l2, g2) ==
    \E k \in 0..Len(l) : \E left \in [0..k -> 0..have] :
        /\ left[0] = have
        /\ \A i \in 1..k : left[i] = left[i-1] - l[i].num
        /\ k < Len(l) => left[k] < l[k+1].num
        /\ p2 = left[k]
        /\ l2 = SubSeq(l, k + 1, Len(l))
        /\ g2 = g \cup {l[i] : i \in 1..k}

SettledBy(rem, p, q, a, p2, q2, a2) ==
    Settled(p + rem + PartOf(q, a), LineOf(q, a), GrantedOf(a),
            p2 + PartOf(q2, a2), LineOf(q2, a2), GrantedOf(a2))

\* Nobody asks for more or for less, and who does not wait is left alone.
SameRequests(a, b) ==
    \A f \in Futures : /\ b[f].phase = a[f].phase
                       /\ b[f].num = a[f].num
                       /\ b[f].queued = a[f].queued
                       /\ ~a[f].queued => b[f] = a[f]

\* Only the first waiter has a part of what it needs.
OnlyFirstFed(q, a) ==
    \A i \in 2..Len(q) : a[q[i]].remaining = a[q[i]].num

\* A release settles the line, and gives parts to the first waiter alone.
LEMMA ReleaseSettles ==
    ASSUME NEW rem \in Nat, NEW avail, NEW q, NEW a,
           Sound(avail, FALSE, q, a), OnlyFirstFed(q, a),
           AddPermits(rem, avail, q, a)
    PROVE  /\ SettledBy(rem, avail, q, a, permits', waiters', acq')
           /\ OnlyFirstFed(waiters', acq')
           /\ SameRequests(a, acq')
<1>1. /\ avail \in Nat
      /\ q \in Seq(Futures)
      /\ a \in [Futures -> Future]
      /\ Distinct(q)
      /\ \A f \in Futures : f \in Range(q) <=> Short(a[f])
      /\ q # <<>> => avail = 0
      /\ \A f \in Futures : a[f].remaining <= a[f].num
  BY DEF Sound
<1>2. PICK k \in 0..Len(q) : \E left \in [0..k -> 0..rem] :
         /\ left[0] = rem
         /\ \A i \in 1..k : left[i] = left[i-1] - a[q[i]].remaining
         /\ k = Len(q) => permits' = avail + left[k]
         /\ k # Len(q) => left[k] < a[q[k+1]].remaining /\ permits' = avail
         /\ Grant(avail, q, a, k, left[k], permits', waiters', acq')
  BY DEF AddPermits, Grant
<1>3. PICK left \in [0..k -> 0..rem] :
         /\ left[0] = rem
         /\ \A i \in 1..k : left[i] = left[i-1] - a[q[i]].remaining
         /\ k = Len(q) => permits' = avail + left[k]
         /\ k # Len(q) => left[k] < a[q[k+1]].remaining /\ permits' = avail
         /\ Grant(avail, q, a, k, left[k], permits', waiters', acq')
  BY <1>2
<1>4. left[k] \in Nat
  OBVIOUS
<1>5. /\ waiters' \in Seq(Futures)
      /\ Len(waiters') = Len(q) - k
      /\ \A i \in 1..Len(q) - k : waiters'[i] = q[k + i]
      /\ Elementwise(q, a, k, left[k], acq')
  BY <1>1, <1>3, <1>4, GrantElements
<1>. DEFINE w == waiters'
            b == acq'
<1>. HIDE DEF w, b
<1>6. \A i \in 1..Len(q) : /\ q[i] \in Futures
                           /\ a[q[i]] \in Future
                           /\ Short(a[q[i]])
                           /\ a[q[i]].remaining <= a[q[i]].num
  <2>. TAKE i \in 1..Len(q)
  <2>1. q[i] \in Futures /\ q[i] \in Range(q)
    BY <1>1 DEF Range
  <2>. QED
    BY <1>1, <2>1
<1>7. /\ \A i \in 1..Len(q) : /\ b[q[i]].phase = a[q[i]].phase
                              /\ b[q[i]].num = a[q[i]].num
                              /\ b[q[i]].queued = a[q[i]].queued
                              /\ i <= k => b[q[i]].remaining = 0
                              /\ i = k + 1 => b[q[i]].remaining = a[q[i]].remaining - left[k]
                              /\ i > k + 1 => b[q[i]] = a[q[i]]
      /\ \A f \in Futures \ Range(q) : b[f] = a[f]
  BY <1>5 DEF Elementwise, b
<1>8. \A f \in Range(q) : \E i \in 1..Len(q) : q[i] = f
  BY <1>1 DEF Range
<1>9. SameRequests(a, b)
  <2>. SUFFICES ASSUME NEW f \in Futures
                PROVE  /\ b[f].phase = a[f].phase
                       /\ b[f].num = a[f].num
                       /\ b[f].queued = a[f].queued
                       /\ ~a[f].queued => b[f] = a[f]
    BY DEF SameRequests
  <2>1. CASE f \in Range(q)
    <3>1. PICK i \in 1..Len(q) : q[i] = f
      BY <1>8, <2>1
    <3>2. a[f].queued
      BY <1>1, <2>1 DEF Short
    <3>. QED
      BY <1>7, <3>1, <3>2
  <2>2. CASE f \notin Range(q)
    BY <1>7, <2>2
  <2>. QED
    BY <2>1, <2>2
<1>10. OnlyFirstFed(w, b)
  <2>. SUFFICES ASSUME NEW i \in 2..Len(w) PROVE b[w[i]].remaining = b[w[i]].num
    BY DEF OnlyFirstFed
  <2>1. /\ k + i \in 2..Len(q)
        /\ k + i > k + 1
        /\ w[i] = q[k + i]
    BY <1>1, <1>5 DEF w
  <2>2. b[q[k + i]] = a[q[k + i]]
    BY <1>7, <2>1
  <2>. QED
    BY <2>1, <2>2 DEF OnlyFirstFed
<1>. DEFINE have == avail + rem + PartOf(q, a)
            L == [i \in 0..k |-> IF i = 0 THEN have ELSE left[i]]
<1>11. /\ have \in Nat
       /\ have >= rem
       /\ q = <<>> => have = avail + rem
       /\ q # <<>> => have = rem + a[q[1]].num - a[q[1]].remaining
  <2>1. CASE q = <<>>
    BY <1>1, <2>1 DEF PartOf
  <2>2. CASE q # <<>>
    <3>1. a[q[1]] \in Future /\ a[q[1]].remaining <= a[q[1]].num
      BY <1>1, <1>6, <2>2, EmptySeq
    <3>. QED
      BY <1>1, <2>2, <3>1 DEF PartOf, Future
  <2>. QED
    BY <2>1, <2>2
<1>. HIDE DEF have
<1>12. /\ L \in [0..k -> 0..have]
       /\ L[0] = have
       /\ \A i \in 1..k : L[i] = left[i]
  <2>1. \A i \in 0..k : left[i] \in 0..rem
    OBVIOUS
  <2>. QED
    BY <1>11, <2>1
<1>. HIDE DEF L
<1>13. \A i \in 1..k : L[i] = L[i-1] - a[q[i]].num
  <2>. TAKE i \in 1..k
  <2>1. /\ a[q[i]] \in Future
        /\ L[i] = left[i]
        /\ left[i] = left[i-1] - a[q[i]].remaining
        /\ left[i] \in Nat
        /\ left[i-1] \in Nat
    BY <1>3, <1>6, <1>12
  <2>2. CASE i = 1
    <3>1. q # <<>>
      BY <1>1, <2>2, EmptySeq
    <3>2. left[0] = rem
      BY <1>3
    <3>. QED
      BY <1>11, <1>12, <2>1, <2>2, <3>1, <3>2 DEF Future
  <2>3. CASE i > 1
    <3>1. a[q[i]].remaining = a[q[i]].num
      BY <2>3 DEF OnlyFirstFed
    <3>2. L[i-1] = left[i-1]
      BY <1>12, <2>3
    <3>. QED
      BY <2>1, <3>1, <3>2
  <2>. QED
    BY <2>2, <2>3
\* What the loop has left belongs to the word or is a part of the first waiter.
<1>14. ASSUME k < Len(q)
       PROVE  /\ L[k] = a[q[k+1]].num - a[q[k+1]].remaining + left[k]
              /\ L[k] < a[q[k+1]].num
  <2>1. /\ a[q[k+1]] \in Future
        /\ left[k] < a[q[k+1]].remaining
        /\ left[k] \in Nat
    BY <1>3, <1>4, <1>6, <1>14
  <2>2. CASE k = 0
    <3>1. q # <<>>
      BY <1>1, <1>14, <2>2, EmptySeq
    <3>2. left[k] = rem /\ L[k] = have
      BY <1>3, <1>12, <2>2
    <3>. QED
      BY <1>11, <2>1, <2>2, <3>1, <3>2 DEF Future
  <2>3. CASE k > 0
    <3>1. a[q[k+1]].remaining = a[q[k+1]].num
      BY <1>14, <2>3 DEF OnlyFirstFed
    <3>2. L[k] = left[k]
      BY <1>12, <2>3
    <3>. QED
      BY <2>1, <3>1, <3>2 DEF Future
  <2>. QED
    BY <2>2, <2>3
<1>15. permits' + PartOf(w, b) = L[k]
  <2>1. CASE k = Len(q)
    <3>1. w = <<>>
      BY <1>1, <1>5, <2>1, EmptySeq DEF w
    <3>2. permits' = avail + left[k] /\ PartOf(w, b) = 0
      BY <1>3, <2>1, <3>1 DEF PartOf
    <3>3. CASE k = 0
      <4>1. q = <<>> /\ left[k] = rem /\ L[k] = have
        BY <1>1, <1>3, <1>12, <2>1, <3>3, EmptySeq
      <4>. QED
        BY <1>1, <1>11, <3>2, <4>1
    <3>4. CASE k > 0
      <4>1. avail = 0 /\ L[k] = left[k]
        BY <1>1, <1>12, <2>1, <3>4, EmptySeq
      <4>. QED
        BY <1>4, <3>2, <4>1
    <3>. QED
      BY <3>3, <3>4
  <2>2. CASE k < Len(q)
    <3>1. q # <<>> /\ permits' = 0
      BY <1>1, <1>3, <2>2, EmptySeq
    <3>2. w # <<>> /\ w[1] = q[k+1]
      BY <1>1, <1>5, <2>2, EmptySeq DEF w
    <3>3. /\ a[q[k+1]] \in Future
          /\ b[q[k+1]].num = a[q[k+1]].num
          /\ b[q[k+1]].remaining = a[q[k+1]].remaining - left[k]
      BY <1>6, <1>7, <2>2
    <3>4. PartOf(w, b) = a[q[k+1]].num - (a[q[k+1]].remaining - left[k])
      BY <3>2, <3>3 DEF PartOf
    <3>. QED
      BY <1>4, <1>14, <2>2, <3>1, <3>3, <3>4 DEF Future
  <2>. QED
    BY <2>1, <2>2
<1>. DEFINE l == LineOf(q, a)
<1>16. /\ l \in Seq([who : Futures, num : Nat])
       /\ Len(l) = Len(q)
       /\ \A i \in 1..Len(q) : l[i] = Ask(a, q[i]) /\ l[i].num = a[q[i]].num
  <2>1. l = [i \in 1..Len(q) |-> Ask(a, q[i])]
    BY <1>1 DEF LineOf
  <2>2. \A i \in 1..Len(q) : Ask(a, q[i]) \in [who : Futures, num : Nat]
    BY <1>6 DEF Ask, Future
  <2>3. l \in Seq([who : Futures, num : Nat])
    BY <1>1, <2>1, <2>2
  <2>4. Len(l) = Len(q)
    BY <1>1, <2>1
  <2>. QED
    BY <2>1, <2>3, <2>4 DEF Ask
<1>17. LineOf(w, b) = SubSeq(l, k + 1, Len(l))
  <2>1. LineOf(w, b) = [i \in 1..Len(q) - k |-> Ask(b, w[i])]
    <3>1. w \in Seq(Futures) /\ Len(w) = Len(q) - k
      BY <1>5 DEF w
    <3>2. DOMAIN w = 1..Len(q) - k
      BY <3>1
    <3>. QED
      BY <3>2 DEF LineOf
  <2>2. SubSeq(l, k + 1, Len(l)) = [i \in 1..Len(q) - k |-> l[k + i]]
    <3>. DEFINE s == SubSeq(l, k + 1, Len(l))
    <3>1. /\ s \in Seq([who : Futures, num : Nat])
          /\ Len(s) = Len(q) - k
          /\ \A i \in 1..Len(q) - k : s[i] = l[k + i]
      <4>. HIDE DEF l
      <4>1. k + 1 \in Int /\ Len(l) \in Int
        BY <1>1, <1>16
      <4>2. \A i \in k+1..Len(l) : l[i] \in [who : Futures, num : Nat]
        <5>. TAKE i \in k+1..Len(l)
        <5>1. i \in 1..Len(l)
          BY <1>1, <4>1
        <5>. QED
          BY <1>16, <5>1, ElementOfSeq
      <4>3. /\ s \in Seq([who : Futures, num : Nat])
            /\ Len(s) = IF k + 1 <= Len(l) THEN Len(l) - (k + 1) + 1 ELSE 0
            /\ \A i \in 1..Len(l) - (k + 1) + 1 : s[i] = l[k + 1 + i - 1]
        BY <4>1, <4>2, SubSeqProperties
      <4>. HIDE DEF s
      <4>. QED
        BY <1>1, <1>16, <4>3
    <3>. HIDE DEF s, l
    <3>2. s = [i \in 1..Len(s) |-> s[i]]
      BY <3>1
    <3>. QED
      BY <3>1, <3>2 DEF s
  <2>3. \A i \in 1..Len(q) - k : Ask(b, w[i]) = l[k + i]
    <3>. TAKE i \in 1..Len(q) - k
    <3>1. k + i \in 1..Len(q) /\ w[i] = q[k + i]
      BY <1>1, <1>5 DEF w
    <3>2. b[q[k + i]].num = a[q[k + i]].num
      BY <1>7, <3>1
    <3>. QED
      BY <1>16, <3>1, <3>2 DEF Ask
  <2>. QED
    BY <2>1, <2>2, <2>3
<1>18. GrantedOf(b) = GrantedOf(a) \cup {l[i] : i \in 1..k}
  <2>1. \A f \in Futures : Ask(b, f) = Ask(a, f)
    BY <1>9 DEF Ask, SameRequests
  <2>2. \A f \in Futures :
           IsGranted(b[f]) <=> IsGranted(a[f]) \/ \E i \in 1..k : q[i] = f
    <3>. TAKE f \in Futures
    <3>1. CASE f \in Range(q)
      <4>1. PICK i \in 1..Len(q) : q[i] = f
        BY <1>8, <3>1
      <4>2. a[f] \in Future /\ Short(a[f])
        BY <1>6, <4>1
      <4>3. ~IsGranted(a[f])
        BY <4>2 DEF Short, IsGranted, Future
      <4>4. \A j \in 1..Len(q) : q[j] = f => j = i
        BY <1>1, <4>1 DEF Distinct
      <4>5. CASE i <= k
        <5>1. b[f].phase = "live" /\ b[f].queued /\ b[f].remaining = 0
          BY <1>7, <4>1, <4>2, <4>5 DEF Short
        <5>. QED
          BY <4>1, <4>5, <5>1 DEF IsGranted
      <4>6. CASE i = k + 1
        <5>1. b[f].remaining = a[f].remaining - left[k] /\ left[k] < a[f].remaining
          BY <1>3, <1>7, <4>1, <4>6
        <5>2. b[f].remaining # 0
          BY <1>4, <4>2, <5>1 DEF Future
        <5>. QED
          BY <4>3, <4>4, <4>6, <5>2 DEF IsGranted
      <4>7. CASE i > k + 1
        <5>1. b[f] = a[f]
          BY <1>7, <4>1, <4>7
        <5>. QED
          BY <4>3, <4>4, <4>7, <5>1
      <4>. QED
        BY <4>5, <4>6, <4>7
    <3>2. CASE f \notin Range(q)
      <4>1. b[f] = a[f]
        BY <1>7, <3>2
      <4>2. ~\E i \in 1..k : q[i] = f
        BY <1>1, <3>2 DEF Range
      <4>. QED
        BY <4>1, <4>2
    <3>. QED
      BY <3>1, <3>2
  <2>. HIDE DEF l
  <2>3. \A i \in 1..k : l[i] = Ask(a, q[i]) /\ q[i] \in Futures
    BY <1>1, <1>6, <1>16
  <2>4. ASSUME NEW x \in GrantedOf(b) PROVE x \in GrantedOf(a) \cup {l[i] : i \in 1..k}
    <3>1. PICK f \in Futures : IsGranted(b[f]) /\ x = Ask(b, f)
      BY <2>4 DEF GrantedOf
    <3>. QED
      BY <2>1, <2>2, <2>3, <3>1 DEF GrantedOf
  <2>5. ASSUME NEW x \in GrantedOf(a) PROVE x \in GrantedOf(b)
    <3>1. PICK f \in Futures : IsGranted(a[f]) /\ x = Ask(a, f)
      BY <2>5 DEF GrantedOf
    <3>. QED
      BY <2>1, <2>2, <3>1 DEF GrantedOf
  <2>6. ASSUME NEW i \in 1..k PROVE l[i] \in GrantedOf(b)
    <3>1. q[i] \in Futures /\ IsGranted(b[q[i]]) /\ l[i] = Ask(b, q[i])
      BY <2>1, <2>2, <2>3
    <3>. QED
      BY <3>1 DEF GrantedOf
  <2>. QED
    BY <2>4, <2>5, <2>6
<1>19. Settled(have, l, GrantedOf(a), permits' + PartOf(w, b), LineOf(w, b), GrantedOf(b))
  <2>. HIDE DEF l
  <2>1. \A i \in 1..k : L[i] = L[i-1] - l[i].num
    BY <1>13, <1>16
  <2>2. k < Len(l) => L[k] < l[k+1].num
    BY <1>14, <1>16
  <2>3. k \in 0..Len(l)
    BY <1>16
  <2>. QED
    BY <1>12, <1>15, <1>17, <1>18, <2>1, <2>2, <2>3 DEF Settled
<1>. QED
  BY <1>9, <1>10, <1>19 DEF SettledBy, have, w, b
-----------------------------------------------------------------------------
(***************************************************************************)
(* What the mapping of SemaphoreInner to FairSemaphore depends on.         *)
(***************************************************************************)

\* A release changes nothing of a future but its need and its waker.
LEMMA ReleaseKeeps ==
    ASSUME NEW rem, NEW avail, NEW q, NEW a \in [Futures -> Future],
           AddPermits(rem, avail, q, a)
    PROVE  \A f \in Futures : acq'[f].phase = a[f].phase /\ acq'[f].num = a[f].num
<1>1. PICK k \in 0..Len(q) : \E left \in [0..k -> 0..rem] :
         acq' = [f \in Futures |->
            IF f \in Served(q, k)
            THEN Woken([a[f] EXCEPT !.remaining = 0])
            ELSE IF k < Len(q) /\ f = q[k+1]
            THEN [a[f] EXCEPT !.remaining = @ - left[k]]
            ELSE a[f]]
  BY DEF AddPermits
<1>2. PICK left \in [0..k -> 0..rem] :
         acq' = [f \in Futures |->
            IF f \in Served(q, k)
            THEN Woken([a[f] EXCEPT !.remaining = 0])
            ELSE IF k < Len(q) /\ f = q[k+1]
            THEN [a[f] EXCEPT !.remaining = @ - left[k]]
            ELSE a[f]]
  BY <1>1
<1>. DEFINE n == left[k]
<1>. HIDE DEF n
<1>. TAKE f \in Futures
<1>3. a[f] \in Future
  OBVIOUS
<1>4. \/ acq'[f] = Woken([a[f] EXCEPT !.remaining = 0])
      \/ acq'[f] = [a[f] EXCEPT !.remaining = @ - n]
      \/ acq'[f] = a[f]
  BY <1>2 DEF n
<1>. QED
  BY <1>3, <1>4 DEF Woken, Future

\* A release of nothing, or to nobody.
LEMMA AddNothing ==
    ASSUME NEW rem \in Nat, NEW avail, NEW q, NEW a,
           Sound(avail, FALSE, q, a), rem = 0 \/ q = <<>>,
           AddPermits(rem, avail, q, a)
    PROVE  permits' = avail + rem /\ waiters' = q /\ acq' = a
<1>1. /\ avail \in Nat
      /\ q \in Seq(Futures)
      /\ a \in [Futures -> Future]
      /\ \A f \in Range(q) : Short(a[f])
  BY RangeInSet DEF Sound
<1>2. PICK k \in 0..Len(q) : \E left \in [0..k -> 0..rem] :
         /\ left[0] = rem
         /\ \A i \in 1..k : left[i] = left[i-1] - a[q[i]].remaining
         /\ k = Len(q) => permits' = avail + left[k]
         /\ k # Len(q) => permits' = avail
         /\ Grant(avail, q, a, k, left[k], permits', waiters', acq')
  BY DEF AddPermits, Grant
<1>3. PICK left \in [0..k -> 0..rem] :
         /\ left[0] = rem
         /\ \A i \in 1..k : left[i] = left[i-1] - a[q[i]].remaining
         /\ k = Len(q) => permits' = avail + left[k]
         /\ k # Len(q) => permits' = avail
         /\ Grant(avail, q, a, k, left[k], permits', waiters', acq')
  BY <1>2
<1>4. k = 0
  <2>. SUFFICES ASSUME k # 0 PROVE FALSE
    OBVIOUS
  <2>1. 1 \in 1..k /\ 1 \in 1..Len(q) /\ q # <<>>
    BY <1>1, EmptySeq
  <2>2. a[q[1]] \in Future /\ a[q[1]].remaining > 0
    BY <1>1, <2>1 DEF Range, Short
  <2>3. left[1] = left[0] - a[q[1]].remaining /\ left[0] = 0 /\ left[1] \in 0..rem
    BY <1>3, <2>1
  <2>. QED
    BY <2>2, <2>3 DEF Future
<1>5. left[k] = rem
  BY <1>3, <1>4
<1>6. permits' = avail + rem
  <2>1. Len(q) # 0 => rem = 0
    BY <1>1, EmptySeq
  <2>. QED
    BY <1>1, <1>3, <1>4, <1>5, <2>1
<1>7. waiters' = q
  <2>1. waiters' = SubSeq(q, 1, Len(q))
    BY <1>3, <1>4 DEF Grant
  <2>. QED
    BY <1>1, <2>1, SubSeqFull
<1>8. acq' = a
  <2>1. Served(q, k) = {}
    BY <1>4 DEF Served
  <2>2. acq' = [f \in Futures |-> IF k < Len(q) /\ f = q[k + 1]
                                 THEN [a[f] EXCEPT !.remaining = @ - rem]
                                 ELSE a[f]]
    BY <1>3, <1>5, <2>1 DEF Grant
  <2>3. ASSUME NEW f \in Futures, k < Len(q)
        PROVE  [a[f] EXCEPT !.remaining = @ - rem] = a[f]
    <3>1. rem = 0 /\ a[f] \in Future
      BY <1>1, <1>4, <2>3, EmptySeq
    <3>2. a[f].remaining - rem = a[f].remaining
      BY <3>1 DEF Future
    <3>. QED
      BY <3>1, <3>2 DEF Future
  <2>4. acq' = [f \in Futures |-> a[f]]
    BY <2>2, <2>3
  <2>. QED
    BY <1>1, <2>4
<1>. QED
  BY <1>6, <1>7, <1>8

\* A change of a future that does not wait is not seen in the line.
LEMMA ChangeOne ==
    ASSUME NEW q \in Seq(Futures), NEW a \in [Futures -> Future],
           NEW f \in Futures, f \notin Range(q), NEW r
    PROVE  /\ LineOf(q, [a EXCEPT ![f] = r]) = LineOf(q, a)
           /\ PartOf(q, [a EXCEPT ![f] = r]) = PartOf(q, a)
           /\ OnlyFirstFed(q, a) => OnlyFirstFed(q, [a EXCEPT ![f] = r])
<1>. DEFINE b == [a EXCEPT ![f] = r]
<1>1. \A i \in 1..Len(q) : b[q[i]] = a[q[i]]
  <2>. TAKE i \in 1..Len(q)
  <2>1. q[i] \in Futures /\ q[i] # f
    BY DEF Range
  <2>. QED
    BY <2>1
<1>. HIDE DEF b
<1>2. LineOf(q, b) = LineOf(q, a)
  <2>1. DOMAIN q = 1..Len(q)
    OBVIOUS
  <2>. QED
    BY <1>1, <2>1 DEF LineOf, Ask
<1>3. PartOf(q, b) = PartOf(q, a)
  BY <1>1, EmptySeq DEF PartOf
<1>4. OnlyFirstFed(q, a) => OnlyFirstFed(q, b)
  BY <1>1 DEF OnlyFirstFed
<1>. QED
  BY <1>2, <1>3, <1>4 DEF b

\* A future that is replaced by one that is granted nothing.
LEMMA GrantedLess ==
    ASSUME NEW a \in [Futures -> Future], NEW f \in Futures, NEW r, ~IsGranted(r)
    PROVE  /\ IsGranted(a[f]) => Ask(a, f) \in GrantedOf(a)
           /\ GrantedOf([a EXCEPT ![f] = r]) =
                 IF IsGranted(a[f]) THEN GrantedOf(a) \ {Ask(a, f)} ELSE GrantedOf(a)
<1>. DEFINE b == [a EXCEPT ![f] = r]
<1>1. \A g \in Futures : b[g] = IF g = f THEN r ELSE a[g]
  OBVIOUS
<1>. HIDE DEF b
<1>2. \A g \in Futures : g # f => Ask(b, g) = Ask(a, g) /\ Ask(a, g) # Ask(a, f)
  BY <1>1 DEF Ask
<1>3. ASSUME NEW x \in GrantedOf(b) PROVE x \in GrantedOf(a) /\ x # Ask(a, f)
  <2>1. PICK g \in Futures : IsGranted(b[g]) /\ x = Ask(b, g)
    BY <1>3 DEF GrantedOf
  <2>2. g # f /\ IsGranted(a[g]) /\ x = Ask(a, g)
    BY <1>1, <1>2, <2>1
  <2>. QED
    BY <1>2, <2>2 DEF GrantedOf
<1>4. ASSUME NEW x \in GrantedOf(a), IsGranted(a[f]) => x # Ask(a, f)
      PROVE  x \in GrantedOf(b)
  <2>1. PICK g \in Futures : IsGranted(a[g]) /\ x = Ask(a, g)
    BY <1>4 DEF GrantedOf
  <2>2. g # f
    BY <1>4, <2>1
  <2>3. IsGranted(b[g]) /\ x = Ask(b, g)
    BY <1>1, <1>2, <2>1, <2>2
  <2>. QED
    BY <2>3 DEF GrantedOf
<1>5. GrantedOf(b) = IF IsGranted(a[f]) THEN GrantedOf(a) \ {Ask(a, f)} ELSE GrantedOf(a)
  BY <1>3, <1>4
<1>6. IsGranted(a[f]) => Ask(a, f) \in GrantedOf(a)
  BY DEF GrantedOf
<1>. QED
  BY <1>5, <1>6 DEF b

\* f, at position p of q, leaves it: w and b are the queue and the futures then.
LeftAt(p, f, q, a, w, b) ==
    /\ q[p] = f
    /\ LineOf(w, b) = SubSeq(LineOf(q, a), 1, p - 1)
                         \o SubSeq(LineOf(q, a), p + 1, Len(LineOf(q, a)))
    /\ OnlyFirstFed(q, a) => OnlyFirstFed(w, b)
    /\ p = 1 /\ OnlyFirstFed(q, a) => PartOf(w, b) = 0
    /\ p > 1 => PartOf(w, b) = PartOf(q, a)

LEMMA LineWithout ==
    ASSUME NEW q \in Seq(Futures), Distinct(q), NEW a \in [Futures -> Future],
           NEW f \in Range(q),
           NEW b \in [Futures -> Future], \A g \in Futures : g # f => b[g] = a[g]
    PROVE  \E p \in 1..Len(q) : LeftAt(p, f, q, a, Without(q, f), b)
<1>. DEFINE w == Without(q, f)
            l == LineOf(q, a)
            S == [who : Futures, num : Nat]
<1>1. PICK p \in 1..Len(q) + 1 :
         /\ p <= Len(q) => q[p] = f
         /\ p > Len(q) => f \notin Range(q)
         /\ w \in Seq(Futures)
         /\ Len(w) = IF p <= Len(q) THEN Len(q) - 1 ELSE Len(q)
         /\ \A i \in 1..Len(w) : w[i] = IF i < p THEN q[i] ELSE q[i + 1]
  BY WithoutShape
<1>2. p \in 1..Len(q) /\ q[p] = f /\ Len(w) = Len(q) - 1
  BY <1>1
<1>. HIDE DEF w
<1>3. \A i \in 1..Len(w) : /\ w[i] \in Futures
                           /\ w[i] # f
                           /\ b[w[i]] = a[w[i]]
                           /\ Ask(b, w[i]) = Ask(a, w[i])
  <2>. TAKE i \in 1..Len(w)
  <2>1. w[i] \in Futures
    BY <1>1
  <2>2. w[i] # f
    <3>0. \A j \in 1..Len(q) : q[j] = q[p] => j = p
      BY <1>2 DEF Distinct
    <3>1. CASE i < p
      BY <1>1, <1>2, <3>0, <3>1
    <3>2. CASE ~(i < p)
      BY <1>1, <1>2, <3>0, <3>2
    <3>. QED
      BY <3>1, <3>2
  <2>. QED
    BY <2>1, <2>2 DEF Ask
<1>4. /\ l \in Seq(S)
      /\ Len(l) = Len(q)
      /\ \A i \in 1..Len(q) : l[i] = Ask(a, q[i])
  <2>1. l = [i \in 1..Len(q) |-> Ask(a, q[i])]
    BY DEF LineOf
  <2>2. \A i \in 1..Len(q) : Ask(a, q[i]) \in S
    <3>. TAKE i \in 1..Len(q)
    <3>1. a[q[i]] \in Future /\ q[i] \in Futures
      OBVIOUS
    <3>. QED
      BY <3>1 DEF Ask, Future
  <2>. HIDE DEF l, S
  <2>. QED
    BY <2>1, <2>2
<1>. HIDE DEF l, S
<1>. DEFINE x == SubSeq(l, 1, p - 1)
            y == SubSeq(l, p + 1, Len(l))
<1>5. /\ x \in Seq(S)
      /\ Len(x) = p - 1
      /\ \A i \in 1..p-1 : x[i] = l[i]
  <2>1. \A i \in 1..p-1 : l[i] \in S
    BY <1>2, <1>4, ElementOfSeq
  <2>2. /\ x \in Seq(S)
        /\ Len(x) = IF 1 <= p - 1 THEN p - 1 - 1 + 1 ELSE 0
        /\ \A i \in 1..p - 1 - 1 + 1 : x[i] = l[1 + i - 1]
    BY <1>2, <2>1, SubSeqProperties
  <2>. HIDE DEF x
  <2>. QED
    BY <1>2, <2>2
<1>6. /\ y \in Seq(S)
      /\ Len(y) = Len(q) - p
      /\ \A i \in 1..Len(q)-p : y[i] = l[p + i]
  <2>0. Len(l) \in Int
    BY <1>4
  <2>1. \A i \in p+1..Len(l) : l[i] \in S
    BY <1>2, <1>4, ElementOfSeq
  <2>2. /\ y \in Seq(S)
        /\ Len(y) = IF p + 1 <= Len(l) THEN Len(l) - (p + 1) + 1 ELSE 0
        /\ \A i \in 1..Len(l) - (p + 1) + 1 : y[i] = l[p + 1 + i - 1]
    BY <1>2, <2>0, <2>1, SubSeqProperties
  <2>. HIDE DEF y
  <2>3. Len(y) = Len(q) - p
    BY <1>2, <1>4, <2>2
  <2>4. ASSUME NEW i \in 1..Len(q) - p PROVE y[i] = l[p + i]
    <3>1. i \in 1..Len(l) - (p + 1) + 1 /\ p + 1 + i - 1 = p + i
      BY <1>2, <1>4
    <3>. QED
      BY <2>2, <3>1
  <2>. QED
    BY <2>2, <2>3, <2>4
<1>. HIDE DEF x, y
<1>7. /\ x \o y \in Seq(S)
      /\ Len(x \o y) = Len(q) - 1
      /\ \A i \in 1..Len(q) - 1 : (x \o y)[i] = IF i < p THEN l[i] ELSE l[i + 1]
  <2>1. /\ x \o y \in Seq(S)
        /\ Len(x \o y) = Len(x) + Len(y)
        /\ \A i \in 1..Len(x) + Len(y) :
              (x \o y)[i] = IF i <= Len(x) THEN x[i] ELSE y[i - Len(x)]
    BY <1>5, <1>6, ConcatProperties
  <2>. DEFINE z == x \o y
              n == Len(q)
  <2>2. z \in Seq(S) /\ n \in Nat
    BY <2>1
  <2>. HIDE DEF z
  <2>3. /\ Len(z) = n - 1
        /\ \A i \in 1..n-1 : z[i] = IF i <= p - 1 THEN x[i] ELSE y[i - (p - 1)]
    BY <1>2, <1>5, <1>6, <2>1 DEF z
  <2>. HIDE DEF n
  <2>4. \A i \in 1..n-1 : z[i] = IF i < p THEN l[i] ELSE l[i + 1]
    <3>. TAKE i \in 1..n-1
    <3>1. p \in 1..n
      BY <1>2 DEF n
    <3>2. CASE i < p
      <4>1. i \in 1..p-1 /\ i <= p - 1
        BY <2>2, <3>1, <3>2
      <4>. QED
        BY <1>5, <2>3, <3>2, <4>1
    <3>3. CASE ~(i < p)
      <4>1. i - (p - 1) \in 1..n-p /\ ~(i <= p - 1) /\ p + (i - (p - 1)) = i + 1
        BY <2>2, <3>1, <3>3
      <4>. QED
        BY <1>6, <2>3, <3>3, <4>1 DEF n
    <3>. QED
      BY <3>2, <3>3
  <2>. QED
    BY <2>2, <2>3, <2>4 DEF z, n
<1>8. LineOf(w, b) = x \o y
  <2>. DEFINE z == x \o y
  <2>1. LineOf(w, b) = [i \in 1..Len(q) - 1 |-> Ask(b, w[i])]
    <3>1. DOMAIN w = 1..Len(q) - 1
      BY <1>1, <1>2
    <3>. QED
      BY <3>1 DEF LineOf
  <2>2. z = [i \in 1..Len(q) - 1 |-> z[i]]
    <3>. HIDE DEF z
    <3>1. z \in Seq(S) /\ Len(z) = Len(q) - 1
      BY <1>7 DEF z
    <3>. QED
      BY <3>1
  <2>3. \A i \in 1..Len(q) - 1 : Ask(b, w[i]) = z[i]
    <3>. TAKE i \in 1..Len(q) - 1
    <3>1. Ask(b, w[i]) = Ask(a, w[i]) /\ w[i] = IF i < p THEN q[i] ELSE q[i + 1]
      BY <1>1, <1>2, <1>3
    <3>2. z[i] = IF i < p THEN l[i] ELSE l[i + 1]
      BY <1>7
    <3>3. i \in 1..Len(q) /\ i + 1 \in 1..Len(q)
      BY <1>2
    <3>. QED
      BY <1>4, <3>1, <3>2, <3>3
  <2>. HIDE DEF z
  <2>4. LineOf(w, b) = z
    BY <2>1, <2>2, <2>3
  <2>. QED
    BY <2>4 DEF z
<1>9. p = 1 /\ OnlyFirstFed(q, a) => PartOf(w, b) = 0
  <2>. SUFFICES ASSUME p = 1, OnlyFirstFed(q, a), w # <<>> PROVE b[w[1]].num - b[w[1]].remaining = 0
    BY DEF PartOf
  <2>1. 1 \in 1..Len(w) /\ 2 \in 2..Len(q) /\ w[1] = q[2]
    BY <1>1, <1>2, EmptySeq
  <2>2. b[w[1]] = a[q[2]] /\ a[q[2]].remaining = a[q[2]].num /\ a[q[2]] \in Future
    BY <1>3, <2>1 DEF OnlyFirstFed
  <2>. QED
    BY <2>2 DEF Future
<1>10. p > 1 => PartOf(w, b) = PartOf(q, a)
  <2>. SUFFICES ASSUME p > 1 PROVE PartOf(w, b) = PartOf(q, a)
    OBVIOUS
  <2>1. 1 \in 1..Len(w) /\ w # <<>> /\ q # <<>> /\ w[1] = q[1]
    BY <1>1, <1>2, EmptySeq
  <2>. QED
    BY <1>3, <2>1 DEF PartOf
<1>11. OnlyFirstFed(q, a) => OnlyFirstFed(w, b)
  <2>. SUFFICES ASSUME OnlyFirstFed(q, a), NEW i \in 2..Len(w)
                PROVE  b[w[i]].remaining = b[w[i]].num
    BY DEF OnlyFirstFed
  <2>1. /\ i \in 1..Len(w)
        /\ (IF i < p THEN i ELSE i + 1) \in 2..Len(q)
        /\ w[i] = q[IF i < p THEN i ELSE i + 1]
    BY <1>1, <1>2
  <2>. QED
    BY <1>3, <2>1 DEF OnlyFirstFed
<1>. QED
  BY <1>2, <1>8, <1>9, <1>10, <1>11 DEF LeftAt, w, l, x, y
-----------------------------------------------------------------------------
(***************************************************************************)
(* The state of FairSemaphore, and its actions in terms of it.             *)
(***************************************************************************)
Pool == IF closed THEN 0 ELSE permits + PartOf(waiters, acq)
Line == LineOf(waiters, acq)
Grants == IF closed THEN {} ELSE GrantedOf(acq)

promiseVars ==
    <<IF closed THEN 0 ELSE permits + AssignedToFirst,
      [i \in DOMAIN waiters |-> RequestOf(waiters[i])],
      IF closed THEN {} ELSE {RequestOf(f) : f \in Granted},
      closed, balance>>

LEMMA Abstraction ==
    ASSUME waiters \in Seq(Futures)
    PROVE  /\ AssignedToFirst = PartOf(waiters, acq)
           /\ [i \in DOMAIN waiters |-> RequestOf(waiters[i])] = LineOf(waiters, acq)
           /\ {RequestOf(f) : f \in Granted} = GrantedOf(acq)
<1>1. AssignedToFirst = PartOf(waiters, acq)
  <2>1. waiters # <<>> => Head(waiters) = waiters[1]
    OBVIOUS
  <2>. QED
    BY <2>1 DEF AssignedToFirst, PartOf
<1>2. {RequestOf(f) : f \in Granted} = GrantedOf(acq)
  BY DEF RequestOf, Granted, GrantedOf, IsGranted, Ask
<1>. QED
  BY <1>1, <1>2 DEF RequestOf, LineOf, Ask

LEMMA AbstractionPrime ==
    ASSUME waiters' \in Seq(Futures)
    PROVE  /\ AssignedToFirst' = PartOf(waiters', acq')
           /\ [i \in DOMAIN waiters |-> RequestOf(waiters[i])]' = LineOf(waiters', acq')
           /\ {RequestOf(f) : f \in Granted}' = GrantedOf(acq')
<1>1. AssignedToFirst' = PartOf(waiters', acq')
  <2>. DEFINE w == waiters'
  <2>1. w # <<>> => Head(w) = w[1]
    <3>1. w \in Seq(Futures)
      OBVIOUS
    <3>. HIDE DEF w
    <3>. QED
      BY <3>1
  <2>. QED
    BY <2>1 DEF AssignedToFirst, PartOf
<1>2. {RequestOf(f) : f \in Granted}' = GrantedOf(acq')
  BY DEF RequestOf, Granted, GrantedOf, IsGranted, Ask
<1>. QED
  BY <1>1, <1>2 DEF RequestOf, LineOf, Ask

LEMMA AsPromise ==
    ASSUME waiters \in Seq(Futures), waiters' \in Seq(Futures)
    PROVE  /\ promiseVars = <<Pool, Line, Grants, closed, balance>>
           /\ promiseVars' = <<Pool', Line', Grants', closed', balance'>>
  BY Abstraction, AbstractionPrime DEF promiseVars, Pool, Line, Grants

LEMMA SettleStep ==
    ASSUME waiters \in Seq(Futures), waiters' \in Seq(Futures), ~closed',
           NEW have, NEW l, NEW g,
           Settled(have, l, g, permits' + PartOf(waiters', acq'),
                   LineOf(waiters', acq'), GrantedOf(acq'))
    PROVE  Promise!Settle(have, l, g)
  BY AbstractionPrime DEF Settled, Promise!Settle

LEMMA TakeStep ==
    ASSUME waiters \in Seq(Futures), waiters' \in Seq(Futures),
           NEW n \in Amounts, ~closed, ~closed',
           n = 0 \/ Line = <<>>, n <= Pool,
           Pool' = Pool - n, balance' = balance - n,
           UNCHANGED <<Line, Grants, closed>>
    PROVE  Promise!Next
<1>1. Promise!Take(n)
  BY Abstraction, AbstractionPrime DEF Promise!Take, Pool, Line, Grants
<1>. QED
  BY <1>1 DEF Promise!Next

LEMMA JoinStep ==
    ASSUME waiters \in Seq(Futures), waiters' \in Seq(Futures),
           NEW f \in Futures, acq[f].num \in Amounts, ~closed, ~closed',
           acq[f].num > 0, Line = <<>> => Pool < acq[f].num,
           Line' = Append(Line, Ask(acq, f)),
           UNCHANGED <<Pool, Grants, closed, balance>>
    PROVE  Promise!Next
<1>1. Ask(acq, f) \in Promise!Request /\ Ask(acq, f).num = acq[f].num
  BY DEF Ask, Promise!Request
<1>2. Promise!Join(Ask(acq, f))
  BY <1>1, Abstraction, AbstractionPrime DEF Promise!Join, Pool, Line, Grants
<1>. QED
  BY <1>1, <1>2 DEF Promise!Next

LEMMA CollectStep ==
    ASSUME waiters \in Seq(Futures), waiters' \in Seq(Futures),
           NEW f \in Futures, acq[f].num \in Amounts, ~closed, ~closed',
           Ask(acq, f) \in Grants, Grants' = Grants \ {Ask(acq, f)},
           balance' = balance - acq[f].num,
           UNCHANGED <<Pool, Line, closed>>
    PROVE  Promise!Next
<1>1. Ask(acq, f) \in Promise!Request /\ Ask(acq, f).num = acq[f].num
  BY DEF Ask, Promise!Request
<1>2. Promise!Collect(Ask(acq, f))
  BY <1>1, Abstraction, AbstractionPrime DEF Promise!Collect, Pool, Line, Grants
<1>. QED
  BY <1>1, <1>2 DEF Promise!Next

LEMMA LeaveStep ==
    ASSUME waiters \in Seq(Futures), waiters' \in Seq(Futures), ~closed, ~closed',
           NEW p \in 1..Len(waiters),
           Settled(Pool, SubSeq(Line, 1, p - 1) \o SubSeq(Line, p + 1, Len(Line)),
                   Grants, Pool', Line', Grants'),
           UNCHANGED <<closed, balance>>
    PROVE  Promise!Next
<1>. DEFINE l == SubSeq(Line, 1, p - 1) \o SubSeq(Line, p + 1, Len(Line))
<1>1. Promise!Settle(Pool, l, Grants)
  <2>. HIDE DEF l
  <2>1. Settled(Pool, l, Grants, permits' + PartOf(waiters', acq'),
                LineOf(waiters', acq'), GrantedOf(acq'))
    BY DEF Pool, Line, Grants, l
  <2>. QED
    BY <2>1, SettleStep
<1>2. Promise!Leave(p)
  BY <1>1, Abstraction DEF Promise!Leave, Pool, Line, Grants
<1>3. p \in DOMAIN Line
  BY DEF Line, LineOf
<1>. QED
  BY <1>2, <1>3, Abstraction DEF Promise!Next, Line

LEMMA GiveBackStep ==
    ASSUME waiters \in Seq(Futures), waiters' \in Seq(Futures), ~closed, ~closed',
           NEW f \in Futures, acq[f].num \in Amounts,
           Ask(acq, f) \in Grants,
           Settled(Pool + acq[f].num, Line, Grants \ {Ask(acq, f)}, Pool', Line', Grants'),
           UNCHANGED <<closed, balance>>
    PROVE  Promise!Next
<1>1. Ask(acq, f) \in Promise!Request /\ Ask(acq, f).num = acq[f].num
  BY DEF Ask, Promise!Request
<1>2. Promise!Settle(Pool + acq[f].num, Line, Grants \ {Ask(acq, f)})
  <2>. DEFINE have == Pool + acq[f].num
              g == Grants \ {Ask(acq, f)}
  <2>1. Settled(have, Line, g, permits' + PartOf(waiters', acq'),
                LineOf(waiters', acq'), GrantedOf(acq'))
    BY DEF Pool, Line, Grants
  <2>. HIDE DEF have, g
  <2>2. Promise!Settle(have, Line, g)
    BY <2>1, SettleStep
  <2>. QED
    BY <2>2 DEF have, g
<1>3. Promise!GiveBack(Ask(acq, f))
  BY <1>1, <1>2, Abstraction DEF Promise!GiveBack, Pool, Line, Grants
<1>. QED
  BY <1>1, <1>3 DEF Promise!Next

LEMMA PutStep ==
    ASSUME waiters \in Seq(Futures), waiters' \in Seq(Futures), NEW n \in Amounts,
           IF closed THEN UNCHANGED <<Pool, Line, Grants>>
                     ELSE Settled(Pool + n, Line, Grants, Pool', Line', Grants'),
           closed \in BOOLEAN, UNCHANGED closed, balance' = balance + n
    PROVE  Promise!Next
<1>1. Promise!Put(n)
  <2>1. CASE closed
    BY <2>1, Abstraction, AbstractionPrime DEF Promise!Put, Pool, Line, Grants
  <2>2. CASE ~closed
    <3>. DEFINE have == Pool + n
    <3>1. Settled(have, Line, Grants, permits' + PartOf(waiters', acq'),
                  LineOf(waiters', acq'), GrantedOf(acq'))
      BY <2>2 DEF Pool, Line, Grants
    <3>. HIDE DEF have
    <3>2. Promise!Settle(have, Line, Grants)
      BY <2>2, <3>1, SettleStep
    <3>. QED
      BY <2>2, <3>2, Abstraction DEF Promise!Put, Pool, Line, Grants, have
  <2>. QED
    BY <2>1, <2>2
<1>. QED
  BY <1>1 DEF Promise!Next

LEMMA CloseStep ==
    ASSUME waiters \in Seq(Futures), waiters' \in Seq(Futures),
           closed' = TRUE, Line' = <<>>, UNCHANGED balance
    PROVE  Promise!Next
<1>1. Promise!Close
  BY AbstractionPrime DEF Promise!Close, Line
<1>. QED
  BY <1>1 DEF Promise!Next
-----------------------------------------------------------------------------
(***************************************************************************)
(* The invariant under which SemaphoreInner takes only steps that          *)
(* FairSemaphore allows: what a future asked for is known of each, and a   *)
(* future has failed only if the semaphore is closed.                      *)
(***************************************************************************)
Request(c, r) ==
    /\ ~r.queued => r.remaining = r.num
    /\ r.phase = "none" => ~r.queued
    /\ r.phase = "failed" => c
    /\ r.phase # "none" => r.num \in Amounts

Requested(c, a) == \A f \in Futures : Request(c, a[f])

FairInv ==
    /\ IndInv
    /\ OnlyFirstFed(waiters, acq)
    /\ Requested(closed, acq)

FairStep ==
    /\ OnlyFirstFed(waiters', acq')
    /\ Requested(closed', acq')
    /\ Promise!Next \/ UNCHANGED promiseVars

\* FairInv, taken apart.
LEMMA FairFacts ==
    ASSUME FairInv
    PROVE  /\ Sound(permits, closed, waiters, acq)
           /\ balance \in Int
           /\ permits \in Nat
           /\ closed \in BOOLEAN
           /\ waiters \in Seq(Futures)
           /\ acq \in [Futures -> Future]
           /\ Distinct(waiters)
           /\ \A f \in Futures : f \in Range(waiters) <=> Short(acq[f]) /\ ~closed
           /\ waiters # <<>> => permits = 0
           /\ \A f \in Futures : acq[f].remaining <= acq[f].num
           /\ OnlyFirstFed(waiters, acq)
           /\ Requested(closed, acq)
  BY IndInvSound DEF FairInv, Sound

LEMMA PoolFacts ==
    ASSUME FairInv
    PROVE  /\ PartOf(waiters, acq) \in Nat
           /\ Line = <<>> <=> waiters = <<>>
<1>1. /\ waiters \in Seq(Futures)
      /\ acq \in [Futures -> Future]
      /\ \A f \in Futures : acq[f].remaining <= acq[f].num
  BY FairFacts
<1>2. PartOf(waiters, acq) \in Nat
  <2>. SUFFICES ASSUME waiters # <<>> PROVE acq[waiters[1]].num - acq[waiters[1]].remaining \in Nat
    BY DEF PartOf
  <2>1. waiters[1] \in Futures
    BY <1>1, EmptySeq
  <2>2. acq[waiters[1]] \in Future /\ acq[waiters[1]].remaining <= acq[waiters[1]].num
    BY <1>1, <2>1
  <2>. QED
    BY <2>2 DEF Future
<1>3. Line = <<>> <=> waiters = <<>>
  <2>1. waiters = <<>> => Line = <<>>
    BY DEF Line, LineOf
  <2>2. DOMAIN Line = DOMAIN waiters
    BY DEF Line, LineOf
  <2>3. Line = <<>> => DOMAIN waiters = {}
    BY <2>2
  <2>. QED
    BY <1>1, <2>1, <2>3, EmptySeq
<1>. QED
  BY <1>2, <1>3

LEMMA RequestNone == ~NoFuture.queued /\ \A c \in BOOLEAN : Request(c, NoFuture)
  BY DEF NoFuture, Request

\* A change of one future.
LEMMA ChangeRequested ==
    ASSUME NEW c, NEW a \in [Futures -> Future], Requested(c, a),
           NEW f \in Futures, NEW r, Request(c, r)
    PROVE  Requested(c, [a EXCEPT ![f] = r])
<1>. DEFINE b == [a EXCEPT ![f] = r]
<1>1. \A g \in Futures : b[g] = IF g = f THEN r ELSE a[g]
  OBVIOUS
<1>. HIDE DEF b
<1>2. Requested(c, b)
  BY <1>1 DEF Requested
<1>. QED
  BY <1>2 DEF b

\* Releases keep to it, since the need of who is not queued does not change.
LEMMA KeepRequested ==
    ASSUME NEW c, NEW a, NEW b, Requested(c, a), SameRequests(a, b)
    PROVE  Requested(c, b)
  BY DEF Requested, Request, SameRequests

\* In a closed semaphore, nothing is left of what FairSemaphore speaks of.
LEMMA ClosedStutter ==
    ASSUME FairInv, Next, closed, balance' = balance, Requested(closed, acq')
    PROVE  FairStep
<1>1. waiters = <<>>
  <2>1. Range(waiters) = {} /\ waiters \in Seq(Futures)
    BY FairFacts, RangeInSet
  <2>. QED
    BY <2>1, EmptyRange
<1>2. closed' /\ waiters' = <<>>
  BY <1>1, StepClosed DEF FairInv, vars
<1>3. closed' = closed
  <2>1. closed' \in BOOLEAN
    BY StepSound, IndInvSoundPrime DEF FairInv, Sound
  <2>. QED
    BY <1>2, <2>1, FairFacts
<1>4. <<>> \in Seq(Futures)
  BY EmptySeq
<1>5. Pool' = Pool /\ Line' = Line /\ Grants' = Grants
  BY <1>1, <1>2, <1>3 DEF Pool, Line, Grants, LineOf
<1>6. UNCHANGED promiseVars
  BY <1>1, <1>2, <1>3, <1>4, <1>5, AsPromise
<1>7. OnlyFirstFed(waiters', acq')
  BY <1>2, EmptySeq DEF OnlyFirstFed
<1>. QED
  BY <1>3, <1>6, <1>7 DEF FairStep

\* Changes that no need and no grant can be seen in.
LEMMA SameNeeds ==
    ASSUME NEW q \in Seq(Futures), NEW a, NEW b,
           \A f \in Futures : /\ b[f].num = a[f].num
                              /\ b[f].remaining = a[f].remaining
                              /\ IsGranted(b[f]) <=> IsGranted(a[f])
    PROVE  /\ LineOf(q, b) = LineOf(q, a)
           /\ PartOf(q, b) = PartOf(q, a)
           /\ GrantedOf(b) = GrantedOf(a)
           /\ OnlyFirstFed(q, a) => OnlyFirstFed(q, b)
<1>1. \A i \in 1..Len(q) : q[i] \in Futures
  OBVIOUS
<1>2. LineOf(q, b) = LineOf(q, a)
  <2>1. DOMAIN q = 1..Len(q)
    OBVIOUS
  <2>. QED
    BY <1>1, <2>1 DEF LineOf, Ask
<1>3. PartOf(q, b) = PartOf(q, a)
  BY <1>1, EmptySeq DEF PartOf
<1>4. GrantedOf(b) = GrantedOf(a)
  BY DEF GrantedOf, Ask
<1>5. OnlyFirstFed(q, a) => OnlyFirstFed(q, b)
  BY <1>1 DEF OnlyFirstFed
<1>. QED
  BY <1>2, <1>3, <1>4, <1>5

LEMMA FairAcquire ==
    ASSUME FairInv, NEW f \in Futures, NEW n \in Amounts, Acquire(f, n)
    PROVE  FairStep
<1>1. /\ waiters \in Seq(Futures)
      /\ acq \in [Futures -> Future]
      /\ closed \in BOOLEAN
      /\ f \notin Range(waiters)
      /\ ~IsGranted(acq[f])
      /\ OnlyFirstFed(waiters, acq)
      /\ Requested(closed, acq)
  BY FairFacts DEF Acquire, Short, IsGranted
<1>2. /\ acq' = [acq EXCEPT ![f] = NewFuture(n)]
      /\ UNCHANGED <<permits, closed, waiters, balance>>
  BY DEF Acquire
<1>3. /\ Request(closed, NewFuture(n))
      /\ ~IsGranted(NewFuture(n))
  <2>1. n \in Nat
    BY SemaphoreAssumption
  <2>2. /\ NewFuture(n).queued = FALSE
        /\ NewFuture(n).phase = "live"
        /\ NewFuture(n).num = n
        /\ NewFuture(n).remaining = n
    BY DEF NewFuture, NoFuture
  <2>. QED
    BY <2>2 DEF Request, IsGranted
<1>4. /\ LineOf(waiters, acq') = LineOf(waiters, acq)
      /\ PartOf(waiters, acq') = PartOf(waiters, acq)
      /\ OnlyFirstFed(waiters, acq')
  BY <1>1, <1>2, ChangeOne
<1>5. GrantedOf(acq') = GrantedOf(acq)
  BY <1>1, <1>2, <1>3, GrantedLess
<1>6. Requested(closed, acq')
  BY <1>1, <1>2, <1>3, ChangeRequested
<1>7. Pool' = Pool /\ Line' = Line /\ Grants' = Grants
  BY <1>2, <1>4, <1>5 DEF Pool, Line, Grants
<1>8. UNCHANGED promiseVars
  BY <1>1, <1>2, <1>7, AsPromise
<1>. QED
  BY <1>2, <1>4, <1>6, <1>8 DEF FairStep

LEMMA FairPollClosed ==
    ASSUME FairInv, NEW f \in Futures, PollClosed(f)
    PROVE  FairStep
<1>. DEFINE r == [acq[f] EXCEPT !.phase = "failed", !.notified = FALSE]
<1>1. /\ acq \in [Futures -> Future]
      /\ closed
      /\ balance' = balance
      /\ Requested(closed, acq)
      /\ acq' = [acq EXCEPT ![f] = r]
      /\ acq[f] \in Future
      /\ acq[f].phase = "live"
  BY FairFacts DEF PollClosed, Future
<1>2. Request(closed, acq[f])
  BY <1>1 DEF Requested
<1>3. Request(closed, r)
  BY <1>1, <1>2 DEF Request, Future
<1>. HIDE DEF r
<1>4. Requested(closed, acq')
  BY <1>1, <1>3, ChangeRequested
<1>5. Next
  BY DEF Next, Poll
<1>. QED
  BY <1>1, <1>4, <1>5, ClosedStutter

LEMMA FairPollFast ==
    ASSUME FairInv, NEW f \in Futures, PollFast(f)
    PROVE  FairStep
<1>1. /\ waiters \in Seq(Futures)
      /\ acq \in [Futures -> Future]
      /\ closed \in BOOLEAN
      /\ permits \in Nat
      /\ waiters # <<>> => permits = 0
      /\ f \notin Range(waiters)
      /\ ~IsGranted(acq[f])
      /\ OnlyFirstFed(waiters, acq)
      /\ Requested(closed, acq)
      /\ acq[f].num \in Nat
      /\ acq[f].phase = "live"
  BY FairFacts DEF PollFast, Short, IsGranted, Future
<1>2. /\ acq' = [acq EXCEPT ![f] = NoFuture]
      /\ permits >= acq[f].num
      /\ permits' = permits - acq[f].num
      /\ balance' = balance - acq[f].num
      /\ ~closed
      /\ UNCHANGED <<closed, waiters>>
  BY DEF PollFast
<1>3. ~IsGranted(NoFuture)
  BY DEF IsGranted, NoFuture
<1>4. /\ LineOf(waiters, acq') = LineOf(waiters, acq)
      /\ PartOf(waiters, acq') = PartOf(waiters, acq)
      /\ OnlyFirstFed(waiters, acq')
  BY <1>1, <1>2, ChangeOne
<1>5. GrantedOf(acq') = GrantedOf(acq)
  BY <1>1, <1>2, <1>3, GrantedLess
<1>6. Requested(closed, acq')
  BY <1>1, <1>2, RequestNone, ChangeRequested
<1>. DEFINE n == acq[f].num
            part == PartOf(waiters, acq)
<1>7. n \in Amounts /\ n \in Nat
  BY <1>1 DEF Requested, Request
<1>8. part \in Nat
  BY PoolFacts
<1>9. /\ Pool = permits + part
      /\ Pool' = permits - n + part
      /\ Line' = Line /\ Grants' = Grants
      /\ Line = <<>> <=> waiters = <<>>
  BY <1>2, <1>4, <1>5, PoolFacts DEF Pool, Line, Grants
<1>. HIDE DEF n, part
<1>10. /\ n = 0 \/ Line = <<>>
       /\ n <= Pool
       /\ Pool' = Pool - n
       /\ balance' = balance - n
  BY <1>1, <1>2, <1>7, <1>8, <1>9 DEF n
<1>11. Promise!Next
  BY <1>1, <1>2, <1>7, <1>9, <1>10, TakeStep
<1>. QED
  BY <1>2, <1>4, <1>6, <1>11 DEF FairStep

LEMMA FairTryAcquire ==
    ASSUME FairInv, NEW n \in Amounts, TryAcquire(n)
    PROVE  FairStep
<1>1. /\ waiters \in Seq(Futures)
      /\ permits \in Nat
      /\ waiters # <<>> => permits = 0
      /\ OnlyFirstFed(waiters, acq)
      /\ Requested(closed, acq)
  BY FairFacts
<1>2. /\ permits >= n
      /\ permits' = permits - n
      /\ balance' = balance - n
      /\ ~closed
      /\ UNCHANGED <<closed, waiters, acq>>
  BY DEF TryAcquire
<1>3. n \in Nat
  BY SemaphoreAssumption
<1>. DEFINE part == PartOf(waiters, acq)
<1>4. part \in Nat /\ (Line = <<>> <=> waiters = <<>>)
  BY PoolFacts
<1>5. /\ Pool = permits + part
      /\ Pool' = permits - n + part
      /\ Line' = Line /\ Grants' = Grants
  BY <1>2 DEF Pool, Line, Grants
<1>. HIDE DEF part
<1>6. (n = 0 \/ Line = <<>>) /\ n <= Pool /\ Pool' = Pool - n
  BY <1>1, <1>2, <1>3, <1>4, <1>5
<1>7. Promise!Next
  BY <1>1, <1>2, <1>5, <1>6, TakeStep
<1>. QED
  BY <1>1, <1>2, <1>7 DEF FairStep

\* What is in the word goes to the caller, beside what it has been assigned.
LEMMA FairPollAssigned ==
    ASSUME FairInv, NEW f \in Futures, PollAssigned(f)
    PROVE  FairStep
<1>. DEFINE a == [acq EXCEPT ![f] = NoFuture]
            n == acq[f].num
<1>1. /\ Sound(permits, closed, waiters, acq)
      /\ waiters \in Seq(Futures)
      /\ Distinct(waiters)
      /\ acq \in [Futures -> Future]
      /\ permits \in Nat
      /\ waiters # <<>> => permits = 0
      /\ OnlyFirstFed(waiters, acq)
      /\ Requested(closed, acq)
      /\ acq[f].remaining \in Nat
  BY FairFacts DEF Future
<1>2. /\ acq[f].phase = "live"
      /\ acq[f].queued
      /\ ~closed /\ closed = FALSE
      /\ permits >= acq[f].remaining
      /\ closed' = FALSE
      /\ AddPermits(permits - acq[f].remaining, 0, waiters, a)
      /\ balance' = balance - n
  BY FairFacts DEF PollAssigned
<1>3. f \notin Range(waiters) /\ acq[f].remaining = 0
  <2>1. waiters = <<>> => Range(waiters) = {}
    BY DEF Range
  <2>2. f \in Range(waiters) <=> acq[f].remaining > 0
    BY <1>2, FairFacts DEF Short
  <2>. QED
    BY <1>1, <1>2, <2>1, <2>2
<1>4. IsGranted(acq[f]) /\ ~IsGranted(NoFuture)
  BY <1>2, <1>3 DEF IsGranted, NoFuture
<1>5. Sound(0, FALSE, waiters, a)
  <2>1. Range(waiters) = Range(waiters) \ {f}
    BY <1>3
  <2>. QED
    BY <1>1, <1>2, <2>1, ForgetSound
<1>6. permits' = permits /\ waiters' = waiters /\ acq' = a
  <2>. HIDE DEF a
  <2>1. AddPermits(permits, 0, waiters, a)
    BY <1>1, <1>2, <1>3
  <2>2. permits' = 0 + permits /\ waiters' = waiters /\ acq' = a
    BY <1>1, <1>5, <2>1, AddNothing
  <2>. QED
    BY <1>1, <2>2
<1>7. /\ LineOf(waiters, acq') = LineOf(waiters, acq)
      /\ PartOf(waiters, acq') = PartOf(waiters, acq)
      /\ OnlyFirstFed(waiters, acq')
  BY <1>1, <1>3, <1>6, ChangeOne
<1>8. /\ GrantedOf(acq') = GrantedOf(acq) \ {Ask(acq, f)}
      /\ Ask(acq, f) \in GrantedOf(acq)
  BY <1>1, <1>4, <1>6, GrantedLess
<1>9. Requested(closed', acq')
  BY <1>1, <1>2, <1>6, RequestNone, ChangeRequested
<1>10. n \in Amounts
  BY <1>1, <1>2 DEF Requested, Request
<1>. HIDE DEF a
<1>11. /\ Pool' = Pool /\ Line' = Line
       /\ Grants' = Grants \ {Ask(acq, f)}
       /\ Ask(acq, f) \in Grants
  BY <1>2, <1>6, <1>7, <1>8 DEF Pool, Line, Grants
<1>12. Promise!Next
  BY <1>1, <1>2, <1>6, <1>10, <1>11, CollectStep
<1>. QED
  BY <1>6, <1>7, <1>9, <1>12 DEF FairStep

LEMMA FairClose ==
    ASSUME FairInv, Close
    PROVE  FairStep
<1>1. /\ acq \in [Futures -> Future]
      /\ waiters \in Seq(Futures)
      /\ Requested(closed, acq)
  BY FairFacts
<1>2. /\ acq' = [f \in Futures |->
                   IF f \in Range(waiters) THEN Woken(acq[f]) ELSE acq[f]]
      /\ closed' = TRUE
      /\ waiters' = <<>>
      /\ UNCHANGED balance
  BY DEF Close
<1>3. Requested(closed', acq')
  <2>. SUFFICES ASSUME NEW f \in Futures PROVE Request(TRUE, acq'[f])
    BY <1>2 DEF Requested
  <2>1. acq[f] \in Future /\ Request(closed, acq[f])
    BY <1>1 DEF Requested
  <2>2. /\ acq'[f].queued = acq[f].queued
        /\ acq'[f].num = acq[f].num
        /\ acq'[f].remaining = acq[f].remaining
        /\ acq'[f].phase = acq[f].phase
    <3>1. CASE f \in Range(waiters)
      <4>1. acq'[f] = Woken(acq[f])
        BY <1>2, <3>1
      <4>. QED
        BY <2>1, <4>1 DEF Woken, Future
    <3>2. CASE f \notin Range(waiters)
      BY <1>2, <3>2
    <3>. QED
      BY <3>1, <3>2
  <2>. QED
    BY <2>1, <2>2 DEF Request
<1>4. Line' = <<>> /\ waiters' \in Seq(Futures)
  BY <1>2, EmptySeq DEF Line, LineOf
<1>5. OnlyFirstFed(waiters', acq')
  BY <1>2, EmptySeq DEF OnlyFirstFed
<1>. QED
  BY <1>1, <1>2, <1>3, <1>4, <1>5, CloseStep DEF FairStep

LEMMA FairRelease ==
    ASSUME FairInv, NEW n \in Amounts, Release(n)
    PROVE  FairStep
<1>1. /\ Sound(permits, closed, waiters, acq)
      /\ waiters \in Seq(Futures)
      /\ closed \in BOOLEAN
      /\ permits \in Nat
      /\ OnlyFirstFed(waiters, acq)
      /\ Requested(closed, acq)
  BY FairFacts
<1>2. /\ AddPermits(n, permits, waiters, acq)
      /\ balance' = balance + n
      /\ closed' = closed
      /\ n \in Nat
  BY SemaphoreAssumption DEF Release
<1>3. waiters' \in Seq(Futures)
  BY <1>2, ReleaseStepSound, IndInvSoundPrime DEF FairInv, Sound
<1>4. CASE closed
  <2>1. waiters = <<>> /\ waiters' = <<>>
    <3>1. Range(waiters) = {}
      BY <1>1, <1>4, FairFacts, RangeInSet
    <3>2. waiters = <<>>
      BY <1>1, <3>1, EmptyRange
    <3>3. Outcome(permits, waiters, acq, permits', waiters', acq')
      BY <1>2, ReleaseStepSound DEF FairInv
    <3>. QED
      BY <3>1, <3>2, <3>3, OutcomeEmpty
  <2>2. acq' = acq
    <3>1. Outcome(permits, waiters, acq, permits', waiters', acq')
      BY <1>2, ReleaseStepSound DEF FairInv
    <3>2. Range(waiters) = {}
      BY <2>1 DEF Range
    <3>3. acq' \in [Futures -> Future] /\ acq \in [Futures -> Future]
      BY <3>1, FairFacts DEF Outcome
    <3>4. \A f \in Futures : acq'[f] = acq[f]
      BY <3>1, <3>2 DEF Outcome
    <3>. QED
      BY <3>3, <3>4
  <2>3. UNCHANGED <<Pool, Line, Grants>>
    BY <1>2, <1>4, <2>1, <2>2 DEF Pool, Line, Grants
  <2>4. Promise!Next
    BY <1>1, <1>2, <1>3, <1>4, <2>3, PutStep
  <2>. QED
    BY <1>1, <1>2, <2>1, <2>2, <2>4 DEF FairStep
<1>5. CASE ~closed
  <2>0. Sound(permits, FALSE, waiters, acq)
    BY <1>1, <1>5
  <2>1. /\ SettledBy(n, permits, waiters, acq, permits', waiters', acq')
        /\ OnlyFirstFed(waiters', acq')
        /\ SameRequests(acq, acq')
    BY <1>1, <1>2, <2>0, ReleaseSettles
  <2>2. permits + n + PartOf(waiters, acq) = Pool + n
    BY <1>1, <1>2, <1>5, PoolFacts DEF Pool
  <2>3. Settled(Pool + n, Line, Grants, Pool', Line', Grants')
    BY <1>2, <1>5, <2>1, <2>2 DEF SettledBy, Pool, Line, Grants
  <2>4. Promise!Next
    BY <1>1, <1>2, <1>3, <1>5, <2>3, PutStep
  <2>5. Requested(closed', acq')
    BY <1>1, <1>2, <2>1, KeepRequested
  <2>. QED
    BY <2>1, <2>4, <2>5 DEF FairStep
<1>. QED
  BY <1>4, <1>5

\* Joining the line.
LEMMA LineAppend ==
    ASSUME NEW q \in Seq(Futures), NEW a, NEW f \in Futures
    PROVE  LineOf(Append(q, f), a) = Append(LineOf(q, a), Ask(a, f))
<1>. DEFINE w == Append(q, f)
            n == Len(q)
            l == LineOf(q, a)
<1>1. /\ n \in Nat
      /\ DOMAIN w = 1..n+1
      /\ \A i \in 1..n+1 : w[i] = IF i = n + 1 THEN f ELSE q[i]
  <2>1. w \in Seq(Futures) /\ Len(w) = n + 1
    BY AppendProperties
  <2>2. DOMAIN w = 1..n+1
    BY <2>1, LenProperties
  <2>3. \A i \in 1..n : w[i] = q[i]
    BY AppendProperties
  <2>4. w[n+1] = f
    BY AppendProperties
  <2>. HIDE DEF w
  <2>5. n \in Nat
    OBVIOUS
  <2>. HIDE DEF n
  <2>. QED
    BY <2>2, <2>3, <2>4, <2>5
<1>2. /\ l = [i \in 1..n |-> Ask(a, q[i])]
      /\ l \in Seq({Ask(a, g) : g \in Futures})
      /\ Len(l) = n
  <2>1. l = [i \in 1..n |-> Ask(a, q[i])]
    BY DEF LineOf
  <2>2. \A i \in 1..n : q[i] \in Futures
    OBVIOUS
  <2>3. \A i \in 1..n : Ask(a, q[i]) \in {Ask(a, g) : g \in Futures}
    BY <2>2
  <2>4. n \in Nat
    OBVIOUS
  <2>. HIDE DEF l, n
  <2>. QED
    BY <2>1, <2>3, <2>4
<1>3. /\ Append(l, Ask(a, f)) \in Seq({Ask(a, g) : g \in Futures})
      /\ Len(Append(l, Ask(a, f))) = n + 1
      /\ \A i \in 1..n : Append(l, Ask(a, f))[i] = l[i]
      /\ Append(l, Ask(a, f))[n + 1] = Ask(a, f)
  <2>. DEFINE S == {Ask(a, g) : g \in Futures}
              x == Ask(a, f)
  <2>1. x \in S
    OBVIOUS
  <2>2. l \in Seq(S) /\ Len(l) = n
    BY <1>2
  <2>. HIDE DEF l, n, S, x
  <2>3. /\ Append(l, x) \in Seq(S)
        /\ Len(Append(l, x)) = Len(l) + 1
        /\ \A i \in 1..Len(l) : Append(l, x)[i] = l[i]
        /\ Append(l, x)[Len(l) + 1] = x
    BY <2>1, <2>2, AppendProperties
  <2>4. /\ Append(l, x) \in Seq(S)
        /\ Len(Append(l, x)) = n + 1
        /\ \A i \in 1..n : Append(l, x)[i] = l[i]
        /\ Append(l, x)[n + 1] = x
    BY <2>2, <2>3
  <2>. QED
    BY <2>4 DEF S, x
<1>. DEFINE m == Append(l, Ask(a, f))
<1>. HIDE DEF w, n, l
<1>4. LineOf(w, a) = [i \in 1..n+1 |-> Ask(a, w[i])]
  BY <1>1 DEF LineOf
<1>5. m = [i \in 1..n+1 |-> m[i]]
  <2>. HIDE DEF m
  <2>1. m \in Seq({Ask(a, g) : g \in Futures}) /\ Len(m) = n + 1
    BY <1>3 DEF m
  <2>. QED
    BY <2>1
<1>6. \A i \in 1..n+1 : Ask(a, w[i]) = m[i]
  <2>. TAKE i \in 1..n+1
  <2>1. CASE i = n + 1
    BY <1>1, <1>3, <2>1
  <2>2. CASE i # n + 1
    <3>1. i \in 1..n /\ w[i] = q[i]
      BY <1>1, <2>2
    <3>. QED
      BY <1>2, <1>3, <3>1
  <2>. QED
    BY <2>1, <2>2
<1>7. LineOf(w, a) = m
  <2>. HIDE DEF m
  <2>. QED
    BY <1>4, <1>5, <1>6
<1>. QED
  BY <1>7 DEF w, m, l

LEMMA FairPollPending ==
    ASSUME FairInv, NEW f \in Futures, NEW c \in Contexts, PollPending(f, c)
    PROVE  FairStep
<1>. DEFINE r == [acq[f] EXCEPT !.remaining = @ - permits, !.queued = TRUE,
                                !.waker = c, !.cx = c, !.notified = FALSE]
<1>1. /\ waiters \in Seq(Futures)
      /\ Distinct(waiters)
      /\ acq \in [Futures -> Future]
      /\ acq[f] \in Future
      /\ permits \in Nat
      /\ waiters # <<>> => permits = 0
      /\ f \in Range(waiters) <=> Short(acq[f]) /\ ~closed
      /\ OnlyFirstFed(waiters, acq)
      /\ Requested(closed, acq)
      /\ acq[f].num \in Nat
      /\ acq[f].remaining \in Nat
  BY FairFacts DEF Future
<1>2. /\ acq[f].phase = "live"
      /\ ~closed /\ closed = FALSE
      /\ permits < acq[f].remaining
      /\ permits' = 0
      /\ closed' = FALSE
      /\ acq' = [acq EXCEPT ![f] = r]
      /\ waiters' = IF acq[f].queued THEN waiters ELSE Append(waiters, f)
      /\ balance' = balance
  BY FairFacts DEF PollPending
<1>3. /\ r.phase = "live"
      /\ r.num = acq[f].num
      /\ r.remaining = acq[f].remaining - permits
      /\ r.queued = TRUE
  BY <1>1, <1>2 DEF Future
<1>. HIDE DEF r
<1>4. ~IsGranted(acq[f]) /\ ~IsGranted(r) /\ acq[f].remaining > 0
  BY <1>1, <1>2, <1>3 DEF IsGranted
<1>5. \A g \in Futures : acq'[g] = IF g = f THEN r ELSE acq[g]
  BY <1>1, <1>2
<1>6. Request(FALSE, acq[f]) /\ Request(FALSE, r) /\ acq[f].num \in Amounts
  BY <1>1, <1>2, <1>3 DEF Requested, Request
<1>7. Requested(closed', acq')
  BY <1>1, <1>2, <1>6, ChangeRequested
<1>8. GrantedOf(acq') = GrantedOf(acq)
  BY <1>1, <1>2, <1>4, GrantedLess
<1>9. CASE acq[f].queued
  <2>1. f \in Range(waiters)
    BY <1>1, <1>2, <1>4, <1>9 DEF Short
  <2>2. waiters # <<>> /\ permits = 0 /\ waiters' = waiters
    BY <1>1, <1>2, <1>9, <2>1 DEF Range
  <2>3. \A g \in Futures : /\ acq'[g].num = acq[g].num
                           /\ acq'[g].remaining = acq[g].remaining
                           /\ IsGranted(acq'[g]) <=> IsGranted(acq[g])
    BY <1>1, <1>3, <1>4, <1>5, <2>2
  <2>4. /\ LineOf(waiters, acq') = LineOf(waiters, acq)
        /\ PartOf(waiters, acq') = PartOf(waiters, acq)
        /\ OnlyFirstFed(waiters, acq')
    BY <1>1, <2>3, SameNeeds
  <2>5. Pool' = Pool /\ Line' = Line /\ Grants' = Grants
    BY <1>2, <1>8, <2>2, <2>4 DEF Pool, Line, Grants
  <2>6. UNCHANGED promiseVars
    BY <1>1, <1>2, <2>2, <2>5, AsPromise
  <2>. QED
    BY <1>7, <2>2, <2>4, <2>6 DEF FairStep
<1>10. CASE ~acq[f].queued
  <2>1. f \notin Range(waiters) /\ acq[f].remaining = acq[f].num
    BY <1>1, <1>6, <1>10 DEF Short, Request
  <2>2. waiters' = Append(waiters, f) /\ waiters' \in Seq(Futures)
    <3>1. Append(waiters, f) \in Seq(Futures)
      BY <1>1, AppendProperties
    <3>. QED
      BY <1>2, <1>10, <3>1
  <2>3. /\ LineOf(waiters, acq') = LineOf(waiters, acq)
        /\ PartOf(waiters, acq') = PartOf(waiters, acq)
        /\ OnlyFirstFed(waiters, acq')
    BY <1>1, <1>2, <2>1, ChangeOne
  <2>4. Ask(acq', f) = Ask(acq, f)
    BY <1>3, <1>5 DEF Ask
  <2>5. LineOf(waiters', acq') = Append(LineOf(waiters, acq), Ask(acq, f))
    <3>1. LineOf(Append(waiters, f), acq') = Append(LineOf(waiters, acq'), Ask(acq', f))
      BY <1>1, LineAppend
    <3>. QED
      BY <2>2, <2>3, <2>4, <3>1
  <2>6. /\ DOMAIN waiters' = 1..Len(waiters) + 1
        /\ Len(waiters') = Len(waiters) + 1
        /\ Len(waiters) \in Nat
        /\ \A i \in 1..Len(waiters) : waiters'[i] = waiters[i]
        /\ waiters'[Len(waiters) + 1] = f
    <3>. DEFINE w == Append(waiters, f)
    <3>1. /\ w \in Seq(Futures)
          /\ Len(w) = Len(waiters) + 1
          /\ \A i \in 1..Len(waiters) : w[i] = waiters[i]
          /\ w[Len(waiters) + 1] = f
      BY <1>1, AppendProperties
    <3>2. DOMAIN w = 1..Len(w) /\ Len(waiters) \in Nat
      BY <1>1, <3>1, LenProperties
    <3>3. w = waiters'
      BY <2>2
    <3>. HIDE DEF w
    <3>. QED
      BY <3>1, <3>2, <3>3
  <2>7. OnlyFirstFed(waiters', acq')
    <3>. DEFINE w == waiters'
    <3>. SUFFICES ASSUME NEW i \in 2..Len(w) PROVE acq'[w[i]].remaining = acq'[w[i]].num
      BY DEF OnlyFirstFed
    <3>. HIDE DEF w
    <3>1. CASE i = Len(waiters) + 1
      <4>1. w[i] = f /\ permits = 0
        BY <1>1, <2>6, <3>1, EmptySeq DEF w
      <4>. QED
        BY <1>1, <1>3, <1>5, <2>1, <4>1
    <3>2. CASE i # Len(waiters) + 1
      <4>1. i \in 2..Len(waiters) /\ w[i] = waiters[i]
        BY <2>6, <3>2 DEF w
      <4>. QED
        BY <2>3, <4>1 DEF OnlyFirstFed
    <3>. QED
      BY <3>1, <3>2
  <2>8. PartOf(waiters', acq') = permits + PartOf(waiters, acq)
    <3>0. waiters' # <<>>
      BY <2>2, <2>6, EmptySeq
    <3>1. CASE waiters = <<>>
      <4>1. waiters'[1] = f
        BY <2>6, <3>1, EmptySeq
      <4>2. PartOf(waiters', acq') = r.num - r.remaining
        BY <1>5, <3>0, <4>1 DEF PartOf
      <4>3. PartOf(waiters, acq) = 0
        BY <3>1 DEF PartOf
      <4>. QED
        BY <1>1, <1>3, <2>1, <4>2, <4>3
    <3>2. CASE waiters # <<>>
      <4>1. waiters'[1] = waiters[1] /\ permits = 0
        BY <1>1, <2>6, <3>2, EmptySeq
      <4>2. PartOf(waiters', acq') = PartOf(waiters, acq')
        BY <3>0, <3>2, <4>1 DEF PartOf
      <4>. QED
        BY <2>3, <4>1, <4>2, PoolFacts
    <3>. QED
      BY <3>1, <3>2
  <2>9. /\ Pool = permits + PartOf(waiters, acq)
        /\ Pool' = Pool
        /\ Line' = Append(Line, Ask(acq, f))
        /\ Grants' = Grants
    <3>1. Pool = permits + PartOf(waiters, acq)
      BY <1>2 DEF Pool
    <3>2. Pool' = 0 + PartOf(waiters', acq')
      BY <1>2 DEF Pool
    <3>3. Pool' = Pool
      BY <1>1, <2>8, <3>1, <3>2, PoolFacts
    <3>4. Line' = Append(Line, Ask(acq, f)) /\ Grants' = Grants
      BY <1>2, <1>8, <2>5 DEF Line, Grants
    <3>. QED
      BY <3>1, <3>3, <3>4
  <2>10. /\ acq[f].num > 0
         /\ Line = <<>> => Pool < acq[f].num
    <3>1. waiters = <<>> => PartOf(waiters, acq) = 0
      BY DEF PartOf
    <3>. QED
      BY <1>1, <1>2, <2>1, <2>9, <3>1, PoolFacts
  <2>11. Promise!Next
    BY <1>1, <1>2, <1>6, <2>2, <2>9, <2>10, JoinStep
  <2>. QED
    BY <1>7, <2>7, <2>11 DEF FairStep
<1>. QED
  BY <1>9, <1>10

\* A future that waits, or has been granted its permits, is dropped.
LEMMA FairDropQueued ==
    ASSUME FairInv, NEW f \in Futures, DropAcquire(f), acq[f].queued, ~closed
    PROVE  FairStep
<1>. DEFINE w == Without(waiters, f)
            a == [acq EXCEPT ![f] = NoFuture]
            rem == acq[f].num - acq[f].remaining
            part == PartOf(waiters, acq)
<1>1. /\ Sound(permits, closed, waiters, acq)
      /\ waiters \in Seq(Futures)
      /\ Distinct(waiters)
      /\ acq \in [Futures -> Future]
      /\ acq[f] \in Future
      /\ permits \in Nat
      /\ waiters # <<>> => permits = 0
      /\ closed = FALSE
      /\ f \in Range(waiters) <=> Short(acq[f])
      /\ OnlyFirstFed(waiters, acq)
      /\ Requested(closed, acq)
      /\ acq[f].num \in Nat
      /\ acq[f].remaining \in Nat
      /\ acq[f].remaining <= acq[f].num
      /\ part \in Nat
  BY FairFacts, PoolFacts DEF Future
<1>2. /\ acq[f].phase = "live"
      /\ acq[f].num \in Amounts
  BY <1>1 DEF Requested, Request, Future, DropAcquire
<1>3. /\ closed' = closed
      /\ balance' = balance
      /\ AddPermits(rem, permits, w, a)
  BY DEF DropAcquire
<1>4. rem \in Nat
  BY <1>1
<1>5. w \in Seq(Futures) /\ Distinct(w) /\ Range(w) = Range(waiters) \ {f}
  BY <1>1, WithoutProperties
<1>6. w # <<>> => permits = 0
  <2>1. waiters = <<>> => w = <<>>
    BY DEF Without, Range
  <2>. QED
    BY <1>1, <2>1
<1>7. Sound(permits, FALSE, w, a)
  <2>. HIDE DEF w
  <2>. QED
    BY <1>1, <1>5, <1>6, ForgetSound
<1>8. /\ a \in [Futures -> Future]
      /\ \A g \in Futures : g # f => a[g] = acq[g]
  BY <1>1 DEF NoFuture, Future
<1>9. Requested(FALSE, a)
  BY <1>1, RequestNone, ChangeRequested
<1>10. ~IsGranted(NoFuture)
  BY DEF IsGranted, NoFuture
<1>11. /\ IsGranted(acq[f]) => Ask(acq, f) \in GrantedOf(acq)
       /\ GrantedOf(a) = IF IsGranted(acq[f]) THEN GrantedOf(acq) \ {Ask(acq, f)}
                                              ELSE GrantedOf(acq)
  BY <1>1, <1>10, GrantedLess
<1>12. acq[f].remaining = 0 =>
          /\ w = waiters
          /\ LineOf(w, a) = LineOf(waiters, acq)
          /\ PartOf(w, a) = part
          /\ OnlyFirstFed(w, a)
  <2>. SUFFICES ASSUME acq[f].remaining = 0
                PROVE  /\ w = waiters
                       /\ LineOf(w, a) = LineOf(waiters, acq)
                       /\ PartOf(w, a) = part
                       /\ OnlyFirstFed(w, a)
    OBVIOUS
  <2>1. f \notin Range(waiters)
    BY <1>1 DEF Short
  <2>2. w = waiters
    BY <2>1 DEF Without
  <2>3. /\ LineOf(waiters, a) = LineOf(waiters, acq)
        /\ PartOf(waiters, a) = part
        /\ OnlyFirstFed(waiters, a)
    BY <1>1, <2>1, ChangeOne
  <2>. QED
    BY <2>2, <2>3
<1>13. acq[f].remaining > 0 => \E p \in 1..Len(waiters) : LeftAt(p, f, waiters, acq, w, a)
  <2>. SUFFICES ASSUME acq[f].remaining > 0
                PROVE  \E p \in 1..Len(waiters) : LeftAt(p, f, waiters, acq, w, a)
    OBVIOUS
  <2>1. f \in Range(waiters)
    BY <1>1, <1>2 DEF Short
  <2>. HIDE DEF a
  <2>. QED
    BY <1>1, <1>8, <2>1, LineWithout
<1>. HIDE DEF w, a, rem, part
<1>14. OnlyFirstFed(w, a)
  <2>1. acq[f].remaining = 0 \/ acq[f].remaining > 0
    BY <1>1
  <2>. QED
    BY <1>1, <1>12, <1>13, <2>1 DEF LeftAt
<1>15. /\ SettledBy(rem, permits, w, a, permits', waiters', acq')
       /\ OnlyFirstFed(waiters', acq')
       /\ SameRequests(a, acq')
  BY <1>3, <1>4, <1>7, <1>14, ReleaseSettles
<1>16. Requested(closed', acq')
  BY <1>1, <1>3, <1>9, <1>15, KeepRequested
<1>17. waiters' \in Seq(Futures)
  BY DropAcquireSound, IndInvSoundPrime DEF FairInv, Sound
<1>18. Settled(permits + rem + PartOf(w, a), LineOf(w, a), GrantedOf(a),
               Pool', Line', Grants')
  BY <1>1, <1>3, <1>15 DEF SettledBy, Pool, Line, Grants
<1>19. Pool = permits + part
  BY <1>1 DEF Pool, part
<1>20. CASE acq[f].remaining = 0
  <2>1. IsGranted(acq[f])
    BY <1>2, <1>20 DEF IsGranted
  <2>2. permits + rem + PartOf(w, a) = Pool + acq[f].num
    BY <1>1, <1>12, <1>19, <1>20 DEF rem
  <2>3. /\ LineOf(w, a) = Line
        /\ GrantedOf(a) = Grants \ {Ask(acq, f)}
        /\ Ask(acq, f) \in Grants
    BY <1>1, <1>11, <1>12, <1>20, <2>1 DEF Line, Grants
  <2>4. Settled(Pool + acq[f].num, Line, Grants \ {Ask(acq, f)}, Pool', Line', Grants')
    BY <1>18, <2>2, <2>3
  <2>5. Promise!Next
    BY <1>1, <1>2, <1>3, <1>17, <2>3, <2>4, GiveBackStep
  <2>. QED
    BY <1>15, <1>16, <2>5 DEF FairStep
<1>21. CASE acq[f].remaining > 0
  <2>0. PICK p \in 1..Len(waiters) : LeftAt(p, f, waiters, acq, w, a)
    BY <1>13, <1>21
  <2>1. /\ waiters[p] = f
        /\ LineOf(w, a) = SubSeq(LineOf(waiters, acq), 1, p - 1)
                             \o SubSeq(LineOf(waiters, acq), p + 1, Len(LineOf(waiters, acq)))
        /\ p = 1 => PartOf(w, a) = 0
        /\ p > 1 => PartOf(w, a) = part
    BY <1>1, <2>0 DEF LeftAt, part
  <2>2. permits = 0
    BY <1>1, <2>1, EmptySeq
  <2>3. permits + rem + PartOf(w, a) = Pool
    <3>1. CASE p = 1
      <4>1. part = rem
        BY <1>1, <2>1, <3>1, EmptySeq DEF part, rem, PartOf
      <4>. QED
        BY <1>1, <1>4, <1>19, <2>1, <3>1, <4>1
    <3>2. CASE p > 1
      <4>1. acq[f].remaining = acq[f].num
        BY <1>1, <2>1, <3>2 DEF OnlyFirstFed
      <4>2. rem = 0
        BY <1>1, <4>1 DEF rem
      <4>. QED
        BY <1>1, <1>19, <2>1, <3>2, <4>2
    <3>. QED
      BY <2>1, <3>1, <3>2
  <2>4. GrantedOf(a) = Grants
    BY <1>1, <1>11, <1>21 DEF Grants, IsGranted
  <2>5. LineOf(w, a) = SubSeq(Line, 1, p - 1) \o SubSeq(Line, p + 1, Len(Line))
    BY <2>1 DEF Line
  <2>6. Settled(Pool, SubSeq(Line, 1, p - 1) \o SubSeq(Line, p + 1, Len(Line)),
                Grants, Pool', Line', Grants')
    BY <1>18, <2>3, <2>4, <2>5
  <2>7. Promise!Next
    BY <1>1, <1>3, <1>17, <2>6, LeaveStep
  <2>. QED
    BY <1>15, <1>16, <2>7 DEF FairStep
<1>. QED
  BY <1>1, <1>20, <1>21

LEMMA FairDropAcquire ==
    ASSUME FairInv, NEW f \in Futures, DropAcquire(f)
    PROVE  FairStep
<1>. DEFINE a == [acq EXCEPT ![f] = NoFuture]
<1>1. /\ waiters \in Seq(Futures)
      /\ acq \in [Futures -> Future]
      /\ closed \in BOOLEAN
      /\ OnlyFirstFed(waiters, acq)
      /\ Requested(closed, acq)
      /\ balance' = balance /\ closed' = closed
      /\ f \in Range(waiters) <=> Short(acq[f]) /\ ~closed
  BY FairFacts DEF DropAcquire
<1>2. Requested(closed, a)
  BY <1>1, RequestNone, ChangeRequested
<1>3. CASE ~acq[f].queued
  <2>1. acq' = a /\ UNCHANGED <<permits, waiters>>
    BY <1>3 DEF DropAcquire
  <2>2. f \notin Range(waiters) /\ ~IsGranted(acq[f]) /\ ~IsGranted(NoFuture)
    BY <1>1, <1>3 DEF Short, IsGranted, NoFuture
  <2>3. /\ LineOf(waiters, acq') = LineOf(waiters, acq)
        /\ PartOf(waiters, acq') = PartOf(waiters, acq)
        /\ OnlyFirstFed(waiters, acq')
    BY <1>1, <2>1, <2>2, ChangeOne
  <2>4. GrantedOf(acq') = GrantedOf(acq)
    BY <1>1, <2>1, <2>2, GrantedLess
  <2>5. Pool' = Pool /\ Line' = Line /\ Grants' = Grants
    BY <1>1, <2>1, <2>3, <2>4 DEF Pool, Line, Grants
  <2>6. UNCHANGED promiseVars
    BY <1>1, <2>1, <2>5, AsPromise
  <2>. QED
    BY <1>1, <1>2, <2>1, <2>3, <2>6 DEF FairStep
<1>4. CASE acq[f].queued /\ closed
  <2>1. waiters = <<>>
    <3>1. Range(waiters) = {}
      BY <1>1, <1>4, FairFacts, RangeInSet
    <3>. QED
      BY <1>1, <3>1, EmptyRange
  <2>2. Range(Without(waiters, f)) = {}
    BY <2>1 DEF Without, Range
  <2>3. Outcome(permits, Without(waiters, f), a, permits', waiters', acq')
    BY <1>4, DropAcquireSound DEF FairInv
  <2>4. acq' = a
    <3>1. acq' \in [Futures -> Future] /\ \A g \in Futures : acq'[g] = a[g]
      BY <2>2, <2>3 DEF Outcome
    <3>2. a \in [Futures -> Future]
      BY <1>1 DEF NoFuture, Future
    <3>. HIDE DEF a
    <3>. QED
      BY <3>1, <3>2
  <2>5. Next
    BY DEF Next
  <2>. QED
    BY <1>1, <1>2, <1>4, <2>4, <2>5, ClosedStutter
<1>. QED
  BY <1>3, <1>4, FairDropQueued
-----------------------------------------------------------------------------
LEMMA FairNext == ASSUME FairInv, Next PROVE FairStep
<1>1. ASSUME NEW f \in Futures, NEW n \in Amounts, Acquire(f, n) PROVE FairStep
  BY <1>1, FairAcquire
<1>2. ASSUME NEW f \in Futures, Poll(f) PROVE FairStep
  BY <1>2, FairPollClosed, FairPollFast, FairPollAssigned, FairPollPending DEF Poll
<1>3. ASSUME NEW f \in Futures, DropAcquire(f) PROVE FairStep
  BY <1>3, FairDropAcquire
<1>4. ASSUME NEW n \in Amounts, TryAcquire(n) \/ Release(n) PROVE FairStep
  BY <1>4, FairTryAcquire, FairRelease
<1>5. CASE Close
  BY <1>5, FairClose
<1>. QED
  BY <1>1, <1>2, <1>3, <1>4, <1>5 DEF Next

LEMMA FairInit == Init => FairInv /\ Promise!Init
<1>. SUFFICES ASSUME Init PROVE FairInv /\ Promise!Init
  OBVIOUS
<1>1. IndInv
  BY InitSound
<1>2. /\ waiters = <<>> /\ waiters \in Seq(Futures)
      /\ acq = [f \in Futures |-> NoFuture]
      /\ closed = FALSE
      /\ permits = InitialPermits % (MaxPermits + 1)
      /\ balance = permits
  BY EmptySeq DEF Init
<1>3. OnlyFirstFed(waiters, acq)
  BY <1>2, EmptySeq DEF OnlyFirstFed
<1>4. Requested(closed, acq)
  BY <1>2, RequestNone DEF Requested
<1>5. permits \in 0..InitialPermits
  BY <1>2, SemaphoreAssumption
<1>6. GrantedOf(acq) = {}
  <2>1. \A f \in Futures : ~IsGranted(acq[f])
    BY <1>2 DEF IsGranted, NoFuture
  <2>. QED
    BY <2>1 DEF GrantedOf
<1>7. LineOf(waiters, acq) = <<>> /\ PartOf(waiters, acq) = 0
  BY <1>2 DEF LineOf, PartOf
<1>8. permits + PartOf(waiters, acq) = permits
  BY <1>5, <1>7, SemaphoreAssumption
<1>9. Promise!Init
  BY <1>2, <1>5, <1>6, <1>7, <1>8, Abstraction DEF Promise!Init
<1>. QED
  BY <1>1, <1>3, <1>4, <1>9 DEF FairInv

LEMMA FairInductive ==
    FairInv /\ [Next]_vars => FairInv' /\ [Promise!Next]_promiseVars
<1>. SUFFICES ASSUME FairInv, [Next]_vars PROVE FairInv' /\ [Promise!Next]_promiseVars
  OBVIOUS
<1>1. IndInv'
  BY StepSound DEF FairInv
<1>2. CASE Next
  BY <1>1, <1>2, FairNext DEF FairStep, FairInv
<1>3. CASE UNCHANGED vars
  <2>1. UNCHANGED <<permits, closed, waiters, acq, balance>>
    BY <1>3 DEF vars
  <2>2. FairInv'
    BY <1>1, <2>1 DEF FairInv, OnlyFirstFed, Requested
  <2>3. UNCHANGED promiseVars
    BY <2>1, FairFacts, AsPromise DEF Pool, Line, Grants
  <2>. QED
    BY <2>2, <2>3
<1>. QED
  BY <1>2, <1>3

\* The semaphore gives permits out in the order in which they were asked for,
\* each request whole and as soon as it can be granted, as FairSemaphore says.
THEOREM KeepsPromise == Spec => FairSemaphoreSpec
<1>1. Spec => []FairInv
  BY FairInit, FairInductive, PTL DEF Spec
<1>. QED
  BY <1>1, FairInit, FairInductive, PTL
     DEF Spec, FairSemaphoreSpec, Promise!Spec, promiseVars
-----------------------------------------------------------------------------
(***************************************************************************)
(* Counting the permits that futures have been assigned: one unit for each *)
(* of the p[f] of a member f of F.                                         *)
(***************************************************************************)
Units(F, p) == UNION {{f} \X (1..p[f]) : f \in F}

Count(F, p) == Cardinality(Units(F, p))

\* The units of one member.
LEMMA Column ==
    ASSUME NEW g, NEW m \in Nat
    PROVE  IsFiniteSet({g} \X (1..m)) /\ Cardinality({g} \X (1..m)) = m
<1>1. IsFiniteSet({g}) /\ Cardinality({g}) = 1
  BY FS_Singleton
<1>2. IsFiniteSet(1..m) /\ Cardinality(1..m) = m
  <2>1. 1 \in Int /\ m \in Int
    OBVIOUS
  <2>2. /\ IsFiniteSet(1..m)
        /\ Cardinality(1..m) = IF 1 > m THEN 0 ELSE m - 1 + 1
    BY <2>1, FS_Interval
  <2>. QED
    BY <2>2
<1>. DEFINE I == 1..m
            J == {g}
<1>. HIDE DEF I, J
<1>3. IsFiniteSet(J \X I) /\ Cardinality(J \X I) = Cardinality(J) * Cardinality(I)
  BY <1>1, <1>2, FS_Product DEF I, J
<1>4. Cardinality(J) = 1 /\ Cardinality(I) = m
  BY <1>1, <1>2 DEF I, J
<1>5. Cardinality(J) * Cardinality(I) = m
  BY <1>4
<1>. QED
  BY <1>3, <1>5 DEF I, J

\* Finitely many members have finitely many units.
LEMMA UnitsFinite ==
    ASSUME NEW F, IsFiniteSet(F), NEW p \in [F -> Nat]
    PROVE  IsFiniteSet(Units(F, p)) /\ Count(F, p) \in Nat
<1>. DEFINE T == {{f} \X (1..p[f]) : f \in F}
            s == [f \in F |-> {f} \X (1..p[f])]
<1>1. IsFiniteSet(T)
  <2>1. s \in Surjection(F, T)
    <3>1. s \in [F -> T]
      OBVIOUS
    <3>2. \A U \in T : \E f \in F : s[f] = U
      OBVIOUS
    <3>. HIDE DEF s, T
    <3>. QED
      BY <3>1, <3>2 DEF Surjection
  <2>. HIDE DEF T, s
  <2>. QED
    BY <2>1, FS_Surjection
<1>2. \A U \in T : IsFiniteSet(U)
  <2>1. ASSUME NEW f \in F PROVE IsFiniteSet({f} \X (1..p[f]))
    <3>1. p[f] \in Nat
      OBVIOUS
    <3>. QED
      BY <3>1, Column
  <2>. QED
    BY <2>1
<1>3. IsFiniteSet(UNION T)
  <2>. HIDE DEF T
  <2>. QED
    BY <1>1, <1>2, FS_UNION
<1>. QED
  BY <1>3, FS_CardinalityType DEF Units, Count

\* A change of one count changes the number of units by as much.
ChangedBy(F, p, r, g) ==
    /\ Count(F, p) \in Nat
    /\ Count(F, r) \in Nat
    /\ Count(F, r) = Count(F, p) - p[g] + r[g]

LEMMA UnitsChange ==
    ASSUME NEW F, IsFiniteSet(F), NEW p \in [F -> Nat], NEW r \in [F -> Nat],
           NEW g \in F, \A f \in F : f # g => r[f] = p[f]
    PROVE  ChangedBy(F, p, r, g)
<1>. DEFINE G == F \ {g}
            Rest == UNION {{f} \X (1..p[f]) : f \in G}
<1>1. IsFiniteSet(Rest) /\ Cardinality(Rest) \in Nat
  <2>. DEFINE s == [f \in G |-> p[f]]
  <2>1. IsFiniteSet(G) /\ s \in [G -> Nat]
    BY FS_RemoveElement
  <2>2. Rest = Units(G, s)
    BY DEF Units
  <2>. HIDE DEF G, s, Rest
  <2>. QED
    BY <2>1, <2>2, UnitsFinite DEF Count
<1>2. ASSUME NEW b \in [F -> Nat], \A f \in G : b[f] = p[f]
      PROVE  Count(F, b) = b[g] + Cardinality(Rest)
  <2>. DEFINE M == {g} \X (1..b[g])
  <2>1. Units(F, b) = M \cup Rest
    <3>1. Rest = UNION {{f} \X (1..b[f]) : f \in G}
      BY <1>2
    <3>. QED
      BY <3>1 DEF Units
  <2>2. M \cap Rest = {}
    OBVIOUS
  <2>3. b[g] \in Nat
    OBVIOUS
  <2>4. IsFiniteSet(M) /\ Cardinality(M) = b[g]
    BY <2>3, Column
  <2>. HIDE DEF Rest, M
  <2>5. Cardinality(M \cup Rest) = Cardinality(M) + Cardinality(Rest) - Cardinality(M \cap Rest)
    BY <1>1, <2>4, FS_Union
  <2>6. Cardinality(M \cap Rest) = 0
    BY <2>2, FS_EmptySet
  <2>. QED
    BY <1>1, <2>1, <2>3, <2>4, <2>5, <2>6 DEF Count
<1>3. Count(F, p) = p[g] + Cardinality(Rest)
  <2>. HIDE DEF Rest
  <2>. QED
    BY <1>2
<1>4. Count(F, r) = r[g] + Cardinality(Rest)
  <2>. HIDE DEF Rest
  <2>. QED
    BY <1>2
<1>. HIDE DEF Rest
<1>5. p[g] \in Nat /\ r[g] \in Nat
  OBVIOUS
<1>. QED
  BY <1>1, <1>3, <1>4, <1>5 DEF ChangedBy

\* A set of numbers has a least one, unless it is empty: the first turn of a loop
\* after which something does not hold.
LEMMA Least ==
    ASSUME NEW T, T \subseteq Nat, T # {}
    PROVE  \E m \in T : \A n \in T : m <= n
<1>1. \E m \in T : \A n \in T : <<n, m>> \notin OpToRel(<, Nat)
  BY NatLessThanWellFounded, WFMin
<1>2. PICK m \in T : \A n \in T : <<n, m>> \notin OpToRel(<, Nat)
  BY <1>1
<1>3. \A n \in T : ~(n < m)
  BY <1>2 DEF OpToRel
<1>. QED
  BY <1>3
-----------------------------------------------------------------------------
\* The permits that futures have been assigned.
Parts(a) == [f \in Futures |-> a[f].num - a[f].remaining]

Assigned(a) == Count(Futures, Parts(a))

\* Parts and their count are numbers.
LEMMA PartsType ==
    ASSUME NEW a \in [Futures -> Future], \A f \in Futures : a[f].remaining <= a[f].num
    PROVE  Parts(a) \in [Futures -> Nat] /\ Assigned(a) \in Nat
<1>1. \A f \in Futures : a[f].num - a[f].remaining \in Nat
  <2>. TAKE f \in Futures
  <2>1. a[f] \in Future /\ a[f].remaining <= a[f].num
    OBVIOUS
  <2>. QED
    BY <2>1 DEF Future
<1>2. Parts(a) \in [Futures -> Nat]
  BY <1>1 DEF Parts
<1>. QED
  BY <1>2, UnitsFinite, SemaphoreAssumption DEF Assigned

\* One future has m units after a change, and the others what they had.
LEMMA AssignedChange ==
    ASSUME NEW a \in [Futures -> Future], \A f \in Futures : a[f].remaining <= a[f].num,
           NEW b, NEW f \in Futures, NEW m \in Nat,
           b[f].num - b[f].remaining = m,
           \A g \in Futures : g # f => b[g] = a[g]
    PROVE  Assigned(b) = Assigned(a) - (a[f].num - a[f].remaining) + m
<1>1. Parts(a) \in [Futures -> Nat] /\ Parts(a)[f] = a[f].num - a[f].remaining
  BY PartsType DEF Parts
<1>2. Parts(b)[f] = m /\ \A g \in Futures : g # f => Parts(b)[g] = Parts(a)[g]
  BY DEF Parts
<1>3. Parts(b) \in [Futures -> Nat]
  <2>1. \A g \in Futures : Parts(b)[g] \in Nat
    BY <1>1, <1>2
  <2>2. Parts(b) = [g \in Futures |-> Parts(b)[g]]
    BY DEF Parts
  <2>. QED
    BY <2>1, <2>2
<1>4. ChangedBy(Futures, Parts(a), Parts(b), f)
  BY <1>1, <1>2, <1>3, UnitsChange, SemaphoreAssumption
<1>. QED
  BY <1>1, <1>2, <1>4 DEF Assigned, ChangedBy

\* A release puts all its permits somewhere: what a turn of the loop takes from
\* `left` it assigns, and what is left in the end is assigned or goes to the word.
LEMMA ReleaseConserves ==
    ASSUME NEW rem \in Nat, NEW avail \in Nat,
           NEW q \in Seq(Futures), Distinct(q),
           NEW a \in [Futures -> Future],
           \A f \in Futures : a[f].remaining <= a[f].num,
           AddPermits(rem, avail, q, a)
    PROVE  permits' + Assigned(acq') = avail + rem + Assigned(a)
<1>1. PICK k \in 0..Len(q) : \E left \in [0..k -> 0..rem] :
         /\ left[0] = rem
         /\ \A i \in 1..k : left[i] = left[i-1] - a[q[i]].remaining
         /\ k = Len(q) => permits' = avail + left[k]
         /\ k # Len(q) => left[k] < a[q[k+1]].remaining /\ permits' = avail
         /\ Grant(avail, q, a, k, left[k], permits', waiters', acq')
  BY DEF AddPermits, Grant
<1>2. PICK left \in [0..k -> 0..rem] :
         /\ left[0] = rem
         /\ \A i \in 1..k : left[i] = left[i-1] - a[q[i]].remaining
         /\ k = Len(q) => permits' = avail + left[k]
         /\ k # Len(q) => left[k] < a[q[k+1]].remaining /\ permits' = avail
         /\ Grant(avail, q, a, k, left[k], permits', waiters', acq')
  BY <1>1
<1>3. \A i \in 0..k : left[i] \in Nat
  OBVIOUS
<1>4. Elementwise(q, a, k, left[k], acq')
  <2>1. left[k] \in Nat
    BY <1>3
  <2>. QED
    BY <1>2, <2>1, GrantElements
<1>5. \A i \in 1..Len(q) : q[i] \in Futures /\ a[q[i]] \in Future
  OBVIOUS
<1>6. \A i, j \in 1..Len(q) : q[i] = q[j] => i = j
  BY DEF Distinct
<1>7. \A f \in Futures : a[f].num \in Nat /\ a[f].remaining \in Nat /\ a[f].remaining <= a[f].num
  <2>. TAKE f \in Futures
  <2>1. a[f] \in Future /\ a[f].remaining <= a[f].num
    OBVIOUS
  <2>. QED
    BY <2>1 DEF Future
<1>. DEFINE c == [i \in 0..k |-> [f \in Futures |->
                    IF f \in Served(q, i) THEN a[f].num ELSE a[f].num - a[f].remaining]]
            U == [i \in 0..k |-> Count(Futures, c[i])]
            T == {i \in 0..k : U[i] + left[i] # Assigned(a) + rem}
<1>8. ASSUME NEW i \in 0..k
      PROVE  /\ c[i] \in [Futures -> Nat]
             /\ U[i] = Count(Futures, c[i])
             /\ U[i] \in Nat
  <2>1. \A f \in Futures : a[f].num - a[f].remaining \in Nat
    BY <1>7
  <2>2. c[i] \in [Futures -> Nat]
    BY <1>7, <2>1
  <2>. HIDE DEF c
  <2>. QED
    BY <2>2, UnitsFinite, SemaphoreAssumption
<1>9. ASSUME NEW i \in 0..k, i < Len(q)
      PROVE  c[i][q[i + 1]] = a[q[i + 1]].num - a[q[i + 1]].remaining
  <2>1. i + 1 \in 1..Len(q)
    BY <1>9
  <2>2. q[i + 1] \notin Served(q, i)
    BY <1>6, <2>1 DEF Served
  <2>. QED
    BY <1>5, <2>1, <2>2
<1>10. U[0] = Assigned(a)
  <2>0. 0 \in 0..k
    OBVIOUS
  <2>1. Served(q, 0) = {}
    BY DEF Served
  <2>2. c[0] = Parts(a)
    BY <2>0, <2>1 DEF Parts
  <2>. QED
    BY <2>0, <2>2 DEF Assigned
<1>11. ASSUME NEW i \in 1..k PROVE U[i] = U[i - 1] + a[q[i]].remaining
  <2>1. i \in 1..Len(q) /\ i - 1 \in 0..k /\ i - 1 < Len(q) /\ i - 1 + 1 = i
    OBVIOUS
  <2>2. Served(q, i) = Served(q, i - 1) \cup {q[i]}
    BY <2>1 DEF Served
  <2>3. c[i][q[i]] = a[q[i]].num /\ \A f \in Futures : f # q[i] => c[i][f] = c[i - 1][f]
    BY <1>5, <2>1, <2>2
  <2>4. c[i - 1][q[i]] = a[q[i]].num - a[q[i]].remaining
    BY <1>9, <2>1
  <2>. DEFINE x == c[i - 1]
              y == c[i]
              f == q[i]
  <2>. HIDE DEF c, U, T
  <2>5. /\ x \in [Futures -> Nat]
        /\ y \in [Futures -> Nat]
        /\ U[i - 1] = Count(Futures, x)
        /\ U[i - 1] \in Nat
        /\ U[i] = Count(Futures, y)
    BY <1>8, <2>1
  <2>6. f \in Futures /\ a[f].num \in Nat /\ a[f].remaining \in Nat
    BY <1>5, <1>7, <2>1
  <2>7. /\ y[f] = a[f].num
        /\ x[f] = a[f].num - a[f].remaining
        /\ \A g \in Futures : g # f => y[g] = x[g]
    BY <2>3, <2>4
  <2>. HIDE DEF x, y, f
  <2>8. ChangedBy(Futures, x, y, f)
    BY <2>5, <2>6, <2>7, UnitsChange, SemaphoreAssumption
  <2>9. U[i] = U[i - 1] + a[f].remaining
    <3>1. Count(Futures, y) = Count(Futures, x) - x[f] + y[f]
      BY <2>8 DEF ChangedBy
    <3>. DEFINE n == a[f].num
                m == a[f].remaining
                u == U[i - 1]
    <3>2. U[i] = u - (n - m) + n
      BY <2>5, <2>7, <3>1
    <3>3. n \in Nat /\ m \in Nat /\ u \in Nat
      BY <2>5, <2>6
    <3>. HIDE DEF n, m, u
    <3>4. U[i] = u + m
      BY <3>2, <3>3
    <3>. QED
      BY <3>4 DEF m, u
  <2>. QED
    BY <2>9 DEF f
<1>. HIDE DEF c, U
<1>12. Assigned(a) \in Nat
  BY PartsType
<1>13. T = {}
  <2>. SUFFICES ASSUME T # {} PROVE FALSE
    OBVIOUS
  <2>1. PICK m \in T : \A n \in T : m <= n
    <3>1. T \subseteq Nat
      OBVIOUS
    <3>. HIDE DEF T
    <3>. QED
      BY <3>1, Least
  <2>2. m \in 1..k
    BY <1>2, <1>10
  <2>3. m - 1 \in 0..k /\ m - 1 \notin T
    BY <2>1, <2>2
  <2>4. U[m - 1] + left[m - 1] = Assigned(a) + rem
    BY <2>3
  <2>5. m \notin T
    <3>. HIDE DEF T
    <3>1. U[m] = U[m - 1] + a[q[m]].remaining
      BY <1>11, <2>2
    <3>2. left[m] = left[m - 1] - a[q[m]].remaining
      BY <1>2, <2>2
    <3>3. m \in 0..k /\ U[m - 1] \in Nat /\ left[m - 1] \in Nat
      BY <1>3, <1>8, <2>2, <2>3
    <3>4. a[q[m]].remaining \in Nat
      <4>1. m \in 1..Len(q)
        BY <2>2
      <4>2. q[m] \in Futures
        BY <1>5, <4>1
      <4>. QED
        BY <1>7, <4>2
    <3>. DEFINE u == U[m - 1]
                x == left[m - 1]
                r == a[q[m]].remaining
                z == Assigned(a) + rem
    <3>5. /\ U[m] = u + r
          /\ left[m] = x - r
          /\ u + x = z
          /\ u \in Nat /\ x \in Nat /\ r \in Nat
      BY <2>4, <3>1, <3>2, <3>3, <3>4
    <3>. HIDE DEF u, x, r, z
    <3>6. U[m] + left[m] = z
      BY <3>5
    <3>. QED
      BY <3>6 DEF T, z
  <2>. QED
    BY <2>5
<1>14. U[k] + left[k] = Assigned(a) + rem
  BY <1>13
<1>. HIDE DEF T
<1>15. /\ left[k] \in Nat
       /\ U[k] \in Nat
       /\ U[k] = Count(Futures, c[k])
  BY <1>3, <1>8
<1>16. \A f \in Futures :
          Parts(acq')[f] = IF k < Len(q) /\ f = q[k + 1] THEN c[k][f] + left[k] ELSE c[k][f]
  <2>. TAKE f \in Futures
  <2>1. CASE f \notin Range(q)
    <3>1. f \notin Served(q, k) /\ ~(k < Len(q) /\ f = q[k + 1])
      BY <2>1 DEF Served, Range
    <3>2. acq'[f] = a[f]
      BY <1>4, <2>1 DEF Elementwise
    <3>. QED
      BY <3>1, <3>2 DEF Parts, c
  <2>2. CASE f \in Range(q)
    <3>1. PICK i \in 1..Len(q) : q[i] = f
      BY <2>2 DEF Range
    <3>2. /\ acq'[f].num = a[f].num
          /\ i <= k => acq'[f].remaining = 0
          /\ i = k + 1 => acq'[f].remaining = a[f].remaining - left[k]
          /\ i > k + 1 => acq'[f] = a[f]
      BY <1>4, <3>1 DEF Elementwise
    <3>3. f \in Served(q, k) <=> i <= k
      BY <1>6, <3>1 DEF Served
    <3>4. k < Len(q) /\ f = q[k + 1] <=> i = k + 1
      BY <1>6, <3>1
    <3>5. left[k] \in Nat /\ f \in Futures /\ k \in Nat /\ i \in Nat
      BY <1>3
    <3>6. Parts(acq')[f] = acq'[f].num - acq'[f].remaining
      BY DEF Parts
    <3>7. c[k][f] = IF i <= k THEN a[f].num ELSE a[f].num - a[f].remaining
      BY <3>3 DEF c
    <3>8. a[f].num \in Nat /\ a[f].remaining \in Nat
      BY <1>7
    <3>. HIDE DEF c
    <3>. QED
      BY <3>2, <3>4, <3>5, <3>6, <3>7, <3>8
  <2>. QED
    BY <2>1, <2>2
<1>17. c[k] \in [Futures -> Nat]
  BY <1>8
<1>18. Parts(acq') = [f \in Futures |-> Parts(acq')[f]]
  BY DEF Parts
<1>19. CASE k = Len(q)
  <2>1. Parts(acq') = c[k]
    BY <1>16, <1>17, <1>18, <1>19
  <2>2. Assigned(acq') = U[k]
    BY <1>15, <2>1 DEF Assigned
  <2>3. permits' = avail + left[k]
    BY <1>2, <1>19
  <2>. DEFINE x == left[k]
              y == U[k]
              z == Assigned(a)
  <2>4. x \in Nat /\ y \in Nat /\ z \in Nat /\ y + x = z + rem
    BY <1>12, <1>14, <1>15
  <2>5. permits' + Assigned(acq') = avail + x + y
    BY <2>2, <2>3
  <2>. HIDE DEF x, y, z
  <2>6. permits' + Assigned(acq') = avail + rem + z
    BY <2>4, <2>5
  <2>. QED
    BY <2>6 DEF z
<1>20. CASE k < Len(q)
  <2>1. q[k + 1] \in Futures
    BY <1>5, <1>20
  <2>. DEFINE f == q[k + 1]
  <2>2. f \in Futures /\ c[k][f] \in Nat
    BY <1>17, <2>1
  <2>3. /\ Parts(acq')[f] = c[k][f] + left[k]
        /\ \A g \in Futures : g # f => Parts(acq')[g] = c[k][g]
    BY <1>16, <1>20, <2>2
  <2>. HIDE DEF f
  <2>4. Parts(acq') \in [Futures -> Nat]
    <3>1. Parts(acq')[f] \in Nat
      BY <1>15, <2>2, <2>3
    <3>2. \A g \in Futures : g # f => Parts(acq')[g] \in Nat
      BY <1>17, <2>3
    <3>. QED
      BY <1>18, <3>1, <3>2
  <2>. DEFINE x == c[k]
              y == Parts(acq')
  <2>5. x \in [Futures -> Nat] /\ \A g \in Futures : g # f => y[g] = x[g]
    BY <1>17, <2>3
  <2>6. Assigned(acq') = U[k] + left[k]
    <3>1. y[f] = x[f] + left[k] /\ x[f] \in Nat /\ y \in [Futures -> Nat]
      BY <2>2, <2>3, <2>4
    <3>. HIDE DEF x, y
    <3>2. ChangedBy(Futures, x, y, f)
      BY <2>2, <2>5, <3>1, UnitsChange, SemaphoreAssumption
    <3>3. U[k] = Count(Futures, x) /\ Assigned(acq') = Count(Futures, y)
      BY <1>15 DEF x, y, Assigned
    <3>. QED
      BY <1>15, <3>1, <3>2, <3>3 DEF ChangedBy
  <2>7. permits' = avail
    BY <1>2, <1>20
  <2>. QED
    BY <1>12, <1>14, <1>15, <2>6, <2>7
<1>. QED
  BY <1>19, <1>20

\* PermitsConserved, on the count of permits assigned.
Tally == permits + Assigned(acq) = balance

LEMMA TallyIsConservation ==
    /\ PermitsConserved <=> Tally
    /\ PermitsConserved' <=> Tally'
<1>1. AssignedUnits = Units(Futures, Parts(acq))
  BY DEF AssignedUnits, Units, Parts
<1>2. AssignedUnits' = Units(Futures, Parts(acq'))
  BY DEF AssignedUnits, Units, Parts
<1>. QED
  BY <1>1, <1>2 DEF PermitsConserved, Tally, Assigned, Count

LEMMA TallyFacts ==
    ASSUME FairInv, Tally
    PROVE  /\ permits \in Nat
           /\ balance \in Int
           /\ waiters \in Seq(Futures)
           /\ Distinct(waiters)
           /\ acq \in [Futures -> Future]
           /\ \A f \in Futures : acq[f].num \in Nat /\ acq[f].remaining \in Nat
           /\ \A f \in Futures : acq[f].remaining <= acq[f].num
           /\ \A f \in Futures : ~acq[f].queued => acq[f].remaining = acq[f].num
           /\ Assigned(acq) \in Nat
           /\ permits + Assigned(acq) = balance
<1>1. acq \in [Futures -> Future] /\ \A f \in Futures : acq[f].remaining <= acq[f].num
  BY FairFacts
<1>2. \A f \in Futures : acq[f] \in Future
  BY <1>1
<1>3. \A f \in Futures : acq[f].num \in Nat /\ acq[f].remaining \in Nat
  BY <1>2 DEF Future
<1>4. Assigned(acq) \in Nat
  BY <1>1, PartsType
<1>. QED
  BY <1>1, <1>3, <1>4, FairFacts DEF Tally, Requested, Request

\* The future f is gone, with what it was assigned.
LEMMA AssignedWithout ==
    ASSUME FairInv, Tally, NEW f \in Futures
    PROVE  /\ [acq EXCEPT ![f] = NoFuture] \in [Futures -> Future]
           /\ \A g \in Futures : [acq EXCEPT ![f] = NoFuture][g].remaining
                                    <= [acq EXCEPT ![f] = NoFuture][g].num
           /\ Assigned([acq EXCEPT ![f] = NoFuture])
                 = Assigned(acq) - (acq[f].num - acq[f].remaining)
<1>. DEFINE a == [acq EXCEPT ![f] = NoFuture]
<1>1. /\ a \in [Futures -> Future]
      /\ a[f] = NoFuture
      /\ \A g \in Futures : g # f => a[g] = acq[g]
  BY TallyFacts DEF NoFuture, Future
<1>2. NoFuture.num = 0 /\ NoFuture.remaining = 0
  BY DEF NoFuture
<1>. HIDE DEF a
<1>3. \A g \in Futures : a[g].remaining <= a[g].num
  BY <1>1, <1>2, TallyFacts
<1>4. a[f].num - a[f].remaining = 0
  BY <1>1, <1>2
<1>5. Assigned(a) = Assigned(acq) - (acq[f].num - acq[f].remaining) + 0
  BY <1>1, <1>4, TallyFacts, AssignedChange
<1>6. Assigned(a) = Assigned(acq) - (acq[f].num - acq[f].remaining)
  BY <1>5, TallyFacts
<1>. QED
  BY <1>1, <1>3, <1>6 DEF a

\* Nothing happens to the permits of any future.
LEMMA SameParts ==
    ASSUME NEW a, NEW b,
           \A f \in Futures : b[f].num - b[f].remaining = a[f].num - a[f].remaining
    PROVE  Assigned(b) = Assigned(a)
  BY DEF Assigned, Parts

\* Each action moves permits between the word, the futures and the callers.
LEMMA TallyStep ==
    ASSUME FairInv, Tally, Next PROVE Tally'
<1>. USE DEF Tally
<1>0. \A f \in Futures : acq[f] \in Future
  BY TallyFacts
<1>1. ASSUME NEW f \in Futures, NEW n \in Amounts, Acquire(f, n) PROVE Tally'
  <2>0. n \in Nat
    BY SemaphoreAssumption
  <2>1. /\ acq' = [acq EXCEPT ![f] = NewFuture(n)]
        /\ acq[f].remaining = acq[f].num
        /\ UNCHANGED <<permits, balance>>
    BY <1>1, FairFacts DEF Acquire, Requested, Request
  <2>2. NewFuture(n).num = n /\ NewFuture(n).remaining = n
    BY DEF NewFuture, NoFuture
  <2>3. \A g \in Futures :
           acq'[g].num - acq'[g].remaining = acq[g].num - acq[g].remaining
    BY <2>0, <2>1, <2>2, TallyFacts
  <2>. QED
    BY <2>1, <2>3, SameParts
<1>2. ASSUME NEW f \in Futures, PollClosed(f) PROVE Tally'
  <2>1. \A g \in Futures :
           acq'[g].num - acq'[g].remaining = acq[g].num - acq[g].remaining
    BY <1>0, <1>2, TallyFacts DEF PollClosed, Future
  <2>. QED
    BY <1>2, <2>1, SameParts DEF PollClosed
<1>3. ASSUME NEW f \in Futures, PollFast(f) PROVE Tally'
  <2>1. /\ acq' = [acq EXCEPT ![f] = NoFuture]
        /\ permits' = permits - acq[f].num
        /\ balance' = balance - acq[f].num
        /\ acq[f].remaining = acq[f].num
    BY <1>3, TallyFacts DEF PollFast
  <2>2. Assigned(acq') = Assigned(acq) - (acq[f].num - acq[f].remaining)
    BY <2>1, AssignedWithout
  <2>. DEFINE n == acq[f].num
              x == Assigned(acq)
  <2>3. n \in Nat /\ x \in Nat /\ permits + x = balance /\ permits \in Nat /\ balance \in Int
    BY TallyFacts
  <2>4. Assigned(acq') = x - (n - n) /\ permits' = permits - n /\ balance' = balance - n
    BY <2>1, <2>2
  <2>. HIDE DEF n, x
  <2>5. permits' + Assigned(acq') = balance'
    BY <2>3, <2>4
  <2>. QED
    BY <2>5
\* The future takes what it was assigned and what it still needs.
<1>4. ASSUME NEW f \in Futures, PollAssigned(f) PROVE Tally'
  <2>. DEFINE a == [acq EXCEPT ![f] = NoFuture]
              n == acq[f].num
              m == acq[f].remaining
              x == Assigned(acq)
              z == Assigned(a)
  <2>1. /\ a \in [Futures -> Future]
        /\ \A g \in Futures : a[g].remaining <= a[g].num
        /\ z = x - (n - m)
    BY AssignedWithout
  <2>2. /\ n \in Nat /\ m \in Nat /\ x \in Nat
        /\ permits \in Nat /\ balance \in Int
        /\ permits + x = balance
    BY TallyFacts
  <2>3. /\ permits >= m
        /\ AddPermits(permits - m, 0, waiters, a)
        /\ balance' = balance - n
    BY <1>4 DEF PollAssigned
  <2>4. permits - m \in Nat
    BY <2>2, <2>3
  <2>. HIDE DEF a
  <2>5. permits' + Assigned(acq') = 0 + (permits - m) + z
    <3>. DEFINE rem == permits - m
    <3>. HIDE DEF rem
    <3>1. permits' + Assigned(acq') = 0 + rem + Assigned(a)
      BY <2>1, <2>3, <2>4, TallyFacts, ReleaseConserves DEF rem
    <3>. QED
      BY <3>1 DEF rem
  <2>. HIDE DEF n, m, x, z
  <2>6. permits' + Assigned(acq') = balance'
    BY <2>1, <2>2, <2>3, <2>5
  <2>. QED
    BY <2>6
\* The word is emptied into the future.
<1>5. ASSUME NEW f \in Futures, NEW c \in Contexts, PollPending(f, c) PROVE Tally'
  <2>. DEFINE n == acq[f].num
              m == acq[f].remaining
              x == Assigned(acq)
  <2>1. /\ n \in Nat /\ m \in Nat /\ x \in Nat /\ m <= n
        /\ permits \in Nat /\ balance \in Int
        /\ permits + x = balance
    BY TallyFacts
  <2>2. /\ permits' = 0
        /\ balance' = balance
        /\ permits < m
        /\ acq'[f].num = n
        /\ acq'[f].remaining = m - permits
        /\ \A g \in Futures : g # f => acq'[g] = acq[g]
    BY <1>0, <1>5, TallyFacts DEF PollPending, Future
  <2>3. /\ n - m + permits \in Nat
        /\ acq'[f].num - acq'[f].remaining = n - m + permits
    BY <2>1, <2>2
  <2>4. Assigned(acq') = x - (n - m) + (n - m + permits)
    <3>. DEFINE k == n - m + permits
    <3>. HIDE DEF k
    <3>1. Assigned(acq') = Assigned(acq) - (acq[f].num - acq[f].remaining) + k
      BY <2>2, <2>3, TallyFacts, AssignedChange DEF k
    <3>. QED
      BY <3>1 DEF k
  <2>. HIDE DEF n, m, x
  <2>5. permits' + Assigned(acq') = balance'
    BY <2>1, <2>2, <2>4
  <2>. QED
    BY <2>5
<1>6. ASSUME NEW f \in Futures, DropAcquire(f) PROVE Tally'
  <2>. DEFINE a == [acq EXCEPT ![f] = NoFuture]
              n == acq[f].num
              m == acq[f].remaining
              x == Assigned(acq)
              z == Assigned(a)
  <2>1. /\ a \in [Futures -> Future]
        /\ \A g \in Futures : a[g].remaining <= a[g].num
        /\ z = x - (n - m)
    BY AssignedWithout
  <2>2. /\ n \in Nat /\ m \in Nat /\ x \in Nat /\ m <= n
        /\ permits \in Nat /\ balance \in Int
        /\ permits + x = balance
        /\ ~acq[f].queued => n = m
    BY TallyFacts
  <2>3. balance' = balance
    BY <1>6 DEF DropAcquire
  <2>4. CASE acq[f].queued
    <3>. DEFINE q == Without(waiters, f)
                rem == n - m
    <3>1. AddPermits(rem, permits, q, a)
      BY <1>6, <2>4 DEF DropAcquire
    <3>2. rem \in Nat /\ q \in Seq(Futures) /\ Distinct(q)
      BY <2>2, TallyFacts, WithoutProperties
    <3>. HIDE DEF a, q, rem
    <3>3. permits' + Assigned(acq') = permits + rem + Assigned(a)
      BY <2>1, <2>2, <3>1, <3>2, ReleaseConserves
    <3>4. permits' + Assigned(acq') = permits + (n - m) + z
      BY <3>3 DEF rem
    <3>. HIDE DEF n, m, x, z
    <3>5. permits' + Assigned(acq') = balance'
      BY <2>1, <2>2, <2>3, <3>4
    <3>. QED
      BY <3>5
  <2>5. CASE ~acq[f].queued
    <3>1. acq' = a /\ permits' = permits
      BY <1>6, <2>5 DEF DropAcquire
    <3>2. permits' + Assigned(acq') = permits + z
      BY <3>1
    <3>. HIDE DEF n, m, x, z
    <3>3. permits' + Assigned(acq') = balance'
      BY <2>1, <2>2, <2>3, <2>5, <3>2
    <3>. QED
      BY <3>3
  <2>. QED
    BY <2>4, <2>5
<1>7. ASSUME NEW n \in Amounts, TryAcquire(n) PROVE Tally'
  <2>1. n \in Nat
    BY SemaphoreAssumption
  <2>2. permits' = permits - n /\ balance' = balance - n /\ acq' = acq
    BY <1>7 DEF TryAcquire
  <2>. DEFINE x == Assigned(acq)
  <2>3. x \in Nat /\ permits + x = balance /\ permits \in Nat /\ Assigned(acq') = x
    BY <2>2, TallyFacts
  <2>. HIDE DEF x
  <2>4. permits' + Assigned(acq') = balance'
    BY <2>1, <2>2, <2>3
  <2>. QED
    BY <2>4
<1>8. ASSUME NEW n \in Amounts, Release(n) PROVE Tally'
  <2>1. n \in Nat
    BY SemaphoreAssumption
  <2>2. AddPermits(n, permits, waiters, acq) /\ balance' = balance + n
    BY <1>8 DEF Release
  <2>3. permits' + Assigned(acq') = permits + n + Assigned(acq)
    BY <2>1, <2>2, TallyFacts, ReleaseConserves
  <2>. DEFINE x == Assigned(acq)
  <2>4. x \in Nat /\ permits + x = balance /\ permits \in Nat
        /\ permits' + Assigned(acq') = permits + n + x
    BY <2>3, TallyFacts
  <2>. HIDE DEF x
  <2>5. permits' + Assigned(acq') = balance'
    BY <2>1, <2>2, <2>4
  <2>. QED
    BY <2>5
<1>9. CASE Close
  <2>1. \A g \in Futures :
           acq'[g].num - acq'[g].remaining = acq[g].num - acq[g].remaining
    <3>. TAKE g \in Futures
    <3>1. acq'[g] = Woken(acq[g]) \/ acq'[g] = acq[g]
      BY <1>9 DEF Close
    <3>. QED
      BY <1>0, <3>1 DEF Woken, Future
  <2>. QED
    BY <1>9, <2>1, SameParts DEF Close
<1>. QED
  BY <1>1, <1>2, <1>3, <1>4, <1>5, <1>6, <1>7, <1>8, <1>9 DEF Next, Poll

LEMMA TallyInit == Init => Tally
<1>. SUFFICES ASSUME Init PROVE Tally
  OBVIOUS
<1>1. permits \in Nat /\ balance = permits /\ acq = [f \in Futures |-> NoFuture]
  BY SemaphoreAssumption DEF Init
<1>2. \A f \in Futures : 1..Parts(acq)[f] = {}
  BY <1>1 DEF Parts, NoFuture
<1>3. Units(Futures, Parts(acq)) = {}
  BY <1>2 DEF Units
<1>4. Assigned(acq) = 0
  BY <1>3, FS_EmptySet DEF Assigned, Count
<1>. QED
  BY <1>1, <1>4 DEF Tally

\* No permit is lost and none is invented, however calls, cancellations, releases
\* in parts and the close follow each other.
THEOREM PermitsAreConserved == Spec => []PermitsConserved
<1>1. Init => FairInv /\ Tally
  BY FairInit, TallyInit
<1>2. FairInv /\ Tally /\ [Next]_vars => FairInv' /\ Tally'
  <2>. SUFFICES ASSUME FairInv, Tally, [Next]_vars PROVE FairInv' /\ Tally'
    OBVIOUS
  <2>1. CASE UNCHANGED vars
    BY <2>1, FairInductive DEF Tally, vars
  <2>. QED
    BY <2>1, FairInductive, TallyStep
<1>3. Tally => PermitsConserved
  BY TallyIsConservation
<1>. QED
  BY <1>1, <1>2, <1>3, PTL DEF Spec
=============================================================================
