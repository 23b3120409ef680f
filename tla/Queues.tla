------------------------------- MODULE Queues -------------------------------
(***************************************************************************)
(* Queues in which an element occurs at most once, as sequences with the   *)
(* oldest element first: what LinkedList is used for.                      *)
(***************************************************************************)
EXTENDS Naturals, Sequences, Functions

Distinct(q) == \A i, j \in DOMAIN q : q[i] = q[j] => i = j

\* Mutant: the element is not unlinked.
StillWith(q, e) == q

\* LinkedList::remove, which leaves a queue that does not hold e alone.
Without(q, e) ==
    IF e \in Range(q)
    THEN LET i == CHOOSE j \in 1..Len(q) : q[j] = e
         IN  SubSeq(q, 1, i - 1) \o SubSeq(q, i + 1, Len(q))
    ELSE q
=============================================================================
