----------------------------- MODULE LinkedList -----------------------------
(***************************************************************************)
(* The intrusive doubly linked list of src/linked_list.rs, pointer by      *)
(* pointer.  The nodes are owned by the callers (the Acquire futures), the *)
(* list only links them; a caller pushes a node that is in no list, and    *)
(* may ask to remove any node.                                             *)
(***************************************************************************)
EXTENDS Integers, Sequences, Functions, Queues

CONSTANTS
    Nodes,  \* the nodes, wherever they are
    Null    \* the None of Option<NonNull<T>>

ASSUME LinkedListAssumption == Null \notin Nodes

VARIABLES
    head, tail,  \* the fields of LinkedList
    prev, next,  \* the Pointers of each node
    result,      \* what the last call returned
    order        \* history: the nodes in the list, oldest first

vars == <<head, tail, prev, next, result, order>>
-----------------------------------------------------------------------------
\* LinkedList::new; Pointers::new
Init ==
    /\ head = Null
    /\ tail = Null
    /\ prev = [n \in Nodes |-> Null]
    /\ next = [n \in Nodes |-> Null]
    /\ result = Null
    /\ order = <<>>

\* Mutant: the old head is not told of its new neighbour.
PushFrontOneWay(n) ==
    /\ n \notin Range(order)
    /\ next' = [next EXCEPT ![n] = head]
    /\ prev' = [prev EXCEPT ![n] = Null]
    /\ head' = n
    /\ tail' = IF tail = Null THEN n ELSE tail
    /\ result' = Null
    /\ order' = Append(order, n)

\* push_front asserts head # n, which its contract implies.
PushFront(n) ==
    /\ n \notin Range(order)
    /\ next' = [next EXCEPT ![n] = head]
    /\ prev' = [m \in Nodes |->
                  IF m = head THEN n ELSE IF m = n THEN Null ELSE prev[m]]
    /\ head' = n
    /\ tail' = IF tail = Null THEN n ELSE tail
    /\ result' = Null
    /\ order' = Append(order, n)

\* Mutant: the node that is popped keeps its pointers.
PopBackDangling ==
    \/ /\ tail = Null
       /\ result' = Null
       /\ UNCHANGED <<head, tail, prev, next, order>>
    \/ /\ tail # Null
       /\ tail' = prev[tail]
       /\ head' = IF prev[tail] = Null THEN Null ELSE head
       /\ next' = [m \in Nodes |-> IF m = prev[tail] THEN Null ELSE next[m]]
       /\ UNCHANGED prev
       /\ result' = tail
       /\ order' = Tail(order)

\* pop_back: `tail?` returns None from an empty list.
PopBack ==
    \/ /\ tail = Null
       /\ result' = Null
       /\ UNCHANGED <<head, tail, prev, next, order>>
    \/ /\ tail # Null
       /\ tail' = prev[tail]
       /\ head' = IF prev[tail] = Null THEN Null ELSE head
       /\ next' = [m \in Nodes |-> IF m = prev[tail] \/ m = tail
                                   THEN Null ELSE next[m]]
       /\ prev' = [prev EXCEPT ![tail] = Null]
       /\ result' = tail
       /\ order' = Tail(order)

\* The two early returns of remove; the second comes after the first half of
\* the list has been relinked.
RemoveNone(n) ==
    /\ result' = Null
    /\ UNCHANGED <<prev, tail, order>>
    /\ \/ /\ prev[n] = Null
          /\ head # n
          /\ UNCHANGED <<head, next>>
       \/ /\ prev[n] # Null \/ head = n
          /\ next[n] = Null
          /\ tail # n
          /\ head' = IF prev[n] = Null THEN next[n] ELSE head
          /\ next' = IF prev[n] = Null THEN next
                     ELSE [next EXCEPT ![prev[n]] = next[n]]

RemoveSome(n) ==
    /\ prev[n] # Null \/ head = n
    /\ next[n] # Null \/ tail = n
    /\ head' = IF prev[n] = Null THEN next[n] ELSE head
    /\ tail' = IF next[n] = Null THEN prev[n] ELSE tail
    /\ next' = [m \in Nodes |->
                  IF m = n THEN Null ELSE IF m = prev[n] THEN next[n] ELSE next[m]]
    /\ prev' = [m \in Nodes |->
                  IF m = n THEN Null ELSE IF m = next[n] THEN prev[n] ELSE prev[m]]
    /\ result' = n
    /\ order' = Without(order, n)

Last == result' = tail /\ UNCHANGED <<head, tail, prev, next, order>>

Next ==
    \/ \E n \in Nodes : PushFront(n) \/ RemoveNone(n) \/ RemoveSome(n)
    \/ PopBack
    \/ Last

Spec == Init /\ [][Next]_vars
-----------------------------------------------------------------------------
TypeOK ==
    /\ head \in Nodes \cup {Null}
    /\ tail \in Nodes \cup {Null}
    /\ prev \in [Nodes -> Nodes \cup {Null}]
    /\ next \in [Nodes -> Nodes \cup {Null}]
    /\ result \in Nodes \cup {Null}
    /\ order \in Seq(Nodes)

\* The pointers are those of one list, the same read in both directions (so the
\* assertions of remove and is_empty hold), with nothing in it twice; and a node
\* outside it points nowhere and is pointed at by none, so that a dropped waiter
\* cannot be reached.
Linked ==
    /\ Distinct(order)
    /\ tail = IF order = <<>> THEN Null ELSE order[1]
    /\ head = IF order = <<>> THEN Null ELSE order[Len(order)]
    /\ \A i \in DOMAIN order :
          /\ prev[order[i]] = IF i = Len(order) THEN Null ELSE order[i + 1]
          /\ next[order[i]] = IF i = 1 THEN Null ELSE order[i - 1]
    /\ \A n \in Nodes \ Range(order) : prev[n] = Null /\ next[n] = Null

IndInv == TypeOK /\ Linked

\* The list implements a queue: what its calls return is what the queue would,
\* in particular remove tells if the node was in the list.
Queue == INSTANCE WaitQueue WITH queue <- order

QueueSpec == Queue!Spec
=============================================================================
