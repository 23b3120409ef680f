----------------------------- MODULE BlockQueue -----------------------------
(***************************************************************************)
(* The queue of values of src/mpsc/block.rs: a chain of blocks, read at    *)
(* `head` and written at `tail`.  A block that has been read to its end is *)
(* moved behind the tail, to be written again.  The unsafe functions do    *)
(* not check what they rely on: UnboundedChannel has their callers.        *)
(***************************************************************************)
EXTENDS Integers, Sequences, FiniteSets

CONSTANTS
    Blocks,    \* addresses of blocks
    Null,      \* no block
    BlockCap,  \* BLOCK_CAP
    Values,
    Uninit,    \* what memory that was not written holds
    MaxLen     \* bound of the model: values in the queue

VARIABLES
    head, tail, len,         \* the fields of Queue
    next, begin, end, cells, \* the fields of each Block
    heap,                    \* the blocks that are allocated
    popped                   \* what the last pop returned

vars == <<head, tail, len, next, begin, end, cells, heap, popped>>
-----------------------------------------------------------------------------
\* Queue::new; Block::new leaves the cells uninitialised.
Init ==
    /\ \E b \in Blocks : head = b /\ tail = b /\ heap = {b}
    /\ len = 0
    /\ next = [b \in Blocks |-> Null]
    /\ begin = [b \in Blocks |-> 0]
    /\ end = [b \in Blocks |-> 0]
    /\ cells = [b \in Blocks |-> [i \in 0..BlockCap - 1 |-> Uninit]]
    /\ popped = Uninit

\* push_unchecked writes to the tail; a tail that is full then is left for the
\* block behind it, a recycled one or a new one.
Push(v) ==
    /\ len < MaxLen
    /\ cells' = [cells EXCEPT ![tail][end[tail]] = v]
    /\ end' = [end EXCEPT ![tail] = @ + 1]
    /\ len' = len + 1
    /\ \/ /\ end'[tail] < BlockCap
          /\ UNCHANGED <<tail, next, heap>>
       \/ /\ end'[tail] >= BlockCap
          /\ next[tail] # Null
          /\ tail' = next[tail]
          /\ UNCHANGED <<next, heap>>
       \/ /\ end'[tail] >= BlockCap
          /\ next[tail] = Null
          /\ \E b \in Blocks \ heap :
                /\ heap' = heap \cup {b}
                /\ next' = [next EXCEPT ![tail] = b]
                /\ tail' = b
    /\ UNCHANGED <<head, begin, popped>>

\* Mutant: the recycled block replaces those behind the tail.
PopForgetFree ==
    /\ popped' = cells[head][begin[head]]
    /\ cells' = [cells EXCEPT ![head][begin[head]] = Uninit]
    /\ len' = len - 1
    /\ IF begin[head] + 1 < BlockCap
       THEN /\ begin' = [begin EXCEPT ![head] = @ + 1]
            /\ UNCHANGED <<head, next, end>>
       ELSE /\ head' = next[head]
            /\ begin' = [begin EXCEPT ![head] = 0]
            /\ end' = [end EXCEPT ![head] = 0]
            /\ next' = [next EXCEPT ![head] = Null, ![tail] = head]
    /\ UNCHANGED <<tail, heap>>

\* Mutant: the block is left where it is.
PopNoRecycle ==
    /\ popped' = cells[head][begin[head]]
    /\ cells' = [cells EXCEPT ![head][begin[head]] = Uninit]
    /\ len' = len - 1
    /\ begin' = [begin EXCEPT ![head] = @ + 1]
    /\ head' = IF begin[head] + 1 < BlockCap THEN head ELSE next[head]
    /\ UNCHANGED <<tail, next, end, heap>>

\* pop_unchecked, which its callers make of a queue that is not empty
Pop ==
    /\ popped' = cells[head][begin[head]]
    /\ cells' = [cells EXCEPT ![head][begin[head]] = Uninit]
    /\ len' = len - 1
    /\ IF begin[head] + 1 < BlockCap
       THEN /\ begin' = [begin EXCEPT ![head] = @ + 1]
            /\ UNCHANGED <<head, next, end>>
       ELSE /\ head' = next[head]
            /\ begin' = [begin EXCEPT ![head] = 0]
            /\ end' = [end EXCEPT ![head] = 0]
            /\ next' = [next EXCEPT ![head] = next[tail], ![tail] = head]
    /\ UNCHANGED <<tail, heap>>

Elements(q) == {q[i] : i \in DOMAIN q}

\* The walk along `next` from the head, through blocks that are allocated: it
\* comes to each once, and to one that has none behind it.
IsWalk(s) ==
    /\ s[1] = head
    /\ \A i \in DOMAIN s : next[s[i]] = IF i = Len(s) THEN Null ELSE s[i + 1]
    /\ \A i, j \in DOMAIN s : s[i] = s[j] => i = j

Walks == UNION {[1..n -> heap] : n \in 1..Cardinality(heap)}

Chain == CHOOSE s \in Walks : IsWalk(s)

\* free_blocks, which its caller makes when all values have been popped
FreeBlocks ==
    /\ heap' = heap \ Elements(Chain)
    /\ head' = Null
    /\ UNCHANGED <<tail, len, next, begin, end, cells, popped>>
-----------------------------------------------------------------------------
\* The values that the next pops will return: what is in the cells on from `begin`
\* of the head, block by block.
Stored ==
    IF head = Null THEN <<>>
    ELSE LET chain == Chain
         IN  [i \in 1..len |->
                 LET at == begin[head] + i - 1
                 IN  cells[chain[at \div BlockCap + 1]][at % BlockCap]]

\* The chain has each allocated block once, so that free_blocks frees all of
\* them, none twice; the tail has a free cell, as push relies on; blocks behind
\* it are as new; and the cells that hold values are exactly those between the
\* indices, so that pop never returns uninitialised memory; `len`, by which the
\* callers know that the queue is not empty, is their number.
ChainSound ==
    /\ head = Null => heap = {} /\ len = 0
    /\ head # Null =>
         \E s \in Walks : \E t \in DOMAIN s :
            /\ IsWalk(s)
            /\ Elements(s) = heap
            /\ s[t] = tail
            /\ end[tail] < BlockCap
            /\ \A i \in 1..t-1 : end[s[i]] = BlockCap
            /\ \A i \in t+1..Len(s) : end[s[i]] = 0
            /\ \A i \in 2..Len(s) : begin[s[i]] = 0
            /\ len = (t - 1) * BlockCap + end[tail] - begin[head]
    /\ \A b \in heap : \A i \in 0..BlockCap - 1 :
          cells[b][i] # Uninit <=> i \in begin[b]..end[b]-1

\* Recycling bounds the memory: a queue that never held more than MaxLen values
\* never has more blocks than these fill, and the two at the ends.
FewBlocks == Cardinality(heap) <= MaxLen \div BlockCap + 2

\* What the pops return, in order, are the values of a queue.
Queue == INSTANCE ValueQueue WITH queue <- Stored, live <- head # Null

QueueSpec == Queue!Spec
=============================================================================
