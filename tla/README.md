# A TLA+ model of local-sync

local-sync (`src/`) is a Rust crate of synchronisation primitives for tasks that
share one thread: a semaphore, bounded and unbounded mpsc channels, a oneshot
channel and a once cell. Nothing in it is atomic in the hardware sense and
nothing runs in parallel. What is hard is the order in which tasks call, poll,
cancel and drop things, memory that is reached through raw pointers and
`MaybeUninit`, and wakers, which must reach the task that waits now.

This directory holds specifications of these parts, configurations that check
them with TLC, and proofs that TLAPS checks. `PROJECT.json` lists the runs, the
theorems, the lines each definition models, and the hazards the properties are for.

## 1. Inventory

| part | state | operations | used by |
|---|---|---|---|
| `Inner` (`semaphore.rs:21-336`) with `Waitlist`, `Waiter`, `Acquire` | one word `permits` (count `<< 1`, CLOSED bit), the intrusive list of waiters; in each `Acquire` the permits still missing, the waker, `queued` | `new`, `acquire`, poll and drop of `Acquire`, `try_acquire`, `release`/`add_permits`, `close` | `Semaphore`, the bounded channel |
| `Semaphore` and guards (`semaphore.rs:535-995`) | an `Inner`; the count in each guard | `acquire*`, `try_acquire*`, owned variants, `forget`, drop of a guard, `add_permits`, `close` | users, `OnceCell` |
| `LinkedList` (`linked_list.rs`) | `head`, `tail`, `prev`/`next` in the nodes, which the callers own | `push_front`, `pop_back`, `remove`, `last`, `is_empty` | `Inner` |
| `WakeList` (`wake_list.rs`) | up to 32 wakers on the stack | `push`, `wake_all`, drop | `Inner::add_permits` |
| oneshot (`oneshot.rs`) | four bits, the value, two uninitialised cells for wakers, two handles | `send`, `poll_closed`, `close`, `try_recv`, poll, drops | users |
| `Chan` (`mpsc/chan.rs`) | queue, `rx_waker`, `tx_count`, a semaphore | `send`, `recv`, `try_recv`, `close`, clone and drop of handles | both mpsc channels |
| bounded (`mpsc/bounded.rs`) | `Chan` with `Inner` | `send` (acquire, then `Chan::send`), `recv`, `try_recv`, `close` | users |
| unbounded (`mpsc/unbounded.rs`) | `Chan` with `Unlimited`, a closed flag | the same, `send` never waits | users |
| block queue (`mpsc/block.rs`) | a chain of 32-cell blocks, `head`, `tail`, `len` | `push_unchecked`, `pop_unchecked`, `free_blocks` | `Chan` |
| `OnceCell` (`once_cell.rs`) | the value, `value_set`, a `Semaphore` of one permit | `new`, `new_with`, `get_or_init`, `get_or_try_init`, `set`, `take`, `into_inner`, `get`, drop | users |

The parts interact by direct calls. The executor is outside: it polls a future
with a `Context`, and a part that wakes the waker of that context asks for another
poll. Tasks may drop a future at any point between two polls.

What makes each part correct:

* **Inner**: the word holds a count; permits are conserved through cancellation and close; the list never
  has the node of a future that is finished or freed; waiters are served in order
  and are not overtaken; a waiter that is served is woken, through the waker of
  its *last* poll; close is final.
* **Semaphore**: the permits in guards, futures and the word add up.
* **LinkedList**: it is a queue; removing a node that is not in it changes nothing.
* **oneshot**: the bits agree with the waker cells; a value is received, or given
  back, or dropped, once; nobody sleeps through the event, even if the other end
  acts from the code of a waker in the middle of a poll.
* **channels**: order, the bound, no loss of places, no send after close, wakeups.
* **block queue**: it is a queue; blocks are neither shared, lost nor hoarded.
* **OnceCell**: one initialiser at a time, one value; a failed attempt is passed on;
  whatever ends the cell, its value is handed out or dropped once.

`PROJECT.json` lists the hazards with their lines. Those without a property have a
note that says why.

## 2. Modules

| module | models | |
|---|---|---|
| `Queues` | queues of distinct elements, `Without` is what `remove` does | |
| `FairSemaphore` | what the semaphore promises: a line of requests, granted whole and in order | abstract |
| `SemaphoreInner` | `Inner`, `Acquire` | core; implements `FairSemaphore` |
| `PermitWord` | the word of `Inner` at its width, read and written as the code does | |
| `AddPermitsLoop` | `add_permits` turn by turn, `WakeList` cell by cell | implements `SemaphoreInner!AddPermits` |
| `Semaphore` | `Semaphore`, guards | instance of `SemaphoreInner` |
| `WaitQueue` | what the list promises | abstract |
| `LinkedList` | the list, pointer by pointer | implements `WaitQueue` |
| `OneshotPromise` | what the oneshot channel promises | abstract |
| `Oneshot` | the oneshot channel | implements `OneshotPromise` |
| `Fifo` | what a channel promises | abstract |
| `Chan` | what both channels share, all but the queue and the semaphore | |
| `BoundedChannel` | `Chan` and `SemaphoreInner` step by step together | implements `Fifo`, and `SemaphoreInner` |
| `ValueQueue` | what the block queue promises, and asks of its caller | abstract |
| `BlockQueue` | the chain of blocks; it is stepped by `UnboundedChannel` | implements `ValueQueue` |
| `UnboundedChannel` | `Chan`, `BlockQueue` and `Unlimited` step by step together, to the end of their memory | implements `Fifo`, and `ValueQueue` |
| `OnceCell` | the once cell on `SemaphoreInner` | |
| `SemaphoreInnerProofs`, `InnerDetailProofs` (of `AddPermitsLoop` and `PermitWord`), `SemaphoreProofs`, `LinkedListProofs`, `OneshotProofs`, `BoundedChannelProofs`, `UnboundedChannelProofs`, `OnceCellProofs` | proofs | |
| `MC*` | instances for TLC | |

### Atomicity

One thread runs everything, so a method call is one step and what interleaves
are calls, polls and drops. Two kinds of code run *inside* a call and could call
back: wakers, and destructors of values.

* In `Oneshot` a poll that replaces its waker drops the old one and clones the
  new one. That code belongs to the executor and may release a task together
  with the handle at the other end. The poll is therefore split there
  (`PollRecvSwap`, then `EndRecvSwap`, and the same for `poll_closed`): between the
  two the other handle may send, close or be dropped, but not be polled. This
  is where the second look at the state (`oneshot.rs:501`, `:755`) matters.
* In the channels the drop of `Rx` runs the destructors of the values that are
  left (`chan.rs:228`). `rx.phase = "dropping"` is that time: senders and their
  pending sends may be dropped in it, nothing else happens. In `UnboundedChannel`
  the values go one by one (`DestroyValue`), and a destructor that panics ends the
  drop with the rest in the queue. In `BoundedChannel` they go at once: there the
  permits that a panic loses belong to a semaphore that is closed, where nobody can
  take them.
* `Drop for Chan` runs when no handle is left, so nothing comes between its steps
  either; they are separate (`DropChanValue`, `FreeChan`) because a destructor
  may panic between them, and then the blocks are never freed (`leaked`).
* Destructors may drop senders, not send: in `chan.rs:228` the semaphore is closed
  before the first value goes, so a send from there is refused and changes nothing.
* `set` of `OnceCell` acquires and writes in one call: `Running` keeps others away.
* Waking only schedules a task. Wakers that call back into a semaphore or an mpsc
  channel, which would find a `RefCell` borrowed and panic, are not modelled.

### How the state corresponds to the code

`SemaphoreInner`: `permits` and `closed` are the two parts of the word; the model
sets `closed` to FALSE where the code clears the whole word (line 305), which
is harmless only because it was checked before: `ClosedForGood` says so.
`Waitlist.closed` is written and never read, so it is left out.
`waiters` is the list, oldest first. `acq[f]` is the `Acquire` future in slot f:
`remaining` is `Waiter.state`, `queued` and `num` are its fields, `waker` the
registered waker; `cx` and `notified` belong to the executor. A future that has
returned Ok is gone (its drop does nothing); one that has returned an error is
`"failed"` until it is dropped, since its drop returns what it was assigned.
`balance` is a history variable. `AddPermits(rem, avail, q, a)` is `add_permits`,
with its loop written as a function of the number of waiters served; callers pass
the state that they leave behind, so that `PollAssigned` and `DropAcquire` are
one step with the release they end in.

`AddPermitsLoop`: the variables of `add_permits` and the fields of `WakeList`; a cell
of `inner` holds the future whose waker it has, `None` when it is uninitialised or
moved out. What others see of the call is the state at its start until `pc` is
`"done"`: the wait list is borrowed all the time. `OneStep` says that the
change seen then is one step of `AddPermits`, and so justifies the single step in
`SemaphoreInner`. The assertion and the wakers may panic, which ends in `Unwind`.

`FairSemaphore` is met by reading `waiters` as the line, the queued futures that need
nothing more as the granted requests, and the word together with what the *first*
waiter has been assigned so far as the pool. Nobody but the first has a part
of what it asked for, or that reading would lose permits: this is what `DropAcquire` has
to keep up when the first one leaves.

`PermitWord`: `word` is the usize, with shifts that lose their highest bit and additions that
wrap, as in a release build (a debug build panics on the latter); `slot[s]` is a request: a guard, or an `Acquire` with
what it holds. There is one short waiter at a time, since the list is not what
this module is about, and `supply` is the number of permits that ought to be there.

`LinkedList`: one variable per field, the pointers as functions on the nodes;
`order` is a history variable, the list as a sequence.

`Oneshot`: `complete`, `closed`, `rxSet`, `txSet` are the bits, `rxTask`, `txTask`
the cells, `None` in a cell means uninitialised (or dropped). `rx`, `tx` are the
handles with what the executor knows of the tasks behind them.

`Chan`: `txs` is the set of live senders, `tx_count` its size. It reads the length of the
queue, `len`, and leaves the queue to the two channels: a sequence in `BoundedChannel`,
where the semaphore is what matters, the blocks in `UnboundedChannel`, where it is
the memory. Both use the same code for it. `Fifo` is told that the channel is closed
when the semaphore is, the receiver is gone, or no sender is left.

`BlockQueue`: one variable per field of `Queue` and `Block`; `heap` is the set of
allocated blocks; `head = Null` after `free_blocks`.

`OnceCell`: `call[f]` is the point of `get_or_init` or `set` at which call f is;
the other variables are those of `SemaphoreInner` and the fields of the cell.
The value is named by the call that wrote it; it stays in `value` when it is moved out,
as its bits do in the `MaybeUninit`. `cell` follows the cell to its end: `take` is
`into_inner` on the cell that `mem::take` has moved out, so it is `MoveOut`, then the
drop of that cell, with an empty one in its place. `NewCell` starts over.

## 3. Runs

`tlc -config X.cfg M` in this directory. Each takes seconds, except `semaphore`,
`unbounded_channel` and `bounded_channel`, which take up to a minute.

| run | what it shows | bounds |
|---|---|---|
| `semaphore_inner` | the safety of the low level semaphore: list, conservation, order, wakeups, close; refinement of `FairSemaphore` | 3 futures, 2 contexts, requests and releases of 0 to 3, at most 3 permits out |
| `permit_word` | the word is the number of permits, flag apart, whatever is added or masked | a word of 5 bits, requests of 4, 3 slots, at most 7 permits |
| `add_permits_loop` | the batches end, have the effect of the one step, and use each waker once | up to 3 waiters short of 1 or 2, 1 to 6 permits, batches of 2, a limit of 2 on what goes to the word |
| `semaphore` | the guards account for all permits; they use `Inner` by its own steps; every waiter is answered, every waiter learns of a close | 3 slots, all forgettable, 2 contexts, requests of 0 to 2, at most 2 permits |
| `linked_list` | the inductive invariant; refinement of `WaitQueue` | 5 nodes |
| `oneshot` | waker cells, wakeups, the promise, both ends answered | 3 contexts |
| `bounded_channel` | capacity, wakeups, `Fifo`, use of `Inner`, sends and recvs are answered | 3 senders, 2 contexts, 2 values, buffer 2 |
| `unbounded_channel` | wakeups, `Fifo`, recv is answered; the chain of blocks, memory, refinement of `ValueQueue` | 2 senders, 2 contexts, 2 values, 4 blocks of 2 cells, at most 3 values in the queue |
| `once_cell` | one initialiser, one value, disposed of once, attempts passed on, calls return | 4 calls, 2 contexts |
| `permit_limit` | *violated*: the documented limit on permits | 1 future, as `semaphore_inner` otherwise |
| `permit_word_32` | *violated*: a guard holds permits that exist | as `permit_word`, with requests of 5 bits |
| `try_recv_empty` | *violated*: the doc of `TryRecvError::Empty` | as `bounded_channel` |

Why the bounds are enough to be interesting. Three futures are one that is
served, one that is half served and one behind it, with a cancellation of any of
them; amounts from 0 to 3 have requests that need several releases and releases
that serve several requests and leave a rest. Two contexts are the old and the
new task of a future; oneshot has a third for the other end. Three waiters and
batches of two are a full batch and another; the batch may be full when the list is
empty and when it is not, and when permits are left and when they are not.
Five nodes of a list
allow to remove one with neighbours on both sides that have neighbours. Four
blocks of two cells go round: with three values in the queue a block is recycled, a
second lies behind the tail, and the chain wraps several times. A word of five bits with
requests of four has a bit to spare for the shift, as a usize of 64 bits has for a
`u32`; with requests of five it has none, as on a 32-bit target. Four calls of the
cell are one that initialises, two that wait, and one that comes late.
`MaxBalance`, `MaxSupply`, `MaxRem`, `MaxNeed` and `MaxLen` are bounds of the models
alone, and stand in the guards of the actions that would exceed them; `MaxPermits`, `NumWakers`
and `BlockCap` are constants of the code, made small.

Deadlock is checked for the semaphore, the word, the list and the cell, whose calls can
always go on. The oneshot channel, the mpsc channels and
a call of `add_permits` come to an end (both handles are gone, the blocks are freed), so their runs do
not check it; that nobody is stuck before is the liveness properties' part.

### Fairness

Weak or strong fairness is assumed only of what the executor, or code outside
the crate, has to do anyway:

* a task that has been woken is polled (`notified /\ Poll`). The condition is
  part of the action: an unwoken task is *not* polled, so a lost wakeup is a
  stuck task and a violation. `Oneshot` needs strong fairness, because a poll that
  the other end is inside of cannot be started at that moment;
* a future that has failed is dropped, guards are dropped, a code that
  initialises a cell ends in one way or other, destructors and wakers return.
  Forgotten guards never give their permits back, so `EveryWaiterAnswered` speaks of the
  times when no waiting request exceeds what is left (`Satisfiable`);
* the receiver of a channel goes on receiving. Without that no send is answered.

The loop of `add_permits` runs to its end: nothing comes in between.
Nothing is assumed of new calls, cancellations, releases or closes.

## 4. Properties

The definitions carry their own comments. The main ones:

* `SemaphoreInner!WaitersAreLive`: memory safety of the intrusive list.
* `NoIdlePermits`, `FirstComeFirstServed`: no barging. The first is why the second
  can hold although `try_acquire` and the fast path never look at the list.
* `NoLostWakeup` (in `SemaphoreInner`, `Oneshot`, `Chan`): what must be woken is,
  through the waker of the last poll.
* `PermitsConserved`, `PermitsAccounted`, `CapacityAccounted`: three levels of the
  same account: word and futures; plus guards; plus the queue of the channel.
* `ClosedForGood`: also of permits that were assigned before the close.
* `WordIsCount`: shifts, masks and additions of the word keep count and flag
  apart, and the count is what is neither held nor assigned.
* `FairSemaphoreSpec`: all that a user can tell from outside. The permits are given out in
  the order of the requests, none is granted in parts, and a withdrawal lets those
  behind move up at once.
* `LinkedList!QueueSpec`, `UnboundedChannel!QueueSpec`, `Oneshot!PromiseSpec`,
  `FifoSpec`: implementation of the abstract specifications. `ValueQueue` includes
  what the "# Safety" comments of `block.rs` ask: no pop of an empty queue, blocks
  freed once and only when the queue is empty.
* `BoundedChannel!InnerSpec`, `Semaphore!InnerSpec`: the composing modules only take
  steps of `SemaphoreInner`, so its theorems carry over.
* `OnceCell!ClosedWhenSet`, `OneInitializer`, `AttemptPassedOn`, `DisposedOnce`: the flag
  `value_set` is what the unsafe reads and the two drops of the value go by.

## 5. Where code and docs disagree

* `permit_limit`: `add_permits` compares only the permits of one call with
  `MAX_PERMITS` (`semaphore.rs:263`); the sum in the word may exceed the limit with
  no panic, against the docs at `semaphore.rs:171` and `:588`.
* `try_recv_empty`: after `Rx::close`, `try_recv` of an empty channel says `Empty`
  (`mpsc/chan.rs:182-186`) as long as a sender exists, though no data can come;
  the doc (`chan.rs:31-32`) says that data may yet become available. `recv` waits
  in that state until the last sender is gone.

* `permit_word_32`: `poll_acquire` shifts the `u32` of the request as a usize
  (`semaphore.rs:287`). Where usize has 32 bits the highest bit is lost, so that
  `acquire_many(1 << 31)` needs nothing of the word and returns a guard of `1 << 31`
  permits that never existed; `try_acquire_many` does check (`semaphore.rs:203`).

Not runs of their own: `semaphore.rs:151` calls `1 << 29` the maximum on 32-bit targets, where
`MAX_PERMITS` is `(1 << 29) - 1` and `new` masks `1 << 29` to 0. `channel(0)` makes a channel
whose sends all wait, which follows from its words.

## 6. Proofs

All with `tlapm`, for every value of the constants that the named assumptions
allow (finite sets of futures; `None`, `Null` different from what they stand for).

**SemaphoreInnerProofs.** `Invariance` proves `IndInv`, which adds to the
type invariant and the three checked invariants two facts: a future is not assigned
more than it asked for (`AssignedWithinRequest`), and a node in the list holds
the waker of its last poll (`WakerIsCurrent`). They are needed together: that no
permit idles is what makes the leftover of a poll zero while others wait; that
waiters are live and distinct is what lets the loop of `add_permits` serve a
prefix of the list without touching others; and waking is right only if the waker
is that of the last poll. The loop is handled once, by lemmas about `AddPermits` in
terms of "served", "fed" and "left alone", and used for each of its callers.
From `IndInv` follow `TypeCorrect`, `ListHoldsTheWaiting`, `PermitsDoNotIdle`,
`WakeupsAreNotLost`, and the action properties `Fair` and `CloseIsFinal`.
The module begins with the facts on `Without` and on distinct sequences.

`KeepsPromise`, in the second part of the module: `SemaphoreInner` implements `FairSemaphore`.
The invariant needed beside `IndInv` is that only the first waiter has been given a part of
what it needs (`OnlyFirstFed`; with a second one that part would be lost from the
pool) and that a future outside the list still needs what it asked for and has failed only
if the semaphore is closed (`Requested`). `ReleaseSettles` is the heart of it: the loop of
`add_permits`, which counts what each waiter still needs, serves the same prefix as the
abstract settling of a pool, which counts whole requests. Each action is then a
step of the line (join, leave, take, collect, give back, put, close) or changes nothing
that a user can see.

`PermitsAreConserved` needs `Requested`, too: a future that is not
queued has been assigned nothing. `Count` counts units as the checked property does, by the
cardinality of a set of pairs, and `UnitsChange` says what a change of one part
does to it. That the loop of `add_permits` conserves the sum (`ReleaseConserves`) is not
an induction over its turns, which the prover cannot do, but an argument by the least counterexample
(`Least`): the first turn after which the sum is wrong follows one after which it was right, and
differs from that by one waiter.

**InnerDetailProofs.** First the loop of `add_permits` with its wake list. `Loop(k, left)` says that k
waiters have been popped, and left[i] permits were there after the i-th: the list is what
is behind the k-th (`Suffix`), the others are as they were but for the oldest
(`Staying`), the permits are in `rem`, in the word or with a waiter (`Account`), and
each waiter that was popped has its waker in one cell below `curr`, or woken, or dropped (`Batch`,
`Fates`). Every turn keeps it for the same k, and `Serve` for the next (`ServeTurn`). Then
`WakersAreUsedOnce`, and `ImplementsOneStep`: when the call returns, k and `left` are
the witnesses that `AddPermits` of `SemaphoreInner` asks for.

Then the word (`PermitWord`, whose definitions have names that do not clash with those of the
loop). `WordCounts` says that `WordIsCount` holds where `Fits` does: twice the number of values of
a request is at most that of a word (a `u32` in a `usize` of 64 bits; `permit_word_32`
shows what happens otherwise), and the permits ever in existence fit in a word with the flag
(nothing in the code bounds their sum, see `permit_limit`). The instance that
`permit_word` checks is one of these. The invariant `WordInv` is the property with the types of the
slots and the bound on the supply: no sum wraps since the result counts permits that exist
(`GiveAdds`, `Released`).

**SemaphoreProofs.** `GuardsUseInner`: the public semaphore takes only steps
of `SemaphoreInner`, so that all of the above holds under the guards. The invariant is
that a guard holds a count that somebody asked for (`AskedFor`). `PermitsAreAccounted` adds
that a slot never has both a future and a guard, and that what the guards hold is what
has left the semaphore and was not forgotten (`GuardAccount`).

**BoundedChannelProofs, UnboundedChannelProofs.** `WakeupsAreNotLost`: a
waiting receiver has its last waker in `rx_waker` unless it has been woken
(`RxSound`), so the next value or the end of the channel reaches it.

`CapacityIsAccounted`, `SendsUseInner` and `ImplementsFifo` of the bounded channel rest on
`Account`: the semaphore is sound and its `balance` is what the queue leaves of
the buffer; each send asks for one place and its handle is alive; the semaphore is
closed when the receiver is not alive. Each action is shown to keep it, to be a step of
`SemaphoreInner` and to be one of `Fifo` at once (`Effect`). That the queue has room for a value
that is sent follows from the account *after* the send: the permits that are left and assigned are
no less than none. `Buffer` may be 0.

In the unbounded channel the work is in the blocks. `Sound(c, t)` says that c is the
chain of the blocks with the tail at place t: each allocated block once (`Layout`), full before
the tail, empty behind it (`Indices`), with values in the cells between the indices and in no
others (`Filled`). `Push` keeps it with t, or with t + 1, or with a block more
(`PushInTail`, `PushRecycled`, `PushNew`), `Pop` with the same chain or with the
head moved behind the tail (`PopInHead`, `PopOver`, `Rotated`). `Chain` is a CHOOSE over the
walks along `next`; it is c since there is one walk only (`WalkAgrees`, by the
least place where two differ). The i-th value is found by division: at cell j of the k-th block for
begin + i - 1 = (k - 1) * BlockCap + j (`Place`, `StoredAt`), so that a push changes
no other place, and a pop moves every place by one (`PushStored`, `PopStored`); no
induction along the chain is needed. `ChainIsSound`, `BlocksAreFew`, `BlocksAreQueue`
and `ImplementsFifo` follow, with the sides of the channel: blocks are freed only after both have
gone, and the channel is closed before the receiver goes (`ChanInv`). All for every
`BlockCap` from 1 on; `MaxLen`, the bound of the model, is any number, and the bound on the blocks
is in its terms.

**OnceCellProofs.** The once cell has a semaphore of one permit, and what
`SemaphoreInnerProofs` shows of it is used by INSTANCE: its invariant and the account of
its permits (`Tally`). `IndInv` adds that the phase of a call matches that of its future
(`MatchedBy`), that flag, value and semaphore agree (`Written`), and that the permit is missing
from the account exactly if one call holds it, to initialise the cell (`HeldOnce`). From
the account follow `OneInitializes`, since there is one permit, and `AttemptsArePassedOn`, since a
permit that is not missing is in the word or with a waiter, who is woken. `FlagsAgree` and
`ValueIsDisposedOnce` follow from `Written`.

**LinkedListProofs.** `LinkedInvariant`: the pointers are those of one list,
read in both directions. `ImplementsQueue`: each call, and in particular both
early returns of `remove`, is a step of `WaitQueue`. With it the abstraction of the
list to a sequence in `SemaphoreInner` is not taken on trust.

**OneshotProofs.** `Invariance` of `IndInv`, which adds to the type invariant
(bits and cells agree) and `NoLostWakeup` that a pending poll has its waker in the
cell (`Registered`) and that the cell has the value from an accepted send until it
is taken (`ValueKept`). `CellsMatchBits`, `WakeupsAreNotLost` and `KeepsPromise`
(implementation of `OneshotPromise`) follow.

Only model-checked: everything about liveness (fairness and ENABLED are out of the
prover's reach): `Ends`, `EveryWaiterAnswered`, `CloseReachesAll`, `WaitersAnswered`, `SendsAnswered`,
`RecvAnswered` and `CallsReturn`. Everything else that a passing run checks is stated by a theorem.

## 7. Plan

Done: the semaphore core with its proofs and its abstract specification, the loop of
`add_permits`, the word at its width, guards, list with proofs, oneshot with
proofs, the mpsc channels with the block queue, the once cell to its end.

Left to model: the `RefCell` borrows of the mpsc receiver across the drop of a waker
(`chan.rs:203`) and a waker whose clone panics (`semaphore.rs:321`). Both are about code
of the executor that calls back or fails, which `Oneshot` shows for the one place
where the crate is written for it.

Left to prove: nothing that the runs check is in the prover's reach and unproved; what is modelled
next needs its invariants extended.

## 8. Not modelled

Errors, formatting and re-exports (no state); `PartialEq` and `get` of the
cell, `is_closed`, `same_channel`, `available_permits` (they only read; `Clone` of the cell
makes one of the `NewCells`);
`Send`/`Sync` markers; the unit tests. Only `PermitWord` has the width of the permit
word: the other models count in Nat, which `WordIsCount` justifies for 64-bit
targets. The executor, the wakers and the users' values are the environment.
