# Sagittarius Scheme, specified

TLA+ specifications of two sides of Sagittarius Scheme. Paths below are relative to the
repository.

- **Concurrency**: SRFI-18 mutexes, condition variables and threads (C, `ext/threads` and
  the safe points of `src/vm.c`), and the Scheme libraries built on them: shared queues
  and priority queues, thread pools, futures, executors and the timer. Here several actors
  change shared state, and tests reach few of the orders of their steps. The POSIX build
  is modelled: on it a wait never ends with `SG_INTERNAL_COND_INTR`.
- **Data with a hidden structure**: exact integers as arrays of words, red-black trees,
  Fibonacci heaps, char-sets, hash tables and the LRU cache. They are sequential, but a
  long sequence of legal calls, or an operand at the edge of a word, leads where no test
  goes.

## Parts and modules

| Part | Source | Module | Promise |
|---|---|---|---|
| mutexes, condition variables | `ext/threads/mutex.c` | `SgMutex` | `AbstractMutex` |
| threads, safe points | `ext/threads/threads.c`, `src/vm.c` | `SgThread` | |
| shared queue | `sitelib/util/concurrent/shared-queue.scm` | `SharedQueue` | `AbstractQueue` |
| shared priority queue | the same | `SharedPriorityQueue` | `AbstractPriorityQueue` |
| thread pool | `sitelib/util/concurrent/thread-pool.scm` | `ThreadPool` | |
| futures, executors | `sitelib/util/concurrent/{future,executor}.scm` | `Executor` | |
| timer | `sitelib/util/timer.scm` | `Timer` | |
| exact integers | `src/bignum.inc`, `src/bignum.c`, `src/number.c` | `Words`, `Bignum`, `BignumModular`, `Number` | TLA+ integers |
| tree map | `src/rbtree.c`, `src/treemap.c` | `RBTree`, `TreeMap` | the set of its keys |
| heap | `sitelib/util/heap.scm` | `FibHeap` | the set of its entries |
| char-set | `src/charset.c`, parts of `src/regex.c` | `CharSet` | a set of characters |
| hash table | `src/hashtable.c` | `HashTable` | a function |
| LRU cache | `sitelib/cache/lru.scm` | `LruCache` | the keys last used |

The layers of the first side rest on each other. `SharedQueue` takes its mutex for an
`AbstractMutex`, which `SgMutex` implements as long as no thread is terminated inside an
operation. `ThreadPool` uses its queues through the steps of `AbstractQueue`, which
`SharedQueue` implements, timeouts included. That a waiting get is woken is shown only
until a get has timed out; the pool uses no timeouts. `Executor` has a pool whose choice of
a thread is free, which is more than `ThreadPool` may do. `CharSet` and `TreeMap` are both
built on `RBTree`, as in the code. `Timer` takes its heap for a set ordered by the fields
of the tasks.

**SgMutex.** The fields `locked` and `owner`, the threads marked TERMINATED, and for each
thread its place in `Sg_MutexLock` or `Sg_MutexUnlock` and its arguments. What is done
under the internal mutex is one step. A thread may end outside the operations (`Exit`), or
be cancelled inside one (`Cancel`, `Reap`; only in behaviours with `forced`).

**SgThread.** One target and its controllers: `threadState`, `stopRequest`,
`attentionRequest`, the inspector, the canceller and the result of the target's VM.
`process_queued_requests` reads two of them without the lock, so each read is a step.
Start, join, suspend, resume and terminate are the controllers' actions, the two waits with
a timeout included.

**SharedQueue, SharedPriorityQueue.** The linked list with `head`, `tail` and `size`, or
the vector with its `size`; the counter `w`, the mutex and the places of the threads. A
critical section is one step, except that every read and write of `w` is a step: the
timeout path changes it without the mutex. So is the read of the vector with which
`shared-priority-queue-remove!` begins; the variable `stale` records that a remove worked
on a vector that had been replaced.

**ThreadPool.** The two vectors of the record, `idlings`, the queues, the pooled threads in
the loop of `make-executor`, and the clients. Every access to a queue or a vector is a
step, as no lock covers two of them.

**Executor.** The three unlocked fields of each future, its box, the place of its task, the
list of the executor and the clients inside `future-get`, `future-cancel`,
`execute-future!`, the reject handlers and `shutdown-executor!`. The task of a simple future
is given its box; that of an executor reads the field `result` when it begins, and `taskq`
is what it found there. Reads are merged with a neighbouring step only where a comment says
why no other order can be told apart.

**Timer.** The worker, the two mutexes, the state, the heap, the table of active tasks and
the fields of each task; clients schedule, reschedule, remove, start, stop and cancel. `slips`
collects the situations the library does not provide for, each described below; the
properties are stated until one arises, or for the slips in `Tolerated`.

**Words, Bignum, BignumModular, Number.** A C function that fills a buffer is an operator
that returns the buffer; where the code reads what the buffer held before, that is an
argument. `Words` has the carry chains, shifts, long and Karatsuba products, squares,
Knuth's division on half words and the Montgomery reduction; `Bignum` the signed operations
and the normal form; `BignumModular` windows, even moduli and inverses; `Number` the fixnum
and bignum cases of the generic operations. `bignum_mod2` may shift a bit by a whole word,
which C leaves undefined; `fullShift` is what the build gives, 0 (the bit is shifted out)
or 1 (the shift count is taken modulo the word, as on x86-64). An action applies one
operation to a pair of operands, and the invariants compare the result with arithmetic on
TLA+ integers.

**RBTree, TreeMap, FibHeap, CharSet, HashTable.** The nodes with their pointers, colours,
marks and counts, changed as the code changes them. History variables (`present`, `held`,
`exact`, `wanted`) say what a structure should hold.

**LruCache.** The table and the list of keys, the keys in the order of their last use, and
`staleKey`: a key that is in the list and not in the table.

## Runs

A run with several parts has a variable (`part`, `subject`) that says which of them takes
steps; the others stay as they begin. Runs that pass:

| Run | Instance | Shows |
|---|---|---|
| `threads` | mutex: 3 threads, 1 condition variable, threads end outside operations or are cancelled anywhere; thread: 1 target, 2 controllers, all operations | mutual exclusion, a true `mutex-state`, no lost wake-up, a free mutex that is waited for is taken, refinement of `AbstractMutex`; requests are noticed, stopped threads are still and have an inspector, join tells the end and returns, termination happens |
| `queue` | queue: 3 threads, 2 values, max-length 0, 1 or 3, 3 puts, 1 timeout; priority queue: 2 threads, 3 kinds of objects, unbounded with 6 puts, or max-length 0 or 2 with 3 puts and 1 timeout | the list stays intact, the bound holds, readers are served until a timeout, an element readers wait for is taken, refinement of `AbstractQueue`; the vector is a heap, refinement of `AbstractPriorityQueue` |
| `thread_pool` | 2 threads, 2 clients, 3 tasks or replacements, 1 replacement | no idling thread is forgotten, tasks are run, push returns, release runs what was pushed, wait-all waits while tasks find idling threads |
| `executor` | 2 futures, 2 clients, 1 pooled thread, the 4 handlers, fork-join and simple futures, the last two with timed gets | `future-get` tells the result, the list and its bound, shutdown, `future-get` returns, places are freed |
| `timer` | 2 clients, 2 tasks, delays 0 and 1 | no task is lost, doubled, early or started after its removal; due tasks run, stop and cancel return |
| `sequential` | integers of up to 7 words of 6 bits; trees of 6 keys; heaps of 8 entries; char-sets of 9 characters; 2 hash tables of 3 keys; a cache of 3 of 5 keys | results are exact and in normal form; every structure is well formed and finds exactly what it holds |

Runs in which the code does not do what its documentation says:

| Run | What happens |
|---|---|
| `queue_lost_reader` | a timed-out get changes `w` unlocked; a put then sees no reader and leaves one asleep |
| `thread_hidden_termination` | suspend overwrites a pending termination, a second terminate hides it; the target never ends |
| `thread_pool_wait_early` | a busy thread is listed as idling and `thread-pool-wait-all!` returns early |
| `future_cancelled_late` | the task of a cancelled future sets it finished again, and `future-get` returns a value |
| `timer_task_lost` | the wait of the worker ends while a task is rescheduled; without the lock the worker extracts another task than the one it runs |
| `hashtable_copy_grows` | the entries of a copied hash table have no hash value; when the copy grows they all go to bucket 0 and their keys are not found |

Several properties are conditional, and the condition is part of the claim:

- `MutualExclusion` and the refinement of `AbstractMutex` in behaviours without `forced`;
- `ReadersServed` and `ElementIsTaken` until a get has timed out, the last also
  while nobody uses `shared-queue-lock!`; the heap order and the refinement of the priority
  queue until a remove worked on a replaced vector;
- `TaskIsRun` and `ReleaseRunsTasks` for pools in which no thread is terminated;
  `WaitAllWaitsWhileIdling` also while no push has to search for a thread;
- `JoinTellsTheEnd` for threads that nobody terminates; `JoinReturns` and
  `TerminationHappens` without a suspension;
- `GetReturns` and `PlaceIsFreed` without the terminations that strand a future; `GetReturns`
  also except for a client that waits for the box of an executor's task that found a timeout
  value in its place (`Stranded`);
- `ModularExact`: where the modulus ends in whole words of zeros and the build does not
  shift the bit out, only modulo the odd factor of the modulus;
- the timer's until a slip; `RedBlackUntilDelete` until a deletion, `IterationInOrder` for
  iterators no deletion has disturbed; those of char-sets until an operation has read an
  entry it deleted; `TablesExact` until a copied table has grown; `KeepsRecent` until a
  stale key is left.

Outside these conditions the code fails in the ways listed under *Other observations*.

**Bounds.** Three threads are the fewest with which a waiter, a holder and a newcomer meet;
two clients the fewest that race. Max-length 3 lets the first, a middle and the last
element of the list be removed; only one thread (`Maintainers`) removes, clears and locks.
Six puts make the vector of the priority queue grow twice, and let a removal sift up. In
the pool one budget (`MaxTasks`) is shared by pushed tasks and replaced threads, and only
one client waits, replaces and releases. As the tasks are finitely many, `PushReturns` says
nothing of a push that others overtake for ever. In the executor `Watched`, `Submitters` and
`Timed` limit which futures and clients take part in which operations, and `Retries` is 0;
one pooled thread is enough for a second future to be rejected. These limits leave out
combinations: a defect that needs two timeouts together with a removal, two pooled threads
in an executor, or both clients submitting, is outside what the runs cover.

Words have 6 bits instead of 64, so that a fixnum has 3 bits and a sign and all fixnums can
be operands; words of bignums are the values around the edges (0, 1, the sign bit, all
ones). The limits for Karatsuba's method are 4 and 5 words (25 and 45 in the code), which a
product of 6 by 4 words or a square of 7 passes, and the table of window sizes is scaled to
exponents of three words. Modular powers are taken for positive bases and exponents that
are not negative, and moduli below the length at which a product inside them would use
Karatsuba's method recursively. A tree of 6 keys reaches every case of the two repairs, as
every disjunct of the model is taken; a heap that begins with 8 equal entries has a tree of
degree 3, where cuts cascade. Char-sets have 2 small characters and 7 others. A hash value
has 4 bits; a chain limit of 1 and one bit of growth instead of 3 and 2 let a table of 3
keys grow more than once, two keys have the same hash. `hashtable_copy_grows` has the real
limits.

Deadlock is not checked: in the concurrent systems all threads may be idle or have ended,
and the sequential ones stop at the bounds on their operations.

**Fairness.** Weak fairness for the steps of a thread inside an operation: the operating
system schedules runnable threads. In the pool, the executor and the timer it includes the
end of a task, so those liveness results are about tasks that end. Nothing says that a
client makes a call. The one strong fairness, in `SgThread`, is for a cancelled thread in
its wait: notifications may take it out of the wait again and again, and `pthread_cancel`
acts at the next one it is found in.

## Theorems

Proved with TLAPS for every value of the constants:

| Module | Theorem | Argument |
|---|---|---|
| `ThreadsProofs`, mutexes | `TypeCorrect`, `NoWakeupIsLost` | the second, which the run checks, from the types alone, cancellation included: who leaves the wait by a notification is in `lock` |
| | `Exclusion`, `Refinement` (for behaviours without `forced`) | the invariant ties `locked` and `owner` to the thread whose hold counts |
| `ThreadsProofs`, threads | `NoRequestIsLost`, `StoppedThreadsAreStill`, `StoppedThreadsCanBeResumed` | the invariant says where a target may be when a request has lost its `attentionRequest`, or its state is STOPPED or NEW |
| | `JoinersAreTold` | `Ending` follows the result of a thread nobody terminates from its last instruction to the last joiner |
| `SharedQueueProofs` | `ReadersAreServed` | without timeouts `w` is the number of threads inside get, which `put!` relies on when it decides whether to wake |
| | `ListsAreIntact`, `QueueRefinement` | see below; timeouts included |
| `PriorityQueueProofs` | `PqHeapOrdered`, `PqRefinement` | see below; timeouts included, until a remove worked on a replaced vector |
| `ThreadPoolProofs` | `IdleThreadsAreListed`, `ReleasesRunTasks`, `WaitsForAll` | see below |
| `ExecutorProofs` | `ListedAreUnfinished`, `ShutdownsTerminate`, `GetsTellResults` | see below |
| `TimerProofs` | `NoTaskIsLost`, `TasksStartProperly` | see below |
| `TableProofs`, hash tables | `HashTablesExact` | see below; until a table with copied entries grows |
| `TableProofs`, cache | `CacheKeepsRecent` | the list is the end of the keys in the order of their last use, none of them twice, until a stale key is left |

Each invariant was also checked with TLC on the instance of the runs, with sets that TLC
cannot enumerate replaced by tests. The proofs use the assumptions named in the modules:
what is not a thread, a pair or a queue is different from those that are, objects and
bounds are numbers, every key has a hash value of the given width, and some sets are
contained in others. Three are about use: `MaintainersAssumption`, `WatchedAssumption` and
`TimedAssumption` allow every set there is, and `ManagersAssumption` is discussed below.

**The list of the queue.** `ListIntact` speaks of `Chain`, a recursive function of `head`
and `cdr`. In `List` the pairs, which are numbered as they are put, are linked upwards, so
the recursion ends; `Chain` is then the only `Path` from `head` (`ChainIsPath`), and the
lemmas `PathAppend`, `PathRemove` and the like say what a put, a get and a removal make of
it. The invariant adds who may change the list (`LockHeld`) and that the element a reader
saw before `GetTake` is still there (`TakerHasElement`). With it each step is mapped to a
step of `AbstractQueue`, or to none.

**The heap of the priority queue.** `shift-up` and `shift-down` are recursive functions of a
position. `SiftedUp` and `SiftedDown` say what they make of a vector: the order of the heap
on the way they went, the other positions as they were, and every object as often as
before. A removal in the middle leaves `NearlyHeap`, in order except at one position, and
sifts there down or up. The invariant `PqInv` has that the first `count` positions of the
vector, and no others, have objects, in order (`IsHeap`); that the bag of the objects has
`count` members; and that a thread about to take an object has the mutex and the queue is
not empty (`LockInv`). Then every step is one of `AbstractPriorityQueue`, or none; the first
of the vector is a least object of the bag because no child is before its parent.

**Hash tables.** `TablesExact` speaks of what is found and iterated over. `HashInv` has why:
in a table that has not misplaced entries, every entry is in the chain that the hash value
of its key leads to, and once (`Placed`); each key has its value in that chain; and the
count is the number of keys (`Good`). Growth moves the entries by the hash values they
keep, so it needs that these are the keys' (`Remembers`), which is false of a copy. How
many bits or buckets there are, and which keys collide, plays no part.

**Idling threads.** `IdleThreadIsListed` is not inductive. A client that took an id may
hold the queue of a thread that was replaced since, and its task will not reach the new
one. The invariant counts a taken id only while the client's queue is the thread's; adds
that no two ids share a thread or a queue; and says that during a replacement the id has a
queue no thread reads and the old queue belongs to no id. It needs `ManagersAssumption`,
that one client at a time manages the pool. The code does not enforce this; the executor,
the one caller in the repository, terminates threads under its mutex.

**Release.** `RInv` holds beside that invariant. While no thread is replaced, every task is
finished, being run or in a queue (`Accounted`); the tasks pushed before a release lie in
front of the `#f` that ends the thread (`Ordered`), and a joined thread is done (`Joined`).
Tasks are numbered in the order of the pushes, so "pushed before" is a comparison of
numbers.

**Waiting for all.** `thread-pool-wait-all!` counts the ids in `idlings`. While no push has to
search and no thread is replaced, `WInv` has that no id is offered twice, be it in `idlings`
or taken by a client (`OnceOffered`), and that the thread of an offered id has no task
(`Spare`). As many ids as threads are then all the ids, by counting, and with `Accounted`
every task is finished. A push that searches breaks `Spare`, as `thread_pool_wait_early`
shows.

**Executor.** `Inv` has three parts. `Base` says who has the mutex, that a future is
executed once and by one client, and which futures the list may have: `ListedIsUnfinished`
follows from it. `Survivors` is for the shutdown: a future with its cleanup to do is
listed, about to be or cancelled, so a shutdown finds it, and what it killed is still to be
cancelled (`ToCancel`) or is not in the state created. `Outcomes` ties box, result and
canceller of a future to what its thunk came to, and to what each client inside
`future-get` has read; a task that fails to put a value has its error to put from then on,
which is why a result counts only once the task is over. A step is described by what it may
do to clients and tasks (`Proceeds`, `Spares`, `Tells` for clients, `Moves` for tasks), and
each part is shown once for such a description.

**Timer.** `Sound`, which holds until a slip: the heap has the active tasks that do not
run, what runs is the task picked, ids are given once, and the task picked is still the
first of the heap and due when it is started, as the worker has the lock from the one to
the other.

**Induction.** The theorems of the library for induction take a predicate, which none of
the provers can instantiate. `InductionLemmas` has them for a set instead of a predicate
(`Induction`, `DownwardInduction`, `StrongInduction`, `SequenceInduction`), from the fact
that a set of natural numbers has a least element, and with them what a recursive function
of a bounded number computes (`Recursion`, `Iteration`), or of one that falls or rises by
more than one (`RankedRecursion`). `Chain`, `FirstEqual` and `Before` of the queue, the
sifts of the priority queue, `Without` of the executor, and the loops over chains and lists
of the tables are proved about in this way.

Only model-checked:

- all liveness, which is out of the prover's reach, with `ENABLED`;
- integers, trees, Fibonacci heaps and char-sets, whose operations are `RECURSIVE` operators
  on words and nodes, which the prover does not accept.

## Other observations

Seen while reading the code for the models. No run shows them.

Threads and mutexes:

- A thread blocked in `mutex-lock!` is not woken when the owner ends; only a later lock
  notices. With forced termination a thread marked TERMINATED inside `mutex-unlock!` may
  unlock the mutex under its next holder (`mutex.c:182`, `threads.c:317`).
- `thread-resume!` sets RUNNABLE without looking, so a thread that has ended is revived
  and a join of it does not return (`threads.c:247`). `thread-terminate!` of a thread that
  was not started wakes no joiner (`threads.c:330`).
- A terminated thread is in state TERMINATED before its cleanup stores the exception
  (`vm.c:2249`, `threads.c:330`), and one that was not started has no cleanup: a join then
  returns without the exception that `doc/sagittarius/threads.scrbl:57` promises.

Queues:

- Writers of a bounded queue are woken when a reader arrives, not when room appears: with
  elements in the queue and no reader they sleep although a remove made room.
- With max-length 0 two writers may see the same reader and both put
  (`shared-queue.scm:134`).
- `shared-priority-queue-remove!` reads the vector before it locks (`shared-queue.scm:336`);
  if a put replaces the vector in between, the removal works on the old one. A vector that
  grew is not filled, so `shared-priority-queue->list` (`:258`) may include what is beyond
  the size.

Pools, executors and the timer:

- A pooled thread listed while busy lists itself twice; then `thread-pool-wait-all!` never
  sees as many ids as threads. A task put to the queue of a thread that is being replaced is
  lost. Two terminations of one id may unlist the new thread.
- The error flag of a pooled future may be overwritten by `add-future`, and `future-get`
  returns the condition (`executor.scm:260`). `terminate-oldest-handler` may terminate a
  thread that has gone on to another future (`executor.scm:116`).
- A timed `future-get` stores its timeout value as the result (`future.scm:156`). If the task
  of an executor begins after that, it takes the value for its box (`executor.scm:245`,
  `:294`): `shared-box-put!` raises, its result is lost, and a client that already waits for
  the box is never woken.
- The slips of the timer. The worker's timed wait ends without the lock (`window`,
  `timer.scm:93`). The worker sets the state stopped before it sleeps on `stop-waiter`, so a
  start or cancel in between broadcasts to nobody (`asleep`, `:111`). `timer-stop!` of a
  stopping timer waits with the lock held that the worker needs; of a stopped or new timer,
  for a state nobody will set (`stop`, `:179`). `timer-start!` raises with the lock held
  (`raise`, `:170`). A task rescheduled while it runs is in the heap and running at once;
  `timer-remove!` then only clears its flag, and the removed task runs again (`requeue`,
  `:297`). A thunk that raises in a timer without error-handler ends the worker, and opens
  the lock whoever holds it (`uncaught`, `:134`, `:157`).

Numbers:

- The bitwise and of two negative bignums, and the exclusive or of two of different signs,
  is 0 when the exact result is the negated power of two just above the operands
  (`bignum.c:871`, `:981`). `bitwise-bit-set?` of a negative bignum tests its magnitude.
- The quotient of the least fixnum by -1 wraps (`number.c:2425`). The range test of
  `Sg_BignumToInteger` never holds (`bignum.c:502`), so the exact root of a bignum is not
  in normal form.
- `mod-expt` with a bignum modulus: bases 0 and -1 give 1 (`bignum.c:2597`), and the
  correction of a negative remainder is made when the remainder is zero
  (`bignum.c:2238`); `mod-inverse` of a negative bignum likewise. A power with exponent 0
  modulo 1 is 1.
- `odd_mod_expt` passes buffers to Karatsuba's method that are not clear; with a modulus of
  50 words or more the product inside the product adds what they hold (`bignum.c:2464`).
  `doc/sagittarius.scrbl:116` promises x ^ e mod m.
- `bignum_mod2` shifts 1UL by WORD_BITS when the power of two in an even modulus is a
  multiple of the word (`bignum.c:2495`). Where that gives 1 the mask is 0 and the top word
  of every reduced value is cleared: with words of 6 bits, 3^4 modulo 64 is 0 and not 17.
- The comment at `bignum.inc:550` that the sum fits does not always hold; the word after
  the buffer is read and written back unchanged, which `ResultsExact` includes.

Structures:

- `fix_after_deletion` lacks the step that makes the sibling red on one side and the one
  that makes the last node black (`rbtree.c:336`): after deletions the tree is a search tree
  but not red-black, unlike `doc/utils/treemap.scrbl:22`. Deleting the entry an iterator
  stands on makes it skip entries or end.
- Adding a range to a char-set, and complementing one, go on from an entry they have
  deleted (`charset.c:237`, `:286`). If it had two children, they skip the next entry:
  adding 10..13 to {10, 14, 18} includes 15..17. `Sg_CharSetLe` orders the small halves with
  `memcmp` (`:173`).
- `copy-heap`, and with it `merge-heaps`, loses entries and fails on an empty heap
  (`heap.scm:208`).
- `cache-evict!` discards the result of `remove!`, so the first key stays in the list: it is
  popped later in place of a cached one and the cache grows beyond its size (`lru.scm:73`).
  `cache-clear!` leaves the first key there too. `cache-put!` of a key that is cached evicts
  another one when the cache is full.

## Not modelled

`PROJECT.json` lists every part. Next in line: actors, as a composition of a thread and two
queues; the mtdeque; the recursive lock of the library table and of ports; the search trees and
Fibonacci heaps as recursive functions, to prove about them.

Left out of the modelled parts: `thread-interrupt!`, which only ends a system call, and
`thread-sleep!`, a timed wait on a private condition variable; flonums, rationals, complex
numbers and the conversion of numbers to and from text; copies of trees and heaps; the
parser of char-sets; iterators of hash tables held across changes, and weak tables, which
depend on the collector.

Out of scope: the VM's instructions, the compiler, reader and writer, the matcher of regular
expressions and text libraries (sequential, on unbounded data), and the wrappers of system
and vendored libraries.
