# coros: models, checks and proofs

coros is a C++23 header-only library of coroutine tasks that run on a
work-stealing thread pool. This directory holds TLA+ models of it, the TLC runs
that check them on small instances, and TLAPS proofs of the library's own
components for every instance. Paths below are relative to `src/`.

## 1. The system

| component | state | operations | modules |
|---|---|---|---|
| work-stealing deque, `include/deque.h` | `top_`, `bottom_`, `buffer_`, `old_buffers_`, the circular arrays | `pushBottom`, `popBottom` (owner), `steal` (any other worker), destructor | `Deque`, `DequeInvariant`, `DequeProofs` |
| test deque, `include/test_deque.h` | a `std::deque` and a mutex | the same three | `TaskDeque` |
| thread pool, `include/thread_pool.h` | the stop flag, one deque per worker, the queue `new_tasks_` | `run`, `get_task`, `add_task`, `add_task_from_outside`, `stop_threads`, destructor | `ThreadPool`, `ThreadPoolProofs`, `MCThreadPool` |
| waiting, `include/wait_tasks.h`, `wait_barrier.h` | `WaitBarrier` (count, continuation) in the awaitable, one WaitTask frame per task | `await_suspend`, `final_suspend` with `decrement_and_resume` | `WaitTasks`, `WaitTasksProofs`, `Await` |
| asynchronous waiting, same files | `WaitBarrierAsync` (count, continuation, `handle_ready_`), held by `shared_ptr` | constructor, `await_ready`, `await_suspend`, `decrement_and_resume` | `WaitTasksAsync`, `WaitTasksAsyncProofs`, `Await` |
| starting, `include/start_tasks.h`, `start_barrier.h` | the StartTask's frame with a mutex, a condition variable and a flag | `start_sync`, `start_async`, `wait`, `notify` | `StartTasks`, `StartTasksProofs` |
| task and promise, `include/task.h` | the handle in a `Task`; continuation and result in the promise | call, move, `operator=`, destruction, `co_await`, the three ways a body ends, `final_suspend`, taking the result | `Tasks`, `TasksProofs`, `MCTasks` |
| enqueueing, `include/enqueue_tasks.h` | NoWaitTask frames, which own the task they were given | `enqueue_tasks`, `create_NoWaitTask`, self-destruction at the end | `Tasks` (ownership), `ThreadPool` (scheduling) |
| chaining, `include/chain_tasks.h` | what the chain starts with, the functions; one `process_tasks` frame per function | `chain_tasks`, `and_then`, `process_tasks` (six overloads), `await_suspend`, `await_resume` | `Chain`, `ChainProofs`, `Pipeline` |
| concurrent queue, `include/concurrentqueue.h` (vendored) | one producer per enqueuing thread (counters, blocks, block index), a free list of blocks, a hash from thread ids to producers, listeners for the end of a thread | `enqueue`, `try_dequeue`, `size_approx`, `try_dequeue_bulk`, destructor | `ImplicitProducer`, `ImplicitProducerProofs`, `SubQueue`, `FreeList`, `ProducerHash`, `ThreadExit`, `ConcurrentQueue`, `MCImplicitProducer`, `MCQueueParts`, `ThreadPoolProofs` |

How they interact. A thread outside the pool calls `start_sync`, `start_async`
or `enqueue_tasks`, which put a coroutine handle in `new_tasks_`
(`start_async` first runs its StartTask on the calling thread up to the
`wait_tasks` in its body). Each worker loops in `run`: it pops its own deque,
else tries to steal from each other worker's, else dequeues from `new_tasks_`,
and resumes what it got on its own stack. A coroutine that awaits one task
starts it in its place and is resumed by it; a coroutine that awaits several
(`wait_tasks`) is suspended, and the same worker pushes one WaitTask per task
on its deque; whichever worker ends the last of them resumes the parent by
symmetric transfer. A chain is a coroutine per function, each awaiting the
next. The StartTask at the root signals the outside thread. The pool's
destructor stops and joins the workers and destroys what is left.

Inside `new_tasks_`, an enqueuing thread looks up its producer in the hash, or
recycles that of a thread that has ended, or makes a new one, and appends to
it; a block it needs comes from an array, then from the free list. A dequeue
scans the list of producers. The consumer that empties a block gives it back.
When a thread ends, its listeners tell each queue that its producer is free.

What is hard here. Nothing is protected by locks except the StartingBarrier and
the listeners. A coroutine frame holds the synchronisation objects that other
threads use (barrier, mutex) and is freed by the coroutine that those objects
let go on, so every "who touches it last" is a race. The deque relies on a
fence and a compare-exchange for the last element only, on slots that are read
without synchronisation and discarded afterwards, and on old buffers that live
on. The queue relies on counters that are corrected after the fact, on an index
that is reused while it is read, and on a free list whose blocks come back
while others look at them. Ownership of a frame is split between pool, scope
and the coroutine itself, and the pool may be destroyed while tasks are still
queued.

What makes each component correct:

- deque: each pushed handle is handed out at most once and never lost; a reader
  never sees a deleted buffer; it behaves like a deque under a lock;
- waiting: the parent goes on once, after all tasks, in every race; no worker
  touches freed memory;
- starting: `wait` returns, and only when all tasks are done, and the frame
  outlives the notification;
- task: a frame has one owner that lives at least as long and is destroyed with
  it; who awaits is resumed once, when the result is there;
- chain: the functions run in order, each once, with the result of the one
  before; the first exception ends the chain; the caller gets an answer, and no
  frame and no value is left over or used twice;
- pool: a task is in exactly one place until it is resumed, its frame is
  destroyed once, nothing enqueued is forgotten;
- queue: what one thread enqueues leaves once and in order, however old the
  values the consumers saw; a dequeue misses an element only because of a rival;
  no block and no producer has two users; nothing is told to a queue that is
  gone; the destructor's bulk dequeue gets as many tasks as it made room for.

`PROJECT.json` lists the hazards line by line, with the properties that cover
each or the reason why none does.

## 2. The modules

**TaskDeque** is the deque under a mutex: push, pop and steal as single steps
on a sequence. `test_deque.h` is this specification in C++, and the library
itself swaps the two under `COROS_TEST_DEQUE_`.

**Deque** has one step per load, store, fence or compare-exchange that another
thread can tell apart. `opc`/`tpc` are the control of the owner and of each
thief, `ob, ot, oh` and `tt, tbuf, th` their local variables. The owner's
stores to `bottom_` wait in `storeBuffer` until `Drain` makes them visible, in
order; the fence in `popBottom` waits for them. A put takes two steps, between
which the slot reads `Torn`. Buffers are numbered as they are allocated, and a
thief keeps the one it loaded. The destructor runs only when nobody uses the
deque, which the pool guarantees by joining its workers.

**Await** is the promise of any `co_await` on a set of tasks: the parent goes on
once, after every task has finished.

**WaitTasks** has a worker in `await_suspend` (`suspender`: set the barrier, add
the task, next) and one control value per WaitTask and its worker (`child`).
`live` is the memory the parent frees when it goes on; `Uses` names the memory
each actor's next step touches. `MemorySafety` says that this memory is live
and that a WaitTask finds barrier and continuation set. `wait_tasks(pool, ...)`
differs in the queue the tasks go to, not in these steps.

**WaitTasksAsync** has one step per atomic access of constructor, `await_ready`,
`await_suspend` and `decrement_and_resume`. `owners` are the holders of the
`shared_ptr`; the barrier exists as long as there is one.

In both, the refinement of `Await` counts resumptions: a parent that is resumed
a second time maps to a state `Await` does not have.

**StartTasks** uses the steps of `Await` for the tasks (the StartTask is the
parent) and adds the calling thread, the mutex, the flag, sleeping and waking,
and the frame the caller destroys. `NotifySteps` is the order of the steps in
`notify`.

**ThreadPool** has one step per deque operation, per dequeue, and per segment of
a coroutine between two suspension points. What tasks do is given by `Children`
(awaited) and `Injected` (enqueued); `Managed` are the NoWaitTasks. A thief's
round starts at a random victim; the model lets it visit the others in any
order. A steal and a dequeue may fail although there is something to take. Of
the queue it uses the contract that the queue's modules check: first in, first
out per enqueuing thread.

**Tasks** has arbitrary programs instead of one: whoever runs (a function on a
thread or a coroutine) may call coroutines, move, assign, end scopes, take
results, `co_await` unstarted tasks and enqueue, over the variables of its own
scope. `handle` is `handle_` of each variable, and a frame contains the
variables of its coroutine, so destroying it destroys what they own, and so on:
`Doomed` is the least set that is closed under owning. The local variables of a
coroutine end with its body (`Finish`); its parameters stay in the frame and end
with it, when the owner of the finished task calls `handle_.destroy()`
(`include/task.h:327`).
`state` is where each coroutine is suspended, `cont` and `result` are the
promise, `current` is what each thread runs: `Await` and `Finish` are the two
symmetric transfers. `Spawn`, `RunWrapper` and `FinishWrapper` are
`enqueue_tasks` and the NoWaitTask. `overwritten` holds the frames that
`operator=` leaks (section 6).

**Pipeline** is what the documentation promises of a chain: steps one after the
other, each once, with the result of the one before; the first exception ends
it. **Chain** is the code: `types` are the chained functions, `process` and
`task` the frames of each `process_tasks` and of its function's task, `param`,
`input`, `output` and `result` where a value is. There is one action per
segment between two suspension points, and per overload, since the overloads
differ in what they move and what they look at (`has_value`, the last function,
a function without parameter).

**SubQueue** is the contract of one producer: a sequence to whose end one
thread appends and from whose head anybody takes. **ImplicitProducer** is its
code, one step per shared access. `Look`, `Count`, `Claim` or `Overcommit` are
the first check of a dequeue, the optimistic count, the second check and its
two outcomes; the relaxed loads among them may return any earlier value.
`LoadHeader` to `LoadBlock` find the element's block through the index; `Move`,
`SetEmpty`, `Unlink`, `Recycle` take the element and give the block back. The
producer's `InsertKey`, `AdvanceTail`, `GrowIndex`, `Requisition`, `Link`,
`Construct`, `Publish` are the accesses of `enqueue`, with the three ways it
can fail. `headers` keeps every index ever published, because a consumer may
still use an old one. `Drain` is the pool's `try_dequeue_bulk`, `Destroy` the
producer's destructor.

**FreeList** is `requisition_block`, `add_block_to_free_list` and the lock-free
stack below them, one step per atomic access: `refs` and `should` are the two
parts of `freeListRefs`.

**ProducerHash** is `get_or_add_implicit_producer` with the growing of the
table, `recycle_or_create_producer` and `implicit_producer_thread_exited`. The
search for a thread's own id is one step, because only that thread writes it;
everything else is one step per access. A table may have any size to begin with
(`InitialSize`), and is doubled as often as the code does. `own` records the
producer each thread was given. `FirstTableFree` is about the count that stands
for the used slots of the tables: in the first one a quarter of the slots stays
empty, so that every search in it ends. For later tables it says nothing, and
section 6 says why.

**ThreadExit** is ThreadExitListener and ThreadExitNotifier with their one
mutex, `~ImplicitProducer`'s look at `inactive` before it unsubscribes, and
`~ConcurrentQueue`. A producer that was freed is no longer `Alive`; a pointer to
it stays where it was. A thread that reads the listener of such a producer goes
`"astray"`: what it does from there on is undefined, the behaviour ends, and
`Safety` is about the states before. That no thread does is `WalkOnLive`, which
is false of the code (section 6).

**ConcurrentQueue** is `try_dequeue` over all producers and the pool's
destructor. A producer is its four counters here; `ImplicitProducer` shows how
they lead to the elements. `seen` and `rivals` record what `NothingOverlooked`
is about: what was there when a dequeue began, and which parts others tried
meanwhile.

**MCQueueParts** runs the last four in one model: `part` is chosen in the
initial state and only that mechanism moves. They share no variable (the
interfaces between them, a block that is free, a producer that is inactive, are
variables of each), so interleaving them would reach no other local state.
`SomeCollide` gives two of the three thread ids the same slot of the first table
and separates them in the next. The
proofs about `FreeList`, `ThreadExit`, `ConcurrentQueue` and `ProducerHash` are
about this composition, for any values of its constants (`PoolBlocks` is the size
of the initial pool, `HashOf` any hash of the thread ids; `MaxPut`, `MaxTry`,
`MaxTables` and `MaxStarts` bound counters).

Composition and refinement: `Deque` implements `TaskDeque`, whose steps
`ThreadPool` takes; `WaitTasks` and `WaitTasksAsync` implement `Await`, whose
steps `StartTasks` takes; `Chain` passes control as `Tasks` does and implements
`Pipeline`; `ImplicitProducer` takes its blocks from a set, as `FreeList`
justifies, and implements `SubQueue`, whose order `ThreadPool` relies on;
`ConcurrentQueue` uses its counters. Each proof or run thus stands for a layer
that the next one uses as one step.

Definitions whose comment begins with `(mutant)` are plausible bugs (a dropped
fence, a swapped order). `PROJECT.json` names one per property and run, and TLC
finds the property violated when it replaces the definition it stands before;
the other ones violate further conjuncts of the properties that are
conjunctions.

## 3. The runs

| run | question | bounds and why they are enough |
|---|---|---|
| `deque` | is every handle handed out once, are empty answers honest, is it the locked deque, do buffers outlive their readers, does the destructor reclaim exactly what is left, is every handle handed out or reclaimed in the end? | owner and two thieves, buffers of 1, 4 and 16 slots, 5 pushes, 2 pending stores: slots are reused, the buffer grows twice under a thief that still reads an old one, both thieves and the owner meet at the last element |
| `wait_tasks` | use after free, double or early resumption, lost parent | 4 tasks: first, middle and last of the loop, and more than one not-last worker |
| `wait_no_tasks` | does the parent go on with no task at all? | violated, see section 6 |
| `wait_tasks_async` | the same for the asynchronous barrier | 4 tasks; the race is between the parent, the last and one other |
| `start_tasks` | lost wake-up, early return, frame freed under `notify` | both functions, 3 tasks, 2 waits, 2 spurious wake-ups |
| `pool` | one place per task, one destruction per frame, what the destructor leaves, is every task served and every parent resumed? | 7 tasks: nested waiting, enqueueing from inside and outside, two outside threads, the destructor at any moment. 2 workers: what a third thief could do to a steal is in `StealFails`, which may happen at any time |
| `pool_leak` | are all managed tasks destroyed with the pool? | violated, see section 6 |
| `tasks` | one living owner per frame, one resumption, result before resumption | 4 frames of a local variable and a parameter each, one user thread, two workers: a task that owns a task that owns a task, as local, as parameter and after the body's end, and a wrapper; two tasks moved over each other |
| `chain` | is it a pipeline, does it answer, is a frame or a value left over? | all chains of up to 5 functions in all mixtures of value and void, all four starts, each function failing or not; every overload is a first, middle and last one |
| `producer` | does each consumer find the element it claimed, in every race with reuse and growth, and are the counters right afterwards? | 7 elements, blocks of 2, an index of 2 entries: entries and blocks are reused, the index grows while its tail is in the middle; two consumers, 3 counted dequeues, of which some give up |
| `queue_parts` | the four other mechanisms of the queue; does every search in the first hash table end (`SearchesEnd`)? | free list: 3 threads and 2 blocks, so that a block is popped and pushed again while a third thread holds an old head; hash: 3 thread ids, two of which collide in the first table, tables of 4, 8 and 16, 3 threads that begin, one of which may reuse the id and the slot of another, memory that holds 2 producers and runs out. Three used slots fill three quarters of the first table, which the mutant reaches that takes every free slot for one already counted; the count does fall below the used slots of the second table in this run (section 6). Thread exit: 2 threads, 2 queues, 3 producers; scan: 2 producers of 2 elements, 2 consumers |
| `thread_exit` | does a thread that ends read only listeners that exist? | violated, see section 6 |

Deadlock checking is off where a run legitimately ends: the deque is
destroyed, the co_await expression or the caller is done, the pool is gone, the
queue is destroyed, or a bound on frames, elements, dequeues or threads is
reached; a thread has gone astray (`queue_parts`).

Assumed of the environment: a coroutine handle is scheduled only while it is
suspended; only the owner pushes and pops its deque (by construction of
`thread_local thread_my_tasks`); `start_sync` and `start_async` are called from
outside the pool with at least one task; the pool outlives the tasks somebody
waits for (`README.md:202`); the awaitable of `wait_tasks_async` is awaited and
not moved; nobody enqueues from outside once the destructor runs; only unstarted
tasks are awaited or enqueued and only finished ones are read; an awaitable
chain is awaited once; copies and moves of user types do not throw; a queue is
destroyed when no call of it is under way.

Memory model. `Deque` delays the owner's stores to `bottom_`;
`ImplicitProducer` lets the relaxed loads of the counters return old values; all
else is sequentially consistent.

Fairness. Every worker and caller is a thread that the operating system runs,
so each gets weak fairness for its own steps. `Drain` is weakly fair: a store
becomes visible after finite time. A task that was scheduled is taken in the
end (this is `EveryTaskServed`, assumed one layer up). `Dequeue` has strong
fairness: `try_dequeue` misses a task only while other threads are at work on
the queue (`NothingOverlooked`), so a worker that comes back again and again
succeeds. In `Chain` control is in one coroutine, whose worker runs it, and the
functions end. Enqueueing, the start of the destructor and spurious wake-ups
have no fairness; the last are bounded by `MaxSpurious`, so that the mutex needs
none beyond weak. The modules of the queue and `Tasks` state no fairness: the
queue's loops are lock-free, and a thread may spin while another one is
preempted. What takes the place of liveness there are invariants: `NoneLost`,
`SearchesEnd` (of the first hash table) and `OneBuilder` (who waits for a larger table
waits for somebody who is making it).

## 4. The proofs

The theorems hold for every value of the constants: any number of tasks,
threads, frames, variables and chained functions, any power-of-two initial size
of the deque, any bounds. The assumptions are those the modules state about
their constants, which every run of the module evaluates: a null value is none
of the things it stands for; a pool's tasks and the thread ids are finite sets; a task
comes from one place; somebody waits for at least one task (`StartTasks`); a
thread is not a coroutine (`Tasks`).

| module | theorems | what they say |
|---|---|---|
| `DequeProofs` | `TypeCorrect`, `NoDoubleTake` (`ExactlyOnce`), `NoLoss` (`Conservation`), `BuffersOutliveReaders` (`BufferLifetime`), `DestructorProof` (`DestructorReclaims`), `EmptyPopProof` (`EmptyPopIsHonest`), `Refinement` (`ImplementsTaskDeque`) | handles leave the deque once, nothing is lost, old buffers live as long as their readers; it is the deque under a mutex |
| `WaitTasksProofs`, `WaitTasksAsyncProofs` | `TypeCorrect`, `MemorySafe` (`MemorySafety`), `Refinement` (`ImplementsAwait`) | the parent goes on once, after all tasks, and what it frees is no longer used |
| `StartTasksProofs` | `TypeCorrect`, `FrameSafe` (`FrameOutlivesNotify`), `WaitIsCorrect` (`WaitMeansDone`) | `wait` returns after all tasks; the frame outlives the notification |
| `ThreadPoolProofs` | `TypeCorrect`, `EveryTaskInOnePlace` (`OnePlace`), `FramesDestroyedOnce` (`DestroyedOnce`), `PoolDestroysItsTasks` (`DestroyedWithPool`) | a waiting task is in one place, no frame is destroyed twice, and what the destructor leaves |
| `ThreadPoolProofs`, of its queue's parts | `EndIsTold` (`ThreadExitSafety`), `NothingIsOverlooked` (`ConcurrentQueueSafety`), `NoBlockIsLost` (`FreeListSafety`) | a thread's end is told to all its producers, until a freed listener is read; a dequeue overlooks nothing, and the destructor gets exactly the tasks it made room for; every block is in one place and stays within reach |
| the same | `OwnProducerFound` (`ProducerHashSafety`), `FirstTableNeverFull` (`SearchesEnd`) | a thread finds its own producer in whatever table, a producer has one thread, and one thread at a time builds a table; a quarter of the first table stays empty |
| `TasksProofs` | `OneOwnerAndThread` (`Ownership`), `Resumed` (`WillBeResumed`), `ResultBeforeResume` (`ResultFirst`) | one living owner and one thread per frame, a finished one owning by its parameters only; who awaits is resumed by what it owns, with the result |
| `ChainProofs` | `ChainSafe` (`Safety`), `Refinement` (`ImplementsPipeline`) | a chain of any length is a pipeline; no value or frame is left over or used twice |
| `ImplicitProducerProofs` | `EveryDequeueAccounted` (`Accounting`, a part of `Safety`), `CountersBlocksElements` (`Safety`), `ElementFound` (`RightElement`), `FreedOnce` (`DestructorFreesOnce`), `Refinement` (`ImplementsSubQueue`) | no dequeue claims an element that is not there, and each finds the one it claimed through whatever index it read; blocks are reused and freed once; it is a queue |

Each rests on an inductive invariant `IInv` (for the deque in module
`DequeInvariant`, else at the head of the module with the proofs), with one
lemma per action and, under it, one step per conjunct that the action disturbs;
`ImplicitProducer` has a second one on top of it, `BlockInv`; those of
`ThreadExit`, `ConcurrentQueue`, `FreeList` and `ProducerHash` are `ExitInv`,
`ScanInv`, `FreeListInv` and `HashInv` with `FirstInv` on top of it, in
`ThreadPoolProofs`, which extends `MCQueueParts`. TLC checked each of them on the instance of its run before it
was proved.

Why the invariants are stronger than the properties.

**Deque.** One has to know why a thief's successful compare-exchange returns
the right handle although it read the slot earlier, from a buffer that may have
been replaced. `IndexInv`: no visible or pending copy of `bottom_` is ahead of
the owner's, and the elements fit in the current buffer. `PushInv`, `PopInv`:
the owner's stale `top_` only lags, so that a full buffer is noticed early
rather than late; a pop that races has nothing pending. `SlotInv`: occupied
slots hold different handles nobody was handed. `ThiefInv`: as long as `top_` is
still what a thief loaded, its position is occupied, its buffer agrees with the
current one there, and what it read is the handle in the deque; once `top_` has
moved, the compare-exchange fails. `BufferInv`: every buffer is alive until the
destructor. In the refinement a push takes effect when `bottom_` is stored, a
steal at its compare-exchange, a pop at its load of `top_` or, for the last
element, at its compare-exchange.

**WaitTasks.** That nobody needs the memory when the parent frees it depends on
what was counted before: `CountInv` (`remaining` is the number of tasks that
did not count down), `SuspenderInv` (how far the loop is when a task has been
scheduled), `ResumeInv` (who read 1 is alone).

**WaitTasksAsync.** `RightInv` follows the right to let the parent go on: it is
created when `await_suspend` raises `handle_ready_`, taken by the one who
lowers the flag, and spent by the resumption. `OwnerInv` says at which steps
each holder has its `shared_ptr`.

**StartTasks.** Why may the caller free the mutex which the worker locked? The
predicate is asked under that mutex (`MutualExclusion`), and the flag is set
only where the worker's last access is the unlocking (`NotifierInv`).

**ThreadPool.** `OnePlace` counts copies; `PlaceInv` says instead that no queue
holds a handle twice and no two of them the same. `CountInv` ties
`remaining_tasks` to the children that are not done, so that a parent is
resumed by its last child while nobody holds it. `FrameInv` says who has
destroyed which frames, and `PoolInv` how far the destructor is.

**Tasks.** A destructor reaches frames over any number of owners; that none of
them runs or waits follows from who can call it. `OwnerInv`: an active frame
belongs to the coroutine that awaits it, or to a thread on whose stack it is.
Whoever runs does neither, so it owns only frames that are unstarted or done
(`OwnsQuiet`), and so do those, by their parameters (`Keeps`), and all that
they own (`DoomedQuiet`). The depth of stack and
ownership is not counted: both are least closed sets (`OnStack`, `Doomed`),
which a proof uses by exhibiting a closed set. `ContInv` pairs each awaiting
coroutine with the one active frame whose continuation it is.

**Chain.** Control goes down, one `process_tasks` per function, and then up with
one result: `Down(k)` and `Up(k, m)` say what every coroutine's state is when
control is at function k, on the way down or on the way up from m. `PlaceInv`
says where the value of each function can be, and that it is there only.

**ImplicitProducer.** A dequeue compares its own number with counters that may
be old; why is the element that it claims there? `CountInv`: the dequeues that
claimed are a set K of numbers, those that gave up a set G, and for each i in K
fewer than `tailIndex` of the numbers below i are not in G. The counters forget
these sets, so the invariant says that they exist; the largest member of K then
bounds `headIndex`. `ShapeInv` says that what a step is about to read is there.

And why does it find that element, with any header, tail and key it may have
read meanwhile? `BlockInv` (theorem `BlocksAgree`). Block number j holds
`BlockSize` elements from `Start(j)` on, and every header that was ever
published has one place for it: `off[k] + j` modulo the size of header k, for
some offsets `off`, which growing the index chooses and nothing changes
(`CongruentInv`; the sizes divide one another, so that an entry which is reused
for a later block stays in place in all headers). A reader thus computes the
right entry from any key. `CurrentInv` says what the latest header contains,
`LookupInv` what a consumer's old one still leads to. The entry has not been
given away: a block stays linked while some element of it is wanted, and its
counter counts those that are not (`LinkInv`), so that only the consumer of the
last one finds the block empty and unlinks it. `OwnerInv` has each block in one
place: free, linked, with the consumer that unlinked it or with the producer.
`SlotInv` says what every slot holds, `FoundInv` what a consumer has found so
far, `MemoryInv` and `ReturnInv` what the destructors rely on.

**ThreadExit.** A thread walks over its listeners, under the mutex, while
queues that are destroyed take theirs out of it; why does it reach all that are
left, and does the walk end? (Until a thread goes astray: `Next` is then
disabled, and `Safety` says nothing.) `ListInv` gives every listener a rank that falls
along `next`, each but the first one predecessor, and lets the remainder of a
walk be a list like any other (`First`, `Members`): the last one thus has
nothing behind it. Subscribing shifts the ranks of one thread's list by one.
`ProducerLife`, `DestructorInv` and `PointerInv` say whom a chain, a
destructor and a thread's pointer may name; `UserInv`, that a thread which has
not told a live producer of its end still has it before it. The
invariant says nothing of the listener a thread leaves behind, since the code
does not keep it alive (finding 3): that each walk stays on live listeners is
not a theorem but what `thread_exit` refutes.

**ConcurrentQueue.** What may a dequeue conclude from a part that gave nothing?
The counters alone do not tell: two dequeues may fail because of each other.
`TallyInv` is the argument of `ImplicitProducer` again, on the counters of each
part: the numbers counted are split into those that claimed, those that gave up
and those still to choose. So, if nobody else is counted, `headIndex` is what
was counted less what was given back (`Counted`), and a failed check means that
the part is empty. `RivalInv`: whoever is counted is a rival of all others under
way. `KnowInv` adds up what a dequeue has learnt: each part is `Cleared` or
still to be looked at, also when the walk begins anew with a list that has
grown. For the destructor, `Sizes` and `Taken` are recursive functions; that
they exist, grow and agree at each part is shown with a least counterexample
(`SumExists`, `SizesGrow`, `TakenAll`), as induction is not at hand.

**FreeList.** A thread that is about to exchange the head has read `next` some
time ago, and meanwhile the block may have been popped, used, given back and
pushed again; why is `next` still right? `BlocksInv` has each block at one place
(in the pool, held, popped, about to be pushed, pushed but for the head, on the
list, or left to who refers to it) and says what its count is there: the number
of threads that refer to it (`Readers`), one more for the list, two for who has
popped it. A block whose `next` is written has a count of zero, so nobody refers
to it; whoever has read `next` has a reference, so it is unchanged
(`ReadyInv`). The bit is set exactly while a block waits to be pushed, and a
block that is left there has a reader, who will find the bit. The list itself is
a sequence (`Linked`); that following `next` from the head runs through it and
ends, is shown with a least counterexample (`WalkIs`).

**ProducerHash.** A thread that finds no id of its own takes a producer and
writes its id into the table that is then the last one; why does it find it
again, after others have grown the table, and why not one that an earlier thread
with its id left behind? `TablesInv`: the tables are chained in their order, and
every slot with an id is one that the search for this id gets to (`Reached`);
slots are never made empty again, so what a search once got to it always will
(`TableStep`). `ThreadsInv`: a thread that has no producer has its id nowhere
(`Nowhere`: at its end it goes through all tables), and beside the id of one that
has there is its producer, wherever the id is and the lazy move has copied it to
(`Lists`). While it walks over the slots of one table it still finds its id in
that table or an earlier one, or a reachable slot to put it in. `BuilderInv`: the
flag is set while exactly one thread is building, which therefore has the last
table before it when it chains another to it. `OwnInv` keeps producers in use
apart from those to be taken again, and `HashTypes` has the count cover the
threads under way, so that an `uncount` never takes it below zero. How often the
capacity is doubled and which tables a chain consists of are recursive
functions; that they exist is shown with least counterexamples (`Doubling`,
`NewCapacityIs`, `ChainIs`).

Does a search in the first table end at all? `FirstInv`: the count covers the
used slots of the first table and the threads that are under way, because only
a later table has slots that nobody counted (`Move` never writes to the first).
Of the threads under way some were counted below three quarters of the capacity
(`Fitting`); they and the used slots together are fewer than that, and nobody
else ever writes to the first table. That a search which ends finds the right
producer does not depend on it.

Only model-checked: all liveness (fairness and ENABLED are out of the prover's
reach) and what the three runs that expect a violation show. No module with
a proof, nor any that it uses, has a RECURSIVE operator.

## 5. What is not modelled, and the plan

Not modelled, by component:

- deque: hardware weaker than total store order (the code replaced a release
  fence by a release store, `include/deque.h:126`, and publishes a grown buffer
  with a relaxed store, line 122); unsigned overflow of indices (2^64 pushes);
- waiting: on which pool the parent goes on when the tasks were sent to another
  one (it stays on the worker that ran the last task,
  `include/wait_tasks.h:326`); `WaitTasksAwaitableVector`, a copy of
  `WaitTasksAwaitable` that nothing uses;
- tasks and chains: awaiting a task again (`include/task.h:335`) or an
  awaitable chain again (`include/chain_tasks.h:388`), and binding what
  `await_resume` returns to a reference (line 309), which is left dangling:
  misuses that types do not prevent;
- pool: `ThreadPool(0)` (`include/thread_pool.h:76`), the ignored result of
  `enqueue` (line 100), the unsynchronised random engine (line 116), and that
  workers with tasks of their own never look at `new_tasks_` (line 131), so that
  `EveryTaskServed` holds because tasks are finitely many;
- concurrent queue: what coros does not use (explicit producers, tokens, bulk
  enqueue, `try_dequeue` variants, move and swap); that two dequeues may make
  each other give up for ever (`include/concurrentqueue.h:2557`); the end of the
  wait for a larger table as a liveness property (line 3531); allocation
  failure outside `enqueue` and the hash;
- `constructor_counter.hpp` (test instrumentation), tests, benchmarks and
  examples.

Planned next: a deque whose slot and buffer stores are delayed, too.

## 6. Findings

Shown by a run:

1. `wait_no_tasks`: `co_await wait_tasks(v)` with an empty `std::vector`
   suspends the parent and schedules nothing, so nothing resumes it.
   `include/wait_tasks.h:138` says "Once all tasks are done the parent task foo,
   is resumed." (`wait_tasks_async` is different: its `await_ready` finds the
   count at zero.)
2. `pool_leak`: a NoWaitTask that has started and waits for children when the
   pool is stopped is in no queue, so the destructor does not destroy it.
   `include/task_life_time.h:7` says "Thread pool managed tasks are destroyed
   when the thread pool is destroyed." `DestroyedWithPool` states what does
   hold: nothing else is left behind.
3. `thread_exit`: `include/concurrentqueue.h:2440`. A producer's destructor does
   not unsubscribe, and so does not wait for the mutex, if its thread has already
   marked it inactive. The thread may still be in its walk over the listeners, and
   reads `next` of the freed one (line 613). The comment "race with
   ~ThreadExitNotifier" (line 589) is about the opposite order only. In the run a
   thread that enqueued once ends while another destroys the queue. In coros the
   queue is a pool's, and the thread one that enqueued to it from outside.

Seen while modelling; the models contain the behaviour, and the properties are
stated so that they allow it:

4. `include/task.h:322` and `include/wait_tasks.h:102`: move assignment
   overwrites the handle without destroying the frame it named, which is then
   leaked; the classes are described as "RAII object." (`wait_tasks.h:78`).
   `MoveAssign` of `Tasks` records such frames in `overwritten`.
5. `include/enqueue_tasks.h:103`: the wrapper awaits its task and never looks
   at the result, so an exception in an enqueued task disappears.
   `README.md:457` says "any exception thrown inside these tasks is immediately
   rethrown." See `FinishWrapper` of `Tasks`.
6. `include/chain_tasks.h:323`: for a chain that starts with an expected which
   holds an exception, `.value()` throws out of the co_await expression.
   `README.md:585` says that an exception in the chain is captured into the
   result, and line 687 offers this start for the result of an earlier chain.
   See `CoAwait` of `Chain`, after which `caller` is "threw".
7. `include/concurrentqueue.h:3514`: a slot whose id was copied to a later
   table by the lazy move (line 3430) was never counted, but whoever reuses it
   subtracts one. The count may thus fall below the number of used slots of that
   table, and does in `queue_parts`: the id of a thread in the first table is
   copied to the second, and the thread ends; another, which had loaded the first
   table before it was doubled, takes the slot left there, is uncounted, and is
   copied to a different slot of the second table, where now two used slots are
   counted as one. The comments in lines 3412 ("at least one
   slot is free in the hash table") and 3417-3419 derive from the count that there
   is room. For the first table they are right (`SearchesEnd`, and
   `FirstTableNeverFull` for every size); for later ones this development makes no
   claim. To fill one up, threads that loaded the first table long ago would have
   to reuse one slot of it in turn and then move; for the smallest tables that are
   doubled this takes more thread ids than TLC can enumerate.
