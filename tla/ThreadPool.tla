------------------------------ MODULE ThreadPool ------------------------------
(***************************************************************************)
(* The scheduler (include/thread_pool.h): each worker loops over its own   *)
(* deque, the deques of the others and the queue of tasks from outside,    *)
(* and resumes what it finds; the destructor stops and joins the workers   *)
(* and destroys the pool-managed tasks nobody took.                        *)
(*                                                                         *)
(* A task's frame has one owner.  A NoWaitTask (enqueue_tasks) is pool     *)
(* managed: the pool destroys it if it was never taken, else it destroys   *)
(* itself at its end.  Every other task is scope managed: a child belongs  *)
(* to the awaitable of its parent (wait_tasks), a root to the thread       *)
(* outside that waits for it (start_sync).  What a task does is given by   *)
(* Children and Injected: it enqueues the one, awaits the others, ends.    *)
(*                                                                         *)
(* Each operation of a deque is one step, as in TaskDeque, which module    *)
(* Deque implements; the queue is a sequence per enqueuing thread, from    *)
(* whose heads a dequeue takes any; counting down the barrier and          *)
(* transferring to the parent is one step, as in Await.                    *)
(***************************************************************************)
EXTENDS Sequences, SequencesExt, FiniteSets

CONSTANTS
  Worker,              \* the pool's threads
  Outside,             \* the other threads that enqueue tasks
  Task,                \* the tasks, by the handle the pool schedules
  External,            \* those that a thread outside enqueues
  By,                  \* the thread that does
  Managed,             \* the NoWaitTasks
  Children,            \* the tasks that a task awaits with wait_tasks
  Injected,            \* the tasks that a task enqueues with enqueue_tasks
  Nobody               \* no task

Thread == Worker \cup Outside

\* Each task comes from one place: from outside, from the task that awaits it
\* or from the task that enqueues it.  Only awaited tasks are not in new_tasks_.
ASSUME TasksAssumption ==
  /\ IsFiniteSet(Task)
  /\ Nobody \notin Task
  /\ External \subseteq Task
  /\ Managed \subseteq Task
  /\ By \in [External -> Outside]
  /\ Children \in [Task -> SUBSET (Task \ (External \cup Managed))]
  /\ Injected \in [Task -> SUBSET (Managed \ External)]
  /\ \A t \in Task \ External :
       Cardinality({p \in Task : t \in Children[p] \cup Injected[p]}) = 1

VARIABLES
  stop,                \* threads_stop_executing_
  pool,                \* the destructor's progress
  control,             \* what each worker is about to do
  hand,                \* the task each worker holds
  victims,             \* the deques a thief has still to try in this round
  deques,              \* worker_queues_, the bottom last
  newTasks,            \* new_tasks_, by the thread that enqueued
  task,                \* the state of each task's coroutine
  pending,             \* remaining_tasks of the barrier each task waits on
  destroyed            \* history: how often each task's frame was destroyed

queues == <<deques, newTasks>>
frames == <<task, pending, destroyed>>
vars == <<stop, pool, control, hand, victims, queues, frames>>

Parent(t) == CHOOSE p \in Task : t \in Children[p]
IsChild(t) == \E p \in Task : t \in Children[p]
Scope == Task \ Managed

-----------------------------------------------------------------------------
\* A worker whose thread does not run yet has not made its first check.
Init ==
  /\ stop = FALSE
  /\ pool = "alive"
  /\ control = [w \in Worker |-> "check"]
  /\ hand = [w \in Worker |-> Nobody]
  /\ victims = [w \in Worker |-> {}]
  /\ deques = [w \in Worker |-> <<>>]
  /\ newTasks = [p \in Thread |-> <<>>]
  /\ task = [t \in Task |-> "created"]
  /\ pending = [t \in Task |-> Cardinality(Children[t])]
  /\ destroyed = [t \in Task |-> 0]

\* add_task_from_outside, called by p.
Enqueue(p, t) ==
  /\ task[t] = "created"
  /\ newTasks' = [newTasks EXCEPT ![p] = Append(@, t)]
  /\ task' = [task EXCEPT ![t] = "queued"]

\* enqueue_tasks or start_sync of a thread outside: not once the pool is being
\* destroyed, which no caller may do meanwhile.
EnqueueOutside(t) ==
  /\ pool = "alive"
  /\ Enqueue(By[t], t)
  /\ UNCHANGED <<stop, pool, control, hand, victims, deques, pending,
                 destroyed>>

-----------------------------------------------------------------------------
Goto(w, label) == control' = [control EXCEPT ![w] = label]

\* The worker w got task t and goes on to resume it.
Obtain(w, t) ==
  /\ hand' = [hand EXCEPT ![w] = t]
  /\ Goto(w, "resume")

\* run: the loop's condition.
Check(w) ==
  /\ control[w] = "check"
  /\ Goto(w, IF stop THEN "exited" ELSE "pop")
  /\ UNCHANGED <<stop, pool, hand, victims, queues, frames>>

\* get_task: the worker's own deque first.
PopOwn(w) ==
  /\ control[w] = "pop"
  /\ deques[w] # <<>>
  /\ Obtain(w, Last(deques[w]))
  /\ deques' = [deques EXCEPT ![w] = Front(@)]
  /\ UNCHANGED <<stop, pool, victims, newTasks, frames>>

\* The thieves' round starts anywhere and spares the worker's own deque.
PopEmpty(w) ==
  /\ control[w] = "pop"
  /\ deques[w] = <<>>
  /\ victims' = [victims EXCEPT ![w] = Worker \ {w}]
  /\ Goto(w, "steal")
  /\ UNCHANGED <<stop, pool, hand, queues, frames>>

\* (mutant) the handle is read without being taken out.
PeekTop(v) == deques
RemoveTop(v) == [deques EXCEPT ![v] = Tail(@)]

StealFrom(w, v) ==
  /\ control[w] = "steal"
  /\ v \in victims[w]
  /\ deques[v] # <<>>
  /\ Obtain(w, Head(deques[v]))
  /\ deques' = RemoveTop(v)
  /\ victims' = [victims EXCEPT ![w] = {}]
  /\ UNCHANGED <<stop, pool, newTasks, frames>>

\* The victim's deque is empty, or another worker was faster.
StealFails(w, v) ==
  /\ control[w] = "steal"
  /\ v \in victims[w]
  /\ victims' = [victims EXCEPT ![w] = @ \ {v}]
  /\ UNCHANGED <<stop, pool, control, hand, queues, frames>>

StealOver(w) ==
  /\ control[w] = "steal"
  /\ victims[w] = {}
  /\ Goto(w, "dequeue")
  /\ UNCHANGED <<stop, pool, hand, victims, queues, frames>>

\* try_dequeue, from any thread's part of the queue.
Dequeue(w, p) ==
  /\ control[w] = "dequeue"
  /\ newTasks[p] # <<>>
  /\ Obtain(w, Head(newTasks[p]))
  /\ newTasks' = [newTasks EXCEPT ![p] = Tail(@)]
  /\ UNCHANGED <<stop, pool, victims, deques, frames>>

\* noop_coroutine: nothing to do.  try_dequeue looks at one part after the
\* other, so it may miss a task.
DequeueFails(w) ==
  /\ control[w] = "dequeue"
  /\ Goto(w, "check")
  /\ UNCHANGED <<stop, pool, hand, victims, queues, frames>>

-----------------------------------------------------------------------------
\* resume: the task runs from its initial suspension point.  What was taken is
\* resumed even if the pool is being stopped.
Resume(w) ==
  /\ control[w] = "resume"
  /\ task' = [task EXCEPT ![hand[w]] = "running"]
  /\ Goto(w, "run")
  /\ UNCHANGED <<stop, pool, hand, victims, queues, pending, destroyed>>

\* The task enqueues another one: on this thread's part of new_tasks_.
Inject(w, t) ==
  /\ control[w] = "run"
  /\ task[hand[w]] = "running"
  /\ t \in Injected[hand[w]]
  /\ Enqueue(w, t)
  /\ UNCHANGED <<stop, pool, control, hand, victims, deques, pending,
                 destroyed>>

\* co_await wait_tasks: the parent is suspended before a child is scheduled.
Await(w) ==
  /\ control[w] = "run"
  /\ task[hand[w]] = "running"
  /\ \A t \in Injected[hand[w]] : task[t] # "created"
  /\ Children[hand[w]] # {}
  /\ task' = [task EXCEPT ![hand[w]] = "suspended"]
  /\ Goto(w, "spawn")
  /\ UNCHANGED <<stop, pool, hand, victims, queues, pending, destroyed>>

\* add_task for one child after the other, in the order of the arguments.
AddTask(w, t) ==
  /\ control[w] = "spawn"
  /\ t \in Children[hand[w]]
  /\ task[t] = "created"
  /\ deques' = [deques EXCEPT ![w] = Append(@, t)]
  /\ task' = [task EXCEPT ![t] = "queued"]
  /\ UNCHANGED <<stop, pool, control, hand, victims, newTasks, pending,
                 destroyed>>

\* await_suspend returns, and resume with it.
Suspended(w) ==
  /\ control[w] = "spawn"
  /\ \A t \in Children[hand[w]] : task[t] # "created"
  /\ hand' = [hand EXCEPT ![w] = Nobody]
  /\ Goto(w, "check")
  /\ UNCHANGED <<stop, pool, victims, queues, frames>>

\* Frames that go when task t ends: those of the children its awaitable holds,
\* and its own if it is a NoWaitTask.
\* (mutant) a task that ends destroys itself, whoever owns it.
EndsAnyway(t) == Children[t] \cup {t}
Ends(t) == Children[t] \cup ({t} \cap Managed)

Destroy(ts) == destroyed' = [t \in Task |->
                               destroyed[t] + IF t \in ts THEN 1 ELSE 0]

\* The task the worker runs comes to its end; its worker goes on with the
\* parent if the task was the last of the parent's children.
\* (mutant) fetch_sub's result is compared to zero.
LastAtZero(n) == n = 0
LastChild(n) == n = 1

Finish(w) ==
  LET t == hand[w]
      transfers == IsChild(t) /\ LastChild(pending[Parent(t)])
  IN  /\ control[w] = "run"
      /\ \/ task[t] = "resumed"
         \/ /\ task[t] = "running"
            /\ Children[t] = {}
            /\ \A u \in Injected[t] : task[u] # "created"
      /\ task' = [u \in Task |-> IF u = t THEN "done"
                                 ELSE IF transfers /\ u = Parent(t)
                                 THEN "resumed" ELSE task[u]]
      /\ pending' = [u \in Task |-> IF t \in Children[u] THEN pending[u] - 1
                                    ELSE pending[u]]
      /\ Destroy(Ends(t))
      /\ hand' = [hand EXCEPT ![w] = IF transfers THEN Parent(t) ELSE Nobody]
      /\ Goto(w, IF transfers THEN "run" ELSE "check")
      /\ UNCHANGED <<stop, pool, victims, queues>>

-----------------------------------------------------------------------------
\* ~ThreadPool: stop_threads.  The pool "outlives the execution of the tasks"
\* somebody waits for.
Stop ==
  /\ pool = "alive"
  /\ \A t \in External \cap Scope : task[t] \in {"created", "done"}
  /\ stop' = TRUE
  /\ pool' = "joining"
  /\ UNCHANGED <<control, hand, victims, queues, frames>>

Elements(s) == UNION {ToSet(s[x]) : x \in DOMAIN s}

\* (mutant) nobody is destroyed.
DestroyNone(s) == {}
DestroyManaged(s) == Elements(s) \cap Managed

\* (mutant) the queue is emptied without waiting for the workers.
NoJoin == TRUE
Joined == \A w \in Worker : control[w] = "exited"

\* All workers have been joined: what is left in new_tasks_ is taken out.
Drain ==
  /\ pool = "joining"
  /\ Joined
  /\ newTasks' = [p \in Thread |-> <<>>]
  /\ Destroy(DestroyManaged(newTasks))
  /\ pool' = "drained"
  /\ UNCHANGED <<stop, control, hand, victims, deques, task, pending>>

\* The members go: ~Dequeue does the same for each deque.
DestroyDeques ==
  /\ pool = "drained"
  /\ deques' = [w \in Worker |-> <<>>]
  /\ Destroy(DestroyManaged(deques))
  /\ pool' = "destroyed"
  /\ UNCHANGED <<stop, control, hand, victims, newTasks, task, pending>>

-----------------------------------------------------------------------------
WorkerStep(w) ==
  \/ Check(w) \/ PopOwn(w) \/ PopEmpty(w) \/ StealOver(w) \/ DequeueFails(w)
  \/ Resume(w) \/ Await(w) \/ Suspended(w) \/ Finish(w)
  \/ \E v \in Worker : StealFrom(w, v) \/ StealFails(w, v)
  \/ \E p \in Thread : Dequeue(w, p)
  \/ \E t \in Task : Inject(w, t) \/ AddTask(w, t)

Next ==
  \/ \E t \in External : EnqueueOutside(t)
  \/ \E w \in Worker : WorkerStep(w)
  \/ Stop \/ Drain \/ DestroyDeques

Spec == Init /\ [][Next]_vars

\* The workers run.  A worker that comes to a non-empty queue again and again
\* takes something in the end: try_dequeue misses a task only while others
\* enqueue or dequeue.
Fairness ==
  /\ \A w \in Worker :
       /\ WF_vars(WorkerStep(w))
       /\ SF_vars(\E p \in Thread : Dequeue(w, p))
  /\ WF_vars(Drain)
  /\ WF_vars(DestroyDeques)

FairSpec == Spec /\ Fairness

-----------------------------------------------------------------------------
\* A parent goes on exactly when its last child is done: its count is that of
\* its unfinished children.
ParentsWait ==
  \A p \in Task : task[p] \in {"suspended", "resumed"} =>
    pending[p] = Cardinality({t \in Children[p] : task[t] # "done"})
    /\ (task[p] = "resumed" <=> pending[p] = 0)

\* Types, and the counts agree with the tasks.
TypeOK ==
  /\ stop \in BOOLEAN
  /\ pool \in {"alive", "joining", "drained", "destroyed"}
  /\ control \in [Worker -> {"check", "pop", "steal", "dequeue", "resume",
                             "run", "spawn", "exited"}]
  /\ hand \in [Worker -> Task \cup {Nobody}]
  /\ victims \in [Worker -> SUBSET Worker]
  /\ deques \in [Worker -> Seq(Task)]
  /\ newTasks \in [Thread -> Seq(Task)]
  /\ task \in [Task -> {"created", "queued", "running", "suspended",
                        "resumed", "done"}]
  /\ pending \in [Task -> 0..Cardinality(Task)]
  /\ destroyed \in [Task -> Nat]
  /\ ParentsWait

\* A scheduled task is in exactly one place: once in one queue, or in the hand
\* of one worker that is about to resume it.  A task that runs is in one hand.
Holders(t) == {w \in Worker : hand[w] = t /\ control[w] \in {"resume", "run"}}
Position == 1..Cardinality(Task)
Entries(threads, queue, t) ==
  {e \in threads \X Position :
     e[2] \in DOMAIN queue[e[1]] /\ queue[e[1]][e[2]] = t}
Copies(t) ==
  Cardinality(Holders(t)) + Cardinality(Entries(Worker, deques, t))
  + Cardinality(Entries(Thread, newTasks, t))

OnePlace ==
  \A t \in Task :
    /\ Copies(t) <= 1
    /\ Copies(t) = 1 => task[t] \in {"queued", "running", "resumed"}
    /\ task[t] \in {"queued", "running", "resumed"}
         /\ pool \in {"alive", "joining"} => Copies(t) = 1

\* Nobody holds or finds a task whose frame is gone, and no frame is destroyed
\* twice: not by the pool and by its scope, not by the pool and by itself.
DestroyedOnce ==
  \A t \in Task : destroyed[t] <= 1 /\ (destroyed[t] = 1 => Copies(t) = 0)

\* What the destructor leaves behind of the pool-managed tasks: nothing but
\* those that had started and were waiting for children nobody will run.
DestroyedWithPool ==
  pool = "destroyed" =>
    \A t \in Managed : \/ destroyed[t] = 1
                       \/ task[t] \in {"created", "suspended"}

\* What task_life_time.h says: "Thread pool managed tasks are destroyed when
\* the thread pool is destroyed."
AllDestroyedWithPool ==
  pool = "destroyed" =>
    \A t \in Managed : destroyed[t] = 1 \/ task[t] = "created"

\* Every enqueued task is taken by a worker or destroyed with the pool, also
\* when it was enqueued while the pool was being stopped.
EveryTaskServed ==
  \A t \in External \cup Managed :
    task[t] = "queued" ~> task[t] # "queued" \/ destroyed[t] = 1

\* As long as the pool lives, who waits for children is resumed.
EveryParentResumed ==
  \A t \in Task : task[t] = "suspended" ~> task[t] = "done" \/ stop
=============================================================================
