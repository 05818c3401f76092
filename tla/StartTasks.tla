------------------------------ MODULE StartTasks ------------------------------
(***************************************************************************)
(* start_sync and start_async: a thread outside the pool starts tasks and  *)
(* blocks until they are done.  The tasks are awaited by a StartTask       *)
(* coroutine whose final suspension notifies a StartingBarrier that lives  *)
(* in its own frame (include/start_tasks.h, include/start_barrier.h).      *)
(*                                                                         *)
(* The caller frees that frame, mutex and condition variable included, as  *)
(* soon as wait lets it go, while the worker may still be inside notify.   *)
(* The await of the tasks themselves is that of module Await, which        *)
(* WaitTasks implements: the StartTask is its parent coroutine.            *)
(***************************************************************************)
EXTENDS Naturals

CONSTANTS
  Task,                \* the started tasks
  MaxWaits,            \* bound: how often the caller of start_async waits
  MaxSpurious          \* bound: spurious wake-ups of the condition variable

\* Without a task wait_tasks never resumes the StartTask (module WaitTasks).
ASSUME StartAssumption ==
  /\ Task # {}
  /\ MaxWaits \in Nat \ {0}
  /\ MaxSpurious \in Nat

VARIABLES
  kind,                \* "sync" or "async": the function that was called
  finished,            \* the tasks that ran to their end
  starter,             \* the StartTask as the parent of Await
  enqueued,            \* is the StartTask's handle in new_tasks_?
  caller,              \* control of the thread outside the pool
  notifier,            \* control of the worker at the final suspension point
  mutex,               \* mtx_: its holder, or "free"
  flag,                \* flag_
  waits,               \* calls of wait the caller has still to make
  spurious,            \* spurious wake-ups so far
  frameLive            \* the StartTask's frame is still allocated

await == <<finished, starter>>
lock == <<mutex, flag, spurious>>
vars == <<kind, await, enqueued, caller, notifier, lock, waits, frameLive>>

Await == INSTANCE Await WITH parent <- starter

-----------------------------------------------------------------------------
Init ==
  /\ kind \in {"sync", "async"}
  /\ Await!Init
  /\ enqueued = FALSE
  /\ caller = "start"
  /\ notifier = "none"
  /\ mutex = "free"
  /\ flag = FALSE
  /\ waits \in IF kind = "sync" THEN {1} ELSE 1..MaxWaits
  /\ spurious = 0
  /\ frameLive = TRUE

\* start_sync: the StartTask goes to the pool, the caller to wait.
StartSync ==
  /\ kind = "sync"
  /\ caller = "start"
  /\ enqueued' = TRUE
  /\ caller' = "wait"
  /\ UNCHANGED <<kind, await, notifier, lock, waits, frameLive>>

\* A worker resumes the StartTask, whose body awaits the tasks.
BodyStarts ==
  /\ enqueued
  /\ enqueued' = FALSE
  /\ Await!Suspend
  /\ UNCHANGED <<kind, caller, notifier, lock, waits, frameLive>>

\* start_async: the caller itself resumes the StartTask, and so schedules the
\* tasks; it returns from resume and may do something else before wait.
StartAsync ==
  /\ kind = "async"
  /\ caller = "start"
  /\ Await!Suspend
  /\ caller' = "wait"
  /\ UNCHANGED <<kind, enqueued, notifier, lock, waits, frameLive>>

\* A task ends on some worker: only scheduled tasks run.
TaskEnds(i) ==
  /\ starter = "waiting"
  /\ Await!Finish(i)
  /\ UNCHANGED <<kind, enqueued, caller, notifier, lock, waits, frameLive>>

\* The worker of the last task resumes the StartTask, which reaches its final
\* suspension point and calls notify.
BodyEnds ==
  /\ starter = "waiting"
  /\ Await!Resume
  /\ notifier' = "lock"
  /\ UNCHANGED <<kind, enqueued, caller, lock, waits, frameLive>>

-----------------------------------------------------------------------------
\* notify: the steps of the block that the lock_guard encloses, in order.
\* (mutant) the condition variable is notified after the block.
NotifyUnlocked ==
  [lock |-> "set", set |-> "unlock", unlock |-> "notify", notify |-> "gone"]
NotifySteps ==
  [lock |-> "set", set |-> "notify", notify |-> "unlock", unlock |-> "gone"]

NotifyLock ==
  /\ notifier = "lock"
  /\ mutex = "free"
  /\ mutex' = "worker"
  /\ notifier' = NotifySteps[notifier]
  /\ UNCHANGED <<kind, await, enqueued, caller, flag, waits, spurious,
                 frameLive>>

NotifySet ==
  /\ notifier = "set"
  /\ flag' = TRUE
  /\ notifier' = NotifySteps[notifier]
  /\ UNCHANGED <<kind, await, enqueued, caller, mutex, waits, spurious,
                 frameLive>>

\* notify_all: wakes the caller if it sleeps, is forgotten otherwise.
NotifyAll ==
  /\ notifier = "notify"
  /\ caller' = IF caller = "asleep" THEN "awake" ELSE caller
  /\ notifier' = NotifySteps[notifier]
  /\ UNCHANGED <<kind, await, enqueued, lock, waits, frameLive>>

NotifyUnlock ==
  /\ notifier = "unlock"
  /\ mutex' = "free"
  /\ notifier' = NotifySteps[notifier]
  /\ UNCHANGED <<kind, await, enqueued, caller, flag, waits, spurious,
                 frameLive>>

-----------------------------------------------------------------------------
\* wait: the unique_lock, and the lock taken again when woken.
WaitLock ==
  /\ caller \in {"wait", "awake"}
  /\ mutex = "free"
  /\ mutex' = "caller"
  /\ caller' = "test"
  /\ UNCHANGED <<kind, await, enqueued, notifier, flag, waits, spurious,
                 frameLive>>

\* (mutant) the caller sleeps without asking the predicate first.
NeverAsk == FALSE
\* (mutant) whoever was woken goes on.
WokenIsEnough == flag \/ spurious > 0
Predicate == flag

\* (mutant) the caller goes to sleep with the mutex.
KeepMutex == mutex
ReleaseMutex == "free"

\* The predicate holds: wait returns and with it the unique_lock.
WaitReturns ==
  /\ caller = "test"
  /\ Predicate
  /\ mutex' = "free"
  /\ caller' = "returned"
  /\ waits' = waits - 1
  /\ UNCHANGED <<kind, await, enqueued, notifier, flag, spurious, frameLive>>

\* It does not: the mutex is released and the caller asleep in one step.
WaitSleeps ==
  /\ caller = "test"
  /\ ~Predicate
  /\ mutex' = ReleaseMutex
  /\ caller' = "asleep"
  /\ UNCHANGED <<kind, await, enqueued, notifier, flag, waits, spurious,
                 frameLive>>

SpuriousWakeup ==
  /\ caller = "asleep"
  /\ spurious < MaxSpurious
  /\ spurious' = spurious + 1
  /\ caller' = "awake"
  /\ UNCHANGED <<kind, await, enqueued, notifier, mutex, flag, waits,
                 frameLive>>

\* The StartTask that start_async returned may be waited for again.
WaitAgain ==
  /\ caller = "returned"
  /\ waits > 0
  /\ caller' = "wait"
  /\ UNCHANGED <<kind, await, enqueued, notifier, lock, waits, frameLive>>

\* ~StartTask frees the frame.
DestroyStartTask ==
  /\ caller = "returned"
  /\ waits = 0
  /\ frameLive' = FALSE
  /\ caller' = "done"
  /\ UNCHANGED <<kind, await, enqueued, notifier, lock, waits>>

CallerStep ==
  \/ StartSync \/ StartAsync \/ WaitLock \/ WaitReturns \/ WaitSleeps
  \/ WaitAgain \/ DestroyStartTask

NotifierStep == NotifyLock \/ NotifySet \/ NotifyAll \/ NotifyUnlock

Next ==
  \/ CallerStep \/ SpuriousWakeup \/ NotifierStep \/ BodyStarts \/ BodyEnds
  \/ \E i \in Task : TaskEnds(i)

Spec == Init /\ [][Next]_vars

\* The threads run, the pool takes up the StartTask and its tasks, the tasks
\* end, and the last of them resumes the StartTask (modules ThreadPool and
\* WaitTasks).  Wake-ups may be spurious only finitely often, so that weak
\* fairness suffices for the mutex.
Fairness ==
  /\ WF_vars(CallerStep)
  /\ WF_vars(NotifierStep)
  /\ WF_vars(BodyStarts)
  /\ WF_vars(BodyEnds)
  /\ \A i \in Task : WF_vars(TaskEnds(i))

FairSpec == Spec /\ Fairness

-----------------------------------------------------------------------------
\* Types, and who holds the mutex knows that it does.
TypeOK ==
  /\ kind \in {"sync", "async"}
  /\ Await!TypeOK
  /\ enqueued \in BOOLEAN
  /\ caller \in {"start", "wait", "test", "asleep", "awake", "returned",
                 "done"}
  /\ notifier \in {"none", "gone"} \cup DOMAIN NotifySteps
  /\ mutex = CASE caller = "test" -> "caller"
               [] notifier \in {"set", "notify", "unlock"} -> "worker"
               [] OTHER -> "free"
  /\ flag \in BOOLEAN
  /\ waits \in 0..MaxWaits
  /\ spurious \in 0..MaxSpurious
  /\ frameLive \in BOOLEAN

\* The frame (barrier, awaitable, coroutine state) is in use by the pool until
\* the worker has left notify: until then the caller has not freed it.
FrameOutlivesNotify ==
  (enqueued \/ starter = "waiting" \/ notifier \notin {"none", "gone"})
    => frameLive

\* wait returns, by whatever wake-up, only after every task is done.
WaitMeansDone == caller \in {"returned", "done"} => finished = Task

\* The notification is not lost: the caller always goes on.
CallerReturns == <>(caller = "done")
=============================================================================
