------------------------------ MODULE WaitTasks ------------------------------
(***************************************************************************)
(* co_await wait_tasks(...) and wait_tasks(pool, ...): the awaiting        *)
(* coroutine (the parent) suspends, its worker schedules one WaitTask per  *)
(* task, the WaitTasks run on any worker and count down a WaitBarrier, and *)
(* the worker of the last one resumes the parent by symmetric transfer     *)
(* (include/wait_tasks.h, include/wait_barrier.h).                         *)
(*                                                                         *)
(* The actors are the worker that executes await_suspend and the workers   *)
(* that execute the WaitTasks.  Nothing protects the memory they share:    *)
(* the awaitable (with the barrier and the array of WaitTasks) lives in    *)
(* the parent's frame, and the resumed parent destroys it, with every      *)
(* WaitTask, while other workers may still be returning from their last    *)
(* step.  Uses names the memory each actor's next step touches.            *)
(***************************************************************************)
EXTENDS Naturals, FiniteSets

CONSTANT N             \* the number of awaited tasks, scheduled in order

ASSUME NAssumption == N \in Nat

Task == 1..N

VARIABLES
  suspender,           \* control of the worker inside await_suspend
  next,                \* the task its loop is at
  child,               \* control of each WaitTask and the worker running it
  remaining,           \* remaining_tasks of the barrier
  continuation,        \* is the parent's handle stored in the barrier?
  barrierSet,          \* the WaitTasks whose promise points to the barrier
  parent,              \* "running", "suspended", "resumed", "done"
  resumes,             \* history: how often the parent was resumed
  live                 \* the memory that is still allocated

vars == <<suspender, next, child, remaining, continuation, barrierSet, parent,
          resumes, live>>

\* The memory at stake: the awaitable, and the frame of each WaitTask.
Awaitable == 0
Frame(i) == i
Memory == 0..N

-----------------------------------------------------------------------------
\* (mutant) the size is taken from the vector that was already moved from.
SizeAfterMove == 0
InitialCount == N

Init ==
  /\ suspender = "none"
  /\ next = 1
  /\ child = [i \in Task |-> "created"]
  /\ remaining = InitialCount
  /\ continuation = FALSE
  /\ barrierSet = {}
  /\ parent = "running"
  /\ resumes = 0
  /\ live = Memory

\* The parent is suspended before await_suspend is called; set_continuation.
Suspend ==
  /\ parent = "running"
  /\ parent' = "suspended"
  /\ suspender' = "loop"
  /\ continuation' = TRUE
  /\ UNCHANGED <<next, child, remaining, barrierSet, resumes, live>>

\* (mutant) the WaitTask is scheduled without a barrier.
SkipBarrier ==
  /\ suspender = "loop"
  /\ next \in Task
  /\ suspender' = "add"
  /\ UNCHANGED <<next, child, remaining, continuation, barrierSet, parent,
                 resumes, live>>
\* One round of the loop of await_suspend: set the barrier, then schedule.
SetBarrier ==
  /\ suspender = "loop"
  /\ next \in Task
  /\ barrierSet' = barrierSet \cup {next}
  /\ suspender' = "add"
  /\ UNCHANGED <<next, child, remaining, continuation, parent, resumes, live>>

AddTask ==
  /\ suspender = "add"
  /\ child' = [child EXCEPT ![next] = "queued"]
  /\ next' = next + 1
  /\ suspender' = "loop"
  /\ UNCHANGED <<remaining, continuation, barrierSet, parent, resumes, live>>

\* The loop ends; the worker returns to run.
ReturnToWorker ==
  /\ suspender = "loop"
  /\ next \notin Task
  /\ suspender' = "returned"
  /\ UNCHANGED <<next, child, remaining, continuation, barrierSet, parent,
                 resumes, live>>

\* A worker resumes a scheduled WaitTask; the awaited task runs to its end and
\* the WaitTask reaches its final suspension point.
Run(i) ==
  /\ child[i] = "queued"
  /\ child' = [child EXCEPT ![i] = "final"]
  /\ UNCHANGED <<suspender, next, remaining, continuation, barrierSet, parent,
                 resumes, live>>

\* (mutant) the test for the last task is off by one.
IsLastEarly(r) == r <= 2
\* (mutant) fetch_sub is taken to return the new value.
IsLastLate(r) == r = 0
IsLast(r) == r = 1

\* fetch_sub of decrement_and_resume.  Only the last one reads on.
Decrement(i) ==
  /\ child[i] = "final"
  /\ remaining' = remaining - 1
  /\ child' = [child EXCEPT ![i] =
                 IF IsLast(remaining) THEN "last" ELSE "leaving"]
  /\ UNCHANGED <<suspender, next, continuation, barrierSet, parent, resumes,
                 live>>

\* The worker of a WaitTask that is not the last transfers to a no-op
\* coroutine and returns to run.
Leave(i) ==
  /\ child[i] = "leaving"
  /\ child' = [child EXCEPT ![i] = "gone"]
  /\ UNCHANGED <<suspender, next, remaining, continuation, barrierSet, parent,
                 resumes, live>>

\* The worker of the last one transfers to the continuation.
ResumeParent(i) ==
  /\ child[i] = "last"
  /\ child' = [child EXCEPT ![i] = "gone"]
  /\ parent' = "resumed"
  /\ resumes' = resumes + 1
  /\ UNCHANGED <<suspender, next, remaining, continuation, barrierSet, live>>

\* At the end of the co_await expression the parent destroys the awaitable and
\* the WaitTasks in it (~WaitTask destroys the frame).
DestroyAwaitable ==
  /\ parent = "resumed"
  /\ parent' = "done"
  /\ live' = live \ Memory
  /\ UNCHANGED <<suspender, next, child, remaining, continuation, barrierSet,
                 resumes>>

Next ==
  \/ Suspend \/ SetBarrier \/ AddTask \/ ReturnToWorker \/ DestroyAwaitable
  \/ \E i \in Task : Run(i) \/ Decrement(i) \/ Leave(i) \/ ResumeParent(i)

Spec == Init /\ [][Next]_vars

\* Every worker that has begun something goes on, and a scheduled WaitTask is
\* eventually taken by some worker (module ThreadPool).
Fairness ==
  /\ WF_vars(Suspend \/ SetBarrier \/ AddTask \/ ReturnToWorker)
  /\ WF_vars(DestroyAwaitable)
  /\ \A i \in Task :
       WF_vars(Run(i) \/ Decrement(i) \/ Leave(i) \/ ResumeParent(i))

FairSpec == Spec /\ Fairness

-----------------------------------------------------------------------------
(* The memory that the next step of each actor reads or writes.            *)

\* (mutant) the loop asks the container for its end again in every round.
SuspenderRereadsEnd ==
  IF suspender \in {"loop", "add"} THEN {Awaitable} ELSE {}

\* The loop's iterators are copies: after the last task only they are compared.
SuspenderUses ==
  CASE suspender = "loop" /\ next \in Task -> {Awaitable, Frame(next)}
    [] suspender = "add" -> {Awaitable, Frame(next)}
    [] OTHER -> {}

\* (mutant) decrement_and_resume reads remaining_tasks again after fetch_sub.
ChildRereads(i) ==
  CASE child[i] \in {"queued", "final"} -> {Frame(i), Awaitable}
    [] child[i] \in {"last", "leaving"} -> {Awaitable}
    [] OTHER -> {}

\* A WaitTask's frame is used until the barrier was found through it, the
\* barrier until it was counted down, by the last one until the parent's handle
\* was read.
ChildUses(i) ==
  CASE child[i] = "queued" -> {Frame(i)}
    [] child[i] = "final" -> {Frame(i), Awaitable}
    [] child[i] = "last" -> {Awaitable}
    [] OTHER -> {}

Uses == SuspenderUses \cup UNION {ChildUses(i) : i \in Task}

-----------------------------------------------------------------------------
TypeOK ==
  /\ suspender \in {"none", "loop", "add", "returned"}
  /\ next \in 1..N + 1
  /\ child \in [Task -> {"created", "queued", "final", "leaving", "last",
                         "gone"}]
  /\ remaining \in 0..N
  /\ continuation \in BOOLEAN
  /\ barrierSet \subseteq Task
  /\ parent \in {"running", "suspended", "resumed", "done"}
  /\ resumes \in Nat
  /\ live \subseteq Memory

\* No worker follows the barrier pointer or the continuation before they were
\* stored: a scheduled WaitTask may be stolen and finish at once.
SetBeforeUse ==
  \A i \in Task :
    /\ child[i] \in {"queued", "final"} => i \in barrierSet
    /\ child[i] = "last" => continuation

\* Nor does any worker touch the awaitable, its barrier or a WaitTask's frame
\* after the resumed parent freed them: not the worker still in await_suspend,
\* not the workers of the tasks that were not last.
MemorySafety == Uses \subseteq live /\ SetBeforeUse

\* What wait_tasks.h promises: "Once all tasks are done the parent task foo, is
\* resumed."
ResumedInTheEnd == <>(parent = "done")

Finished == {i \in Task : child[i] \in {"leaving", "last", "gone"}}

Abstract == INSTANCE Await WITH
  finished <- Finished,
  parent <- CASE parent = "running" -> "running"
              [] parent = "suspended" -> "waiting"
              [] resumes > 1 -> "resumed twice"
              [] OTHER -> "resumed"

\* The parent goes on at most once, and never before the last task has finished.
ImplementsAwait == Abstract!Spec
=============================================================================
