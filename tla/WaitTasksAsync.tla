---------------------------- MODULE WaitTasksAsync ----------------------------
(***************************************************************************)
(* auto w = wait_tasks_async(...); ...; co_await w: the constructor of the *)
(* awaitable schedules the WaitTasks, the parent goes on working, and its  *)
(* co_await suspends only if a task is still running.  Whether the parent  *)
(* goes on by itself, is resumed by the worker that executes await_suspend *)
(* or by the worker of the last WaitTask is settled without a lock, by     *)
(* remaining_tasks and handle_ready_ (include/wait_tasks.h,                *)
(* include/wait_barrier.h).                                                *)
(*                                                                         *)
(* The barrier is a shared object: the awaitable, await_suspend and every  *)
(* decrement_and_resume hold a shared_ptr to it, and it is freed with the  *)
(* last of them.  The awaitable and the WaitTasks are freed by the resumed *)
(* parent.  All atomics are sequentially consistent, one step each.        *)
(***************************************************************************)
EXTENDS Naturals

CONSTANT N             \* the number of awaited tasks, scheduled in order

ASSUME NAssumption == N \in Nat

Task == 1..N

VARIABLES
  worker,              \* control of the worker in the constructor and co_await
  next,                \* the task the constructor's loop is at
  child,               \* control of each WaitTask and the worker running it
  remaining,           \* remaining_tasks
  continuation,        \* is the parent's handle stored in the barrier?
  handleReady,         \* handle_ready_
  owners,              \* who holds a shared_ptr to the barrier
  parent,              \* "running", "suspended", "resumed", "done"
  resumes,             \* history: how often the parent went on after co_await
  live                 \* the other memory that is still allocated

barrier == <<remaining, continuation, handleReady>>
vars == <<worker, next, child, barrier, owners, parent, resumes, live>>

\* The awaitable (an owner of the barrier too), the frame of each WaitTask, and
\* the barrier.  await_suspend's own shared_ptr is that of the Suspender.
Awaitable == 0
Frame(i) == i
Barrier == N + 1
Suspender == N + 1

-----------------------------------------------------------------------------
\* (mutant) one task too few is announced to the barrier.
OneTooFew == IF N = 0 THEN 0 ELSE N - 1
InitialCount == N

Init ==
  /\ worker = "constructor"
  /\ next = 1
  /\ child = [i \in Task |-> "created"]
  /\ remaining = InitialCount
  /\ continuation = FALSE
  /\ handleReady = FALSE
  /\ owners = {Awaitable}
  /\ parent = "running"
  /\ resumes = 0
  /\ live = 0..N

\* One round of the constructor's loop: set_barrier, add_task.
Schedule ==
  /\ worker = "constructor"
  /\ next \in Task
  /\ child' = [child EXCEPT ![next] = "queued"]
  /\ next' = next + 1
  /\ UNCHANGED <<worker, barrier, owners, parent, resumes, live>>

Constructed ==
  /\ worker = "constructor"
  /\ next \notin Task
  /\ worker' = "working"
  /\ UNCHANGED <<next, child, barrier, owners, parent, resumes, live>>

\* (mutant) await_ready does not wait for the last task.
LastMayRun(r) == r <= 1
AllDone(r) == r = 0

\* await_ready: without unfinished tasks the parent is not suspended at all.
AwaitReady ==
  /\ worker = "working"
  /\ IF AllDone(remaining)
       THEN /\ parent' = "resumed"
            /\ resumes' = resumes + 1
            /\ worker' = "returned"
       ELSE /\ parent' = "suspended"
            /\ worker' = "copy"
            /\ UNCHANGED resumes
  /\ UNCHANGED <<next, child, barrier, owners, live>>

\* await_suspend: the atomic_load of the shared_ptr.
CopyBarrier ==
  /\ worker = "copy"
  /\ owners' = owners \cup {Suspender}
  /\ worker' = "store"
  /\ UNCHANGED <<next, child, barrier, parent, resumes, live>>

\* (mutant) the flag is raised although the handle was never stored.
SkipContinuation ==
  /\ worker = "store"
  /\ worker' = "setReady"
  /\ UNCHANGED <<next, child, barrier, owners, parent, resumes, live>>
\* The handle is stored before the flag that announces it.
StoreContinuation ==
  /\ worker = "store"
  /\ continuation' = TRUE
  /\ worker' = "setReady"
  /\ UNCHANGED <<next, child, remaining, handleReady, owners, parent, resumes,
                 live>>

\* From here on the last task may resume the parent, which frees the awaitable.
SetReady ==
  /\ worker = "setReady"
  /\ handleReady' = TRUE
  /\ worker' = "check"
  /\ UNCHANGED <<next, child, remaining, continuation, owners, parent, resumes,
                 live>>

\* (mutant) await_ready's answer is taken for granted: some task is left.
TrustAwaitReady(r) == FALSE
NobodyLeft(r) == r = 0

\* With a task left, that task will see handle_ready_.
CheckRemaining ==
  /\ worker = "check"
  /\ worker' = IF NobodyLeft(remaining) THEN "claim" ELSE "release"
  /\ UNCHANGED <<next, child, barrier, owners, parent, resumes, live>>

\* (mutant) the flag is read, not exchanged.
ReadFlag == handleReady' = handleReady
ClearFlag == handleReady' = FALSE

\* compare_exchange_strong of await_suspend.
Claim ==
  /\ worker = "claim"
  /\ ClearFlag
  /\ worker' = IF handleReady THEN "resume" ELSE "release"
  /\ UNCHANGED <<next, child, remaining, continuation, owners, parent, resumes,
                 live>>

\* await_suspend returns and with it goes its shared_ptr; the worker goes back
\* to run, or resumes the parent if the parent's own handle was returned.
Return ==
  /\ worker \in {"release", "resume"}
  /\ owners' = owners \ {Suspender}
  /\ IF worker = "resume"
       THEN parent' = "resumed" /\ resumes' = resumes + 1
       ELSE UNCHANGED <<parent, resumes>>
  /\ worker' = "returned"
  /\ UNCHANGED <<next, child, barrier, live>>

-----------------------------------------------------------------------------
\* A worker resumes a scheduled WaitTask; the awaited task runs to its end and
\* the WaitTask reaches its final suspension point.
Run(i) ==
  /\ child[i] = "queued"
  /\ child' = [child EXCEPT ![i] = "final"]
  /\ UNCHANGED <<worker, next, barrier, owners, parent, resumes, live>>

\* decrement_and_resume: the atomic_load of the shared_ptr.
\* (mutant) decrement_and_resume holds no copy of its own.
BorrowedPointer(i) == owners
OwnCopy(i) == owners \cup {i}

ChildCopies(i) ==
  /\ child[i] = "final"
  /\ owners' = OwnCopy(i)
  /\ child' = [child EXCEPT ![i] = "copied"]
  /\ UNCHANGED <<worker, next, barrier, parent, resumes, live>>

Decrement(i) ==
  /\ child[i] = "copied"
  /\ remaining' = remaining - 1
  /\ child' = [child EXCEPT ![i] = IF remaining = 1 THEN "last" ELSE "leaving"]
  /\ UNCHANGED <<worker, next, continuation, handleReady, owners, parent,
                 resumes, live>>

\* compare_exchange_strong of decrement_and_resume.
ChildClaims(i) ==
  /\ child[i] = "last"
  /\ ClearFlag
  /\ child' = [child EXCEPT ![i] = IF handleReady THEN "won" ELSE "leaving"]
  /\ UNCHANGED <<worker, next, remaining, continuation, owners, parent,
                 resumes, live>>

\* The continuation is loaded, the copy released; its worker resumes the parent.
ChildResumes(i) ==
  /\ child[i] = "won"
  /\ owners' = owners \ {i}
  /\ child' = [child EXCEPT ![i] = "gone"]
  /\ parent' = "resumed"
  /\ resumes' = resumes + 1
  /\ UNCHANGED <<worker, next, barrier, live>>

\* noop_coroutine: the copy is released, the worker returns to run.
ChildLeaves(i) ==
  /\ child[i] = "leaving"
  /\ owners' = owners \ {i}
  /\ child' = [child EXCEPT ![i] = "gone"]
  /\ UNCHANGED <<worker, next, barrier, parent, resumes, live>>

-----------------------------------------------------------------------------
\* The parent destroys the awaitable, its shared_ptr and the WaitTasks.
DestroyAwaitable ==
  /\ parent = "resumed"
  /\ parent' = "done"
  /\ live' = {}
  /\ owners' = owners \ {Awaitable}
  /\ UNCHANGED <<worker, next, child, barrier, resumes>>

WorkerStep ==
  \/ Schedule \/ Constructed \/ AwaitReady \/ CopyBarrier \/ StoreContinuation
  \/ SetReady \/ CheckRemaining \/ Claim \/ Return

ChildStep(i) ==
  \/ Run(i) \/ ChildCopies(i) \/ Decrement(i) \/ ChildClaims(i)
  \/ ChildResumes(i) \/ ChildLeaves(i)

Next == WorkerStep \/ DestroyAwaitable \/ \E i \in Task : ChildStep(i)

Spec == Init /\ [][Next]_vars

\* Every worker that has begun something goes on, the parent reaches its
\* co_await, and a scheduled WaitTask is eventually taken by some worker.
Fairness ==
  /\ WF_vars(WorkerStep)
  /\ WF_vars(DestroyAwaitable)
  /\ \A i \in Task : WF_vars(ChildStep(i))

FairSpec == Spec /\ Fairness

-----------------------------------------------------------------------------
(* The memory that the next step of each actor reads or writes.            *)

\* (mutant) await_suspend goes to the barrier through the awaitable.
ThroughAwaitable ==
  CASE worker = "constructor" /\ next \in Task -> {Awaitable, Frame(next)}
    [] worker \in {"working", "copy", "store", "setReady", "check", "claim"} ->
         {Awaitable, Barrier}
    [] OTHER -> {}

\* Only the shared_ptr is read in the awaitable; then the copy is used.
WorkerUses ==
  CASE worker = "constructor" /\ next \in Task -> {Awaitable, Frame(next)}
    [] worker = "working" -> {Awaitable, Barrier}
    [] worker = "copy" -> {Awaitable}
    [] worker \in {"store", "setReady", "check", "claim"} -> {Barrier}
    [] OTHER -> {}

\* The barrier is found through the promise, the shared_ptr through the barrier.
ChildUses(i) ==
  CASE child[i] = "queued" -> {Frame(i)}
    [] child[i] = "final" -> {Frame(i), Barrier, Awaitable}
    [] child[i] \in {"copied", "last", "won"} -> {Barrier}
    [] OTHER -> {}

Uses == WorkerUses \cup UNION {ChildUses(i) : i \in Task}

-----------------------------------------------------------------------------
TypeOK ==
  /\ worker \in {"constructor", "working", "copy", "store", "setReady",
                 "check", "claim", "release", "resume", "returned"}
  /\ next \in 1..N + 1
  /\ child \in [Task -> {"created", "queued", "final", "copied", "last",
                         "won", "leaving", "gone"}]
  /\ remaining \in 0..N
  /\ continuation \in BOOLEAN
  /\ handleReady \in BOOLEAN
  /\ owners \subseteq 0..N + 1
  /\ parent \in {"running", "suspended", "resumed", "done"}
  /\ resumes \in Nat
  /\ live \subseteq 0..N

\* The last task only loads a continuation that was stored.
NoNullContinuation == \A i \in Task : child[i] = "won" => continuation

\* Neither does the worker in await_suspend or the worker of any WaitTask touch
\* the barrier, the awaitable or a frame after its last owner freed it.
MemorySafety ==
  /\ Uses \subseteq live \cup IF owners # {} THEN {Barrier} ELSE {}
  /\ NoNullContinuation

\* However the race ends, somebody lets the parent go on.
ResumedInTheEnd == <>(parent = "done")

Finished == {i \in Task : child[i] \in {"last", "won", "leaving", "gone"}}

Abstract == INSTANCE Await WITH
  finished <- Finished,
  parent <- CASE parent = "running" -> "running"
              [] parent = "suspended" -> "waiting"
              [] resumes > 1 -> "resumed twice"
              [] OTHER -> "resumed"

\* The parent never goes on before the last task has finished, and only once:
\* its own worker and the last task's worker do not both resume it, nor does
\* one of them after await_ready let it pass.
ImplementsAwait == Abstract!Spec
=============================================================================
