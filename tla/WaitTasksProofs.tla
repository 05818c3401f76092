--------------------------- MODULE WaitTasksProofs ---------------------------
(***************************************************************************)
(* Proofs about WaitTasks, for every number of awaited tasks: the types,   *)
(* the safety of the shared memory, and that the counting barrier keeps    *)
(* the promise of Await.                                                   *)
(*                                                                         *)
(* MemorySafety is not inductive: that no worker still needs the memory    *)
(* when the parent frees it holds because of what was counted before.  The *)
(* invariant IInv says what remaining_tasks counts, how far the loop of    *)
(* await_suspend has come when a task has been scheduled, and that the     *)
(* worker which read 1 is alone and comes before the parent's resumption.  *)
(***************************************************************************)
EXTENDS WaitTasks, FiniteSetTheorems, TLAPS

Unfinished == Task \ Finished

\* remaining_tasks is the number of WaitTasks that did not count down yet.
CountInv == remaining = Cardinality(Unfinished)

\* The worker in await_suspend: what it has stored and scheduled so far.
SuspenderInv ==
  /\ suspender = "none" <=> parent = "running"
  /\ suspender = "none" => next = 1
  /\ suspender # "none" => continuation
  /\ suspender = "add" => next \in barrierSet
  /\ suspender = "returned" => next = N + 1
  /\ \A i \in Task : child[i] = "created" <=> i >= next
  /\ \A i \in Task : i < next => i \in barrierSet

\* Every task is finished when one of them transfers to the parent, only one
\* does, and after that none will.
ResumeInv ==
  /\ \A i \in Task : child[i] = "last" =>
       /\ Unfinished = {}
       /\ parent = "suspended"
       /\ \A j \in Task : child[j] = "last" => i = j
  /\ parent \in {"running", "suspended"} => resumes = 0
  /\ parent \in {"resumed", "done"} => resumes = 1 /\ Unfinished = {}
  /\ live = IF parent = "done" THEN {} ELSE Memory

IInv == TypeOK /\ CountInv /\ SuspenderInv /\ ResumeInv

-----------------------------------------------------------------------------
LEMMA TaskFacts ==
  /\ IsFiniteSet(Task)
  /\ Cardinality(Task) = N
BY NAssumption, FS_Interval DEF Task

LEMMA UnfinishedFinite ==
  /\ IsFiniteSet(Unfinished)
  /\ Cardinality(Unfinished) \in Nat
BY TaskFacts, FS_Subset, FS_CardinalityType DEF Unfinished

LEMMA InitIInv == Init => IInv
<1>. SUFFICES ASSUME Init PROVE IInv
  OBVIOUS
<1>1. Unfinished = Task
  BY DEF Init, Unfinished, Finished
<1>2. TypeOK
  <2>1. child \in [Task -> {"created"}]
    BY DEF Init
  <2>2. next \in 1..N + 1 /\ remaining \in 0..N
    BY NAssumption DEF Init, InitialCount
  <2>. QED
    BY <2>1, <2>2 DEF Init, TypeOK
<1>3. CountInv
  BY <1>1, TaskFacts DEF Init, CountInv, InitialCount
<1>. QED
  BY <1>2, <1>3 DEF Init, IInv, SuspenderInv, ResumeInv, Task, Memory

-----------------------------------------------------------------------------
(* Steps that finish no task.                                              *)

LEMMA SuspendIInv == IInv /\ Suspend => IInv'
<1>. SUFFICES ASSUME IInv, Suspend PROVE IInv'
  OBVIOUS
<1>. USE DEF IInv, TypeOK, Suspend
<1>1. Unfinished' = Unfinished
  BY DEF Unfinished, Finished
<1>. QED
  BY <1>1 DEF CountInv, SuspenderInv, ResumeInv

LEMMA SetBarrierIInv == IInv /\ SetBarrier => IInv'
<1>. SUFFICES ASSUME IInv, SetBarrier PROVE IInv'
  OBVIOUS
<1>. USE DEF IInv, TypeOK, SetBarrier
<1>1. Unfinished' = Unfinished
  BY DEF Unfinished, Finished
<1>. QED
  BY <1>1 DEF CountInv, SuspenderInv, ResumeInv

LEMMA ReturnToWorkerIInv == IInv /\ ReturnToWorker => IInv'
<1>. SUFFICES ASSUME IInv, ReturnToWorker PROVE IInv'
  OBVIOUS
<1>. USE DEF IInv, TypeOK, ReturnToWorker
<1>1. Unfinished' = Unfinished
  BY DEF Unfinished, Finished
<1>2. next' = N + 1
  BY NAssumption DEF Task
<1>. QED
  BY <1>1, <1>2 DEF CountInv, SuspenderInv, ResumeInv

LEMMA DestroyAwaitableIInv == IInv /\ DestroyAwaitable => IInv'
<1>. SUFFICES ASSUME IInv, DestroyAwaitable PROVE IInv'
  OBVIOUS
<1>. USE DEF IInv, TypeOK, DestroyAwaitable
<1>1. Unfinished' = Unfinished
  BY DEF Unfinished, Finished
<1>. QED
  BY <1>1 DEF CountInv, SuspenderInv, ResumeInv

\* The loop schedules its task: the task it was at is the first one that was
\* still "created".
LEMMA AddTaskIInv == IInv /\ AddTask => IInv'
<1>. SUFFICES ASSUME IInv, AddTask PROVE IInv'
  OBVIOUS
<1>. USE DEF IInv, TypeOK, AddTask
<1>1. next \in Task /\ child[next] = "created"
  BY NAssumption DEF SuspenderInv, Task
<1>2. Unfinished' = Unfinished
  BY <1>1 DEF Unfinished, Finished
<1>3. TypeOK'
  BY <1>1, NAssumption DEF Task
<1>4. CountInv'
  BY <1>2 DEF CountInv
<1>5. SuspenderInv'
  BY <1>1, NAssumption DEF SuspenderInv, Task
<1>6. ResumeInv'
  BY <1>1, <1>2 DEF ResumeInv
<1>. QED
  BY <1>3, <1>4, <1>5, <1>6

LEMMA RunIInv == \A i \in Task : IInv /\ Run(i) => IInv'
<1>. SUFFICES ASSUME IInv, NEW i \in Task, Run(i) PROVE IInv'
  OBVIOUS
<1>. USE DEF IInv, TypeOK, Run
<1>1. Unfinished' = Unfinished
  BY DEF Unfinished, Finished
<1>2. CountInv'
  BY <1>1 DEF CountInv
<1>3. SuspenderInv'
  BY DEF SuspenderInv
<1>4. ResumeInv'
  BY <1>1 DEF ResumeInv
<1>. QED
  BY <1>2, <1>3, <1>4

LEMMA LeaveIInv == \A i \in Task : IInv /\ Leave(i) => IInv'
<1>. SUFFICES ASSUME IInv, NEW i \in Task, Leave(i) PROVE IInv'
  OBVIOUS
<1>. USE DEF IInv, TypeOK, Leave
<1>1. Unfinished' = Unfinished
  BY DEF Unfinished, Finished
<1>2. CountInv'
  BY <1>1 DEF CountInv
<1>3. SuspenderInv'
  BY DEF SuspenderInv
<1>4. ResumeInv'
  BY <1>1 DEF ResumeInv
<1>. QED
  BY <1>2, <1>3, <1>4

\* The last one is unique, so the parent is resumed for the first time.
LEMMA ResumeParentIInv == \A i \in Task : IInv /\ ResumeParent(i) => IInv'
<1>. SUFFICES ASSUME IInv, NEW i \in Task, ResumeParent(i) PROVE IInv'
  OBVIOUS
<1>. USE DEF IInv, TypeOK, ResumeParent
<1>1. Unfinished' = Unfinished
  BY DEF Unfinished, Finished
<1>2. parent = "suspended" /\ resumes = 0
  BY DEF ResumeInv
<1>3. CountInv'
  BY <1>1 DEF CountInv
<1>4. SuspenderInv'
  BY <1>2 DEF SuspenderInv
<1>5. ResumeInv'
  BY <1>1, <1>2 DEF ResumeInv
<1>. QED
  BY <1>2, <1>3, <1>4, <1>5

-----------------------------------------------------------------------------
(* The step that finishes a task.                                          *)

\* fetch_sub counts exactly the WaitTask that executes it.
LEMMA DecrementFacts ==
  ASSUME IInv, NEW i \in Task, Decrement(i)
  PROVE  /\ i \in Unfinished
         /\ Unfinished' = Unfinished \ {i}
         /\ Cardinality(Unfinished') = remaining - 1
         /\ remaining \in Nat \ {0}
<1>. USE DEF IInv, TypeOK, Decrement
<1>1. i \in Unfinished
  BY DEF Unfinished, Finished
<1>2. Unfinished' = Unfinished \ {i}
  BY DEF Unfinished, Finished
<1>3. Cardinality(Unfinished) # 0
  BY <1>1, UnfinishedFinite, FS_EmptySet
<1>. QED
  BY <1>1, <1>2, <1>3, UnfinishedFinite, FS_RemoveElement DEF CountInv

LEMMA DecrementIInv == \A i \in Task : IInv /\ Decrement(i) => IInv'
<1>. SUFFICES ASSUME IInv, NEW i \in Task, Decrement(i) PROVE IInv'
  OBVIOUS
<1>1. /\ i \in Unfinished
      /\ Unfinished' = Unfinished \ {i}
      /\ Cardinality(Unfinished') = remaining - 1
      /\ remaining \in Nat \ {0}
  BY DecrementFacts
<1>2. parent = "suspended" /\ \A j \in Task : child[j] # "last"
  BY <1>1, NAssumption
     DEF IInv, TypeOK, SuspenderInv, ResumeInv, Decrement, Task
<1>3. TypeOK'
  BY <1>1, NAssumption DEF IInv, TypeOK, Decrement
<1>4. CountInv'
  BY <1>1 DEF CountInv, Decrement
<1>5. SuspenderInv'
  BY DEF IInv, TypeOK, SuspenderInv, Decrement
<1>6. IsLast(remaining) => Unfinished' = {}
  BY <1>1, UnfinishedFinite, FS_Subset, FS_EmptySet DEF IsLast
<1>7. ResumeInv'
  BY <1>2, <1>6 DEF IInv, TypeOK, ResumeInv, Decrement
<1>. QED
  BY <1>3, <1>4, <1>5, <1>7 DEF IInv

-----------------------------------------------------------------------------
LEMMA NextIInv == IInv /\ [Next]_vars => IInv'
<1>. SUFFICES ASSUME IInv, [Next]_vars PROVE IInv'
  OBVIOUS
<1>1. CASE UNCHANGED vars
  BY <1>1 DEF vars, IInv, TypeOK, CountInv, SuspenderInv, ResumeInv, Unfinished,
     Finished
<1>. QED
  BY <1>1, SuspendIInv, SetBarrierIInv, AddTaskIInv, ReturnToWorkerIInv,
     DestroyAwaitableIInv, RunIInv, DecrementIInv, LeaveIInv, ResumeParentIInv
     DEF Next

LEMMA Invariant == Spec => []IInv
BY InitIInv, NextIInv, PTL DEF Spec

\* Every variable keeps its type; in particular remaining_tasks never goes
\* below zero, which in the code would wrap around.
THEOREM TypeCorrect == Spec => []TypeOK
BY Invariant, PTL DEF IInv

LEMMA IInvMemorySafety == IInv => MemorySafety
<1>. SUFFICES ASSUME IInv PROVE MemorySafety
  OBVIOUS
<1>. USE DEF IInv, TypeOK
<1>1. SetBeforeUse
  BY NAssumption DEF SetBeforeUse, SuspenderInv, ResumeInv, Task
<1>2. Uses \subseteq Memory
  <2>1. SuspenderUses \subseteq Memory
    BY NAssumption
       DEF SuspenderUses, SuspenderInv, Memory, Awaitable, Frame, Task
  <2>2. \A i \in Task : ChildUses(i) \subseteq Memory
    BY NAssumption DEF ChildUses, Memory, Awaitable, Frame, Task
  <2>. QED
    BY <2>1, <2>2 DEF Uses
<1>3. CASE parent # "done"
  BY <1>1, <1>2, <1>3 DEF ResumeInv, MemorySafety
<1>4. CASE parent = "done"
  <2>1. Unfinished = {} /\ \A i \in Task : child[i] # "last"
    BY <1>4 DEF ResumeInv
  <2>2. \A i \in Task : child[i] \in {"leaving", "gone"}
    BY <2>1 DEF Unfinished, Finished
  <2>3. next \notin Task
    BY <2>2, NAssumption DEF SuspenderInv, Task
  <2>4. SuspenderUses = {}
    BY <2>3 DEF SuspenderUses, SuspenderInv
  <2>5. \A i \in Task : ChildUses(i) = {}
    BY <2>2 DEF ChildUses
  <2>. QED
    BY <1>1, <2>4, <2>5 DEF Uses, MemorySafety
<1>. QED
  BY <1>3, <1>4

\* No worker touches the awaitable, its barrier or a WaitTask's frame after the
\* resumed parent freed them, or reads one of the barrier's pointers before it
\* was stored, however many tasks are awaited.
THEOREM MemorySafe == Spec => []MemorySafety
BY Invariant, IInvMemorySafety, PTL

-----------------------------------------------------------------------------
(* Refinement of Await.                                                    *)

LEMMA InitIsInit == Init => Abstract!Init
BY DEF Init, Abstract!Init, Finished

\* A step that changes neither who is finished nor the parent.
LEMMA SameView ==
  ASSUME Finished' = Finished, parent' = parent, resumes' = resumes
  PROVE  UNCHANGED Abstract!vars
BY DEF Abstract!vars

LEMMA SuspendIsSuspend ==
  ASSUME IInv, Suspend
  PROVE  Abstract!Suspend
<1>1. Finished' = Finished
  BY DEF Suspend, Finished
<1>. QED
  BY <1>1 DEF Suspend, Abstract!Suspend, IInv, ResumeInv

LEMMA DecrementIsFinish ==
  ASSUME IInv, NEW i \in Task, Decrement(i)
  PROVE  Abstract!Finish(i)
<1>1. i \notin Finished /\ Finished' = Finished \cup {i}
  BY DEF Decrement, Finished, IInv, TypeOK
<1>. QED
  BY <1>1 DEF Decrement, Abstract!Finish

LEMMA ResumeParentIsResume ==
  ASSUME IInv, NEW i \in Task, ResumeParent(i)
  PROVE  Abstract!Resume
<1>1. /\ Finished = Task
      /\ parent = "suspended"
      /\ resumes = 0
  BY DEF ResumeParent, IInv, ResumeInv, Unfinished, Finished
<1>2. Finished' = Finished
  BY DEF ResumeParent, Finished, IInv, TypeOK
<1>. QED
  BY <1>1, <1>2 DEF ResumeParent, Abstract!Resume

LEMMA DestroyAwaitableIsStutter ==
  ASSUME IInv, DestroyAwaitable
  PROVE  UNCHANGED Abstract!vars
<1>1. Finished' = Finished
  BY DEF DestroyAwaitable, Finished
<1>. QED
  BY <1>1 DEF DestroyAwaitable, Abstract!vars

\* The waiting coroutine goes on at most once, and only after all its tasks.
THEOREM Refinement == Spec => ImplementsAwait
<1>1. IInv /\ [Next]_vars => [Abstract!Next]_(Abstract!vars)
  <2>. SUFFICES ASSUME IInv, [Next]_vars PROVE [Abstract!Next]_(Abstract!vars)
    OBVIOUS
  <2>1. CASE UNCHANGED vars
    BY <2>1, SameView DEF vars, Finished
  <2>2. CASE SetBarrier \/ ReturnToWorker
    BY <2>2, SameView DEF SetBarrier, ReturnToWorker, Finished
  <2>3. CASE AddTask
    <3>1. next \in Task /\ child[next] = "created"
      BY <2>3, NAssumption DEF AddTask, IInv, TypeOK, SuspenderInv, Task
    <3>2. Finished' = Finished
      BY <2>3, <3>1 DEF AddTask, Finished, IInv, TypeOK
    <3>. QED
      BY <2>3, <3>2, SameView DEF AddTask
  <2>4. ASSUME NEW i \in Task, Run(i) \/ Leave(i)
        PROVE  UNCHANGED Abstract!vars
    <3>1. Finished' = Finished
      BY <2>4 DEF Run, Leave, Finished, IInv, TypeOK
    <3>. QED
      BY <2>4, <3>1, SameView DEF Run, Leave
  <2>. QED
    BY <2>1, <2>2, <2>3, <2>4, SuspendIsSuspend, DecrementIsFinish,
       ResumeParentIsResume, DestroyAwaitableIsStutter DEF Next, Abstract!Next
<1>. QED
  BY <1>1, InitIsInit, Invariant, PTL DEF Spec, ImplementsAwait, Abstract!Spec
=============================================================================
