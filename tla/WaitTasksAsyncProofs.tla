------------------------- MODULE WaitTasksAsyncProofs -------------------------
(***************************************************************************)
(* Proofs about WaitTasksAsync, for every number of awaited tasks.         *)
(*                                                                         *)
(* The argument follows the right to let the parent go on.  It is created  *)
(* when await_suspend raises handle_ready_, taken by the one who lowers    *)
(* the flag (the worker, or the last WaitTask) and spent when that one     *)
(* resumes the parent; if await_ready lets the parent pass, the flag is    *)
(* never raised.  RightInv says that the right is never held twice, that   *)
(* it is only spent when no task is left, and that it is not created again *)
(* once it was spent.                                                      *)
(***************************************************************************)
EXTENDS WaitTasksAsync, FiniteSetTheorems, TLAPS

Unfinished == Task \ Finished

\* remaining_tasks is the number of WaitTasks that did not count down yet.
CountInv == remaining = Cardinality(Unfinished)

\* What the constructor and co_await have done at each of their steps.
WorkerInv ==
  /\ parent = "running" <=> worker \in {"constructor", "working"}
  /\ worker \in {"copy", "store", "setReady"} => parent = "suspended"
  /\ worker # "constructor" => next = N + 1
  /\ \A i \in Task : child[i] = "created" <=> i >= next
  /\ worker \in {"setReady", "check", "claim", "release", "resume"} =>
       continuation
  /\ worker = "claim" => Unfinished = {}

\* Who holds a shared_ptr to the barrier, and who frees the rest.
OwnerInv ==
  /\ Awaitable \in owners <=> parent # "done"
  /\ Suspender \in owners <=>
       worker \in {"store", "setReady", "check", "claim", "release", "resume"}
  /\ \A i \in Task :
       i \in owners <=> child[i] \in {"copied", "last", "won", "leaving"}
  /\ live = IF parent = "done" THEN {} ELSE 0..N

\* The flag can have been raised.
Raised == worker \in {"check", "claim", "release", "resume", "returned"}

RightInv ==
  /\ handleReady =>
       /\ continuation
       /\ Raised /\ worker # "resume"
       /\ parent = "suspended"
       /\ \A i \in Task : child[i] # "won"
  /\ worker = "resume" =>
       /\ Unfinished = {}
       /\ parent = "suspended"
       /\ \A i \in Task : child[i] # "won"
  /\ \A i \in Task : child[i] = "won" =>
       /\ continuation
       /\ Raised
       /\ parent = "suspended"
  /\ \A i \in Task : child[i] \in {"last", "won"} =>
       /\ Unfinished = {}
       /\ \A j \in Task : child[j] \in {"last", "won"} => i = j
  /\ parent \in {"running", "suspended"} => resumes = 0
  /\ parent \in {"resumed", "done"} => resumes = 1 /\ Unfinished = {} /\ Raised

IInv == TypeOK /\ CountInv /\ WorkerInv /\ OwnerInv /\ RightInv

-----------------------------------------------------------------------------
LEMMA TaskFacts ==
  /\ IsFiniteSet(Task)
  /\ Cardinality(Task) = N
BY NAssumption, FS_Interval DEF Task

LEMMA UnfinishedFinite ==
  /\ IsFiniteSet(Unfinished)
  /\ Cardinality(Unfinished) \in Nat
  /\ Cardinality(Unfinished) = 0 <=> Unfinished = {}
BY TaskFacts, FS_Subset, FS_CardinalityType, FS_EmptySet DEF Unfinished

\* The owners of the barrier are told apart.
LEMMA OwnerFacts ==
  /\ \A i \in Task : i # Awaitable /\ i # Suspender
  /\ Awaitable # Suspender
BY NAssumption DEF Task, Awaitable, Suspender

LEMMA InitIInv == Init => IInv
<1>. SUFFICES ASSUME Init PROVE IInv
  OBVIOUS
<1>1. Unfinished = Task
  BY DEF Init, Unfinished, Finished
<1>2. TypeOK
  <2>1. child \in [Task -> {"created"}]
    BY DEF Init
  <2>2. next \in 1..N + 1 /\ remaining \in 0..N
    BY NAssumption DEF Init, InitialCount
  <2>3. owners \subseteq 0..N + 1
    BY NAssumption DEF Init, Awaitable
  <2>. QED
    BY <2>1, <2>2, <2>3 DEF Init, TypeOK
<1>3. CountInv
  BY <1>1, TaskFacts DEF Init, CountInv, InitialCount
<1>4. OwnerInv
  BY NAssumption DEF Init, OwnerInv, Awaitable, Suspender, Task
<1>. QED
  BY <1>2, <1>3, <1>4 DEF Init, IInv, WorkerInv, RightInv, Raised, Task

-----------------------------------------------------------------------------
(* The worker in the constructor and in co_await.                          *)

LEMMA ScheduleIInv == IInv /\ Schedule => IInv'
<1>. SUFFICES ASSUME IInv, Schedule PROVE IInv'
  OBVIOUS
<1>. USE DEF IInv, TypeOK, Schedule, barrier
<1>0. child[next] = "created"
  BY NAssumption DEF WorkerInv, Task
<1>1. Unfinished' = Unfinished
  BY <1>0 DEF Unfinished, Finished
<1>2. TypeOK'
  BY NAssumption DEF Task
<1>3. CountInv'
  BY <1>1 DEF CountInv
<1>4. WorkerInv'
  BY <1>0, <1>1, NAssumption DEF WorkerInv, Task
<1>5. OwnerInv'
  BY <1>0 DEF OwnerInv
<1>6. RightInv'
  BY <1>0, <1>1 DEF RightInv, WorkerInv, Raised
<1>. QED
  BY <1>2, <1>3, <1>4, <1>5, <1>6

LEMMA ConstructedIInv == IInv /\ Constructed => IInv'
<1>. SUFFICES ASSUME IInv, Constructed PROVE IInv'
  OBVIOUS
<1>. USE DEF IInv, TypeOK, Constructed, barrier
<1>1. Unfinished' = Unfinished
  BY DEF Unfinished, Finished
<1>2. TypeOK'
  BY NAssumption DEF Awaitable, Suspender, Task
<1>3. CountInv'
  BY <1>1 DEF CountInv
<1>4. WorkerInv'
  BY <1>1, NAssumption DEF WorkerInv, Task
<1>5. OwnerInv'
  BY OwnerFacts DEF OwnerInv
<1>6. RightInv'
  BY <1>1 DEF RightInv, WorkerInv, Raised
<1>. QED
  BY <1>2, <1>3, <1>4, <1>5, <1>6

\* await_ready reads zero only if every task has finished.
LEMMA AwaitReadyIInv == IInv /\ AwaitReady => IInv'
<1>. SUFFICES ASSUME IInv, AwaitReady PROVE IInv'
  OBVIOUS
<1>. USE DEF IInv, TypeOK, AwaitReady, barrier
<1>1. Unfinished' = Unfinished
  BY DEF Unfinished, Finished
<1>2. TypeOK'
  BY NAssumption DEF Awaitable, Suspender, Task
<1>3. CountInv'
  BY <1>1 DEF CountInv
<1>4. WorkerInv'
  BY <1>1 DEF WorkerInv
<1>5. OwnerInv'
  BY OwnerFacts DEF OwnerInv, WorkerInv
<1>6. RightInv'
  BY <1>1, UnfinishedFinite DEF RightInv, WorkerInv, Raised, CountInv, AllDone
<1>. QED
  BY <1>2, <1>3, <1>4, <1>5, <1>6

LEMMA CopyBarrierIInv == IInv /\ CopyBarrier => IInv'
<1>. SUFFICES ASSUME IInv, CopyBarrier PROVE IInv'
  OBVIOUS
<1>. USE DEF IInv, TypeOK, CopyBarrier, barrier
<1>1. Unfinished' = Unfinished
  BY DEF Unfinished, Finished
<1>2. TypeOK'
  BY NAssumption DEF Awaitable, Suspender, Task
<1>3. CountInv'
  BY <1>1 DEF CountInv
<1>4. WorkerInv'
  BY <1>1 DEF WorkerInv
<1>5. OwnerInv'
  BY OwnerFacts DEF OwnerInv
<1>6. RightInv'
  BY <1>1 DEF RightInv, WorkerInv, Raised
<1>. QED
  BY <1>2, <1>3, <1>4, <1>5, <1>6

LEMMA StoreContinuationIInv == IInv /\ StoreContinuation => IInv'
<1>. SUFFICES ASSUME IInv, StoreContinuation PROVE IInv'
  OBVIOUS
<1>. USE DEF IInv, TypeOK, StoreContinuation, barrier
<1>1. Unfinished' = Unfinished
  BY DEF Unfinished, Finished
<1>2. TypeOK'
  BY NAssumption DEF Awaitable, Suspender, Task
<1>3. CountInv'
  BY <1>1 DEF CountInv
<1>4. WorkerInv'
  BY <1>1 DEF WorkerInv
<1>5. OwnerInv'
  BY OwnerFacts DEF OwnerInv
<1>6. RightInv'
  BY <1>1 DEF RightInv, WorkerInv, Raised
<1>. QED
  BY <1>2, <1>3, <1>4, <1>5, <1>6

\* The right is created.
LEMMA SetReadyIInv == IInv /\ SetReady => IInv'
<1>. SUFFICES ASSUME IInv, SetReady PROVE IInv'
  OBVIOUS
<1>. USE DEF IInv, TypeOK, SetReady, barrier
<1>1. Unfinished' = Unfinished
  BY DEF Unfinished, Finished
<1>2. TypeOK'
  BY NAssumption DEF Awaitable, Suspender, Task
<1>3. CountInv'
  BY <1>1 DEF CountInv
<1>4. WorkerInv'
  BY <1>1 DEF WorkerInv
<1>5. OwnerInv'
  BY OwnerFacts DEF OwnerInv
<1>6. RightInv'
  BY <1>1 DEF RightInv, WorkerInv, Raised
<1>. QED
  BY <1>2, <1>3, <1>4, <1>5, <1>6

LEMMA CheckRemainingIInv == IInv /\ CheckRemaining => IInv'
<1>. SUFFICES ASSUME IInv, CheckRemaining PROVE IInv'
  OBVIOUS
<1>. USE DEF IInv, TypeOK, CheckRemaining, barrier
<1>1. Unfinished' = Unfinished
  BY DEF Unfinished, Finished
<1>2. TypeOK'
  BY NAssumption DEF Awaitable, Suspender, Task
<1>3. CountInv'
  BY <1>1 DEF CountInv
<1>4. WorkerInv'
  BY <1>1, UnfinishedFinite DEF WorkerInv, CountInv, NobodyLeft
<1>5. OwnerInv'
  BY OwnerFacts DEF OwnerInv
<1>6. RightInv'
  BY <1>1 DEF RightInv, WorkerInv, Raised
<1>. QED
  BY <1>2, <1>3, <1>4, <1>5, <1>6

\* The worker takes the right, if the last WaitTask did not.
LEMMA ClaimIInv == IInv /\ Claim => IInv'
<1>. SUFFICES ASSUME IInv, Claim PROVE IInv'
  OBVIOUS
<1>. USE DEF IInv, TypeOK, Claim, barrier, ClearFlag
<1>1. Unfinished' = Unfinished
  BY DEF Unfinished, Finished
<1>2. TypeOK'
  BY NAssumption DEF Awaitable, Suspender, Task
<1>3. CountInv'
  BY <1>1 DEF CountInv
<1>4. WorkerInv'
  BY <1>1 DEF WorkerInv
<1>5. OwnerInv'
  BY OwnerFacts DEF OwnerInv
<1>6. RightInv'
  BY <1>1 DEF RightInv, WorkerInv, Raised
<1>. QED
  BY <1>2, <1>3, <1>4, <1>5, <1>6

\* If it holds the right, the worker spends it.
LEMMA ReturnIInv == IInv /\ Return => IInv'
<1>. SUFFICES ASSUME IInv, Return PROVE IInv'
  OBVIOUS
<1>. USE DEF IInv, TypeOK, Return, barrier
<1>1. Unfinished' = Unfinished
  BY DEF Unfinished, Finished
<1>2. TypeOK'
  BY NAssumption DEF Awaitable, Suspender, Task
<1>3. CountInv'
  BY <1>1 DEF CountInv
<1>4. WorkerInv'
  BY <1>1 DEF WorkerInv, RightInv
<1>5. OwnerInv'
  BY OwnerFacts DEF OwnerInv, RightInv
<1>6. RightInv'
  BY <1>1 DEF RightInv, WorkerInv, Raised
<1>. QED
  BY <1>2, <1>3, <1>4, <1>5, <1>6

LEMMA DestroyAwaitableIInv == IInv /\ DestroyAwaitable => IInv'
<1>. SUFFICES ASSUME IInv, DestroyAwaitable PROVE IInv'
  OBVIOUS
<1>. USE DEF IInv, TypeOK, DestroyAwaitable, barrier
<1>1. Unfinished' = Unfinished
  BY DEF Unfinished, Finished
<1>2. TypeOK'
  BY NAssumption DEF Awaitable, Suspender, Task
<1>3. CountInv'
  BY <1>1 DEF CountInv
<1>4. WorkerInv'
  BY <1>1 DEF WorkerInv
<1>5. OwnerInv'
  BY OwnerFacts DEF OwnerInv
<1>6. RightInv'
  BY <1>1 DEF RightInv, WorkerInv, Raised
<1>. QED
  BY <1>2, <1>3, <1>4, <1>5, <1>6

-----------------------------------------------------------------------------
(* The WaitTasks.                                                          *)

LEMMA RunIInv == \A i \in Task : IInv /\ Run(i) => IInv'
<1>. SUFFICES ASSUME IInv, NEW i \in Task, Run(i) PROVE IInv'
  OBVIOUS
<1>. USE DEF IInv, TypeOK, Run, barrier
<1>1. Unfinished' = Unfinished
  BY DEF Unfinished, Finished
<1>2. TypeOK'
  BY NAssumption DEF Awaitable, Suspender, Task
<1>3. CountInv'
  BY <1>1 DEF CountInv
<1>4. WorkerInv'
  BY <1>1 DEF WorkerInv
<1>5. OwnerInv'
  BY OwnerFacts DEF OwnerInv
<1>6. RightInv'
  BY <1>1 DEF RightInv, WorkerInv, Raised
<1>. QED
  BY <1>2, <1>3, <1>4, <1>5, <1>6

LEMMA ChildCopiesIInv == \A i \in Task : IInv /\ ChildCopies(i) => IInv'
<1>. SUFFICES ASSUME IInv, NEW i \in Task, ChildCopies(i) PROVE IInv'
  OBVIOUS
<1>. USE DEF IInv, TypeOK, ChildCopies, barrier, OwnCopy
<1>1. Unfinished' = Unfinished
  BY DEF Unfinished, Finished
<1>2. TypeOK'
  BY NAssumption DEF Awaitable, Suspender, Task
<1>3. CountInv'
  BY <1>1 DEF CountInv
<1>4. WorkerInv'
  BY <1>1 DEF WorkerInv
<1>5. OwnerInv'
  BY OwnerFacts DEF OwnerInv
<1>6. RightInv'
  BY <1>1 DEF RightInv, WorkerInv, Raised
<1>. QED
  BY <1>2, <1>3, <1>4, <1>5, <1>6

\* fetch_sub counts exactly the WaitTask that executes it.
LEMMA DecrementFacts ==
  ASSUME IInv, NEW i \in Task, Decrement(i)
  PROVE  /\ i \in Unfinished
         /\ Unfinished' = Unfinished \ {i}
         /\ Cardinality(Unfinished') = remaining - 1
         /\ remaining \in Nat \ {0}
<1>. USE DEF IInv, TypeOK, Decrement
<1>1. i \in Unfinished
  BY DEF Unfinished, Finished
<1>2. Unfinished' = Unfinished \ {i}
  BY DEF Unfinished, Finished
<1>. QED
  BY <1>1, <1>2, UnfinishedFinite, FS_RemoveElement DEF CountInv

LEMMA DecrementIInv == \A i \in Task : IInv /\ Decrement(i) => IInv'
<1>. SUFFICES ASSUME IInv, NEW i \in Task, Decrement(i) PROVE IInv'
  OBVIOUS
<1>. USE DEF IInv, TypeOK, Decrement, barrier
<1>0. /\ i \in Unfinished
      /\ Unfinished' = Unfinished \ {i}
      /\ Cardinality(Unfinished') = remaining - 1
      /\ remaining \in Nat \ {0}
  BY DecrementFacts
<1>1. remaining = 1 => Unfinished' = {}
  BY <1>0, UnfinishedFinite, FS_Subset, FS_EmptySet
<1>2. TypeOK'
  BY <1>0, NAssumption
<1>3. CountInv'
  BY <1>0 DEF CountInv
<1>4. WorkerInv'
  BY <1>0 DEF WorkerInv
<1>5. OwnerInv'
  BY OwnerFacts DEF OwnerInv
<1>6. RightInv'
  BY <1>0, <1>1 DEF RightInv, Raised
<1>. QED
  BY <1>2, <1>3, <1>4, <1>5, <1>6

\* The last WaitTask takes the right, if await_suspend has created it.
LEMMA ChildClaimsIInv == \A i \in Task : IInv /\ ChildClaims(i) => IInv'
<1>. SUFFICES ASSUME IInv, NEW i \in Task, ChildClaims(i) PROVE IInv'
  OBVIOUS
<1>. USE DEF IInv, TypeOK, ChildClaims, barrier, ClearFlag
<1>1. Unfinished' = Unfinished
  BY DEF Unfinished, Finished
<1>2. TypeOK'
  BY NAssumption DEF Awaitable, Suspender, Task
<1>3. CountInv'
  BY <1>1 DEF CountInv
<1>4. WorkerInv'
  BY <1>1 DEF WorkerInv
<1>5. OwnerInv'
  BY OwnerFacts DEF OwnerInv
<1>6. RightInv'
  BY <1>1 DEF RightInv, WorkerInv, Raised
<1>. QED
  BY <1>2, <1>3, <1>4, <1>5, <1>6

\* The last WaitTask spends the right.
LEMMA ChildResumesIInv == \A i \in Task : IInv /\ ChildResumes(i) => IInv'
<1>. SUFFICES ASSUME IInv, NEW i \in Task, ChildResumes(i) PROVE IInv'
  OBVIOUS
<1>. USE DEF IInv, TypeOK, ChildResumes, barrier
<1>1. Unfinished' = Unfinished
  BY DEF Unfinished, Finished
<1>2. TypeOK'
  BY NAssumption DEF Awaitable, Suspender, Task
<1>3. CountInv'
  BY <1>1 DEF CountInv
<1>4. WorkerInv'
  BY <1>1 DEF WorkerInv, RightInv, Raised
<1>5. OwnerInv'
  BY OwnerFacts DEF OwnerInv, RightInv
<1>6. RightInv'
  BY <1>1 DEF RightInv, WorkerInv, Raised
<1>. QED
  BY <1>2, <1>3, <1>4, <1>5, <1>6

LEMMA ChildLeavesIInv == \A i \in Task : IInv /\ ChildLeaves(i) => IInv'
<1>. SUFFICES ASSUME IInv, NEW i \in Task, ChildLeaves(i) PROVE IInv'
  OBVIOUS
<1>. USE DEF IInv, TypeOK, ChildLeaves, barrier
<1>1. Unfinished' = Unfinished
  BY DEF Unfinished, Finished
<1>2. TypeOK'
  BY NAssumption DEF Awaitable, Suspender, Task
<1>3. CountInv'
  BY <1>1 DEF CountInv
<1>4. WorkerInv'
  BY <1>1 DEF WorkerInv
<1>5. OwnerInv'
  BY OwnerFacts DEF OwnerInv
<1>6. RightInv'
  BY <1>1 DEF RightInv, WorkerInv, Raised
<1>. QED
  BY <1>2, <1>3, <1>4, <1>5, <1>6

-----------------------------------------------------------------------------
LEMMA NextIInv == IInv /\ [Next]_vars => IInv'
<1>. SUFFICES ASSUME IInv, [Next]_vars PROVE IInv'
  OBVIOUS
<1>1. CASE UNCHANGED vars
  BY <1>1 DEF vars, barrier, IInv, TypeOK, CountInv, WorkerInv, OwnerInv,
     RightInv, Raised, Unfinished, Finished
<1>2. CASE WorkerStep
  BY <1>2, ScheduleIInv, ConstructedIInv, AwaitReadyIInv, CopyBarrierIInv,
     StoreContinuationIInv, SetReadyIInv, CheckRemainingIInv, ClaimIInv,
     ReturnIInv DEF WorkerStep
<1>3. ASSUME NEW i \in Task, ChildStep(i) PROVE IInv'
  BY <1>3, RunIInv, ChildCopiesIInv, DecrementIInv, ChildClaimsIInv,
     ChildResumesIInv, ChildLeavesIInv DEF ChildStep
<1>. QED
  BY <1>1, <1>2, <1>3, DestroyAwaitableIInv DEF Next

LEMMA Invariant == Spec => []IInv
BY InitIInv, NextIInv, PTL DEF Spec

\* Every variable keeps its type; in particular remaining_tasks never goes
\* below zero, which in the code would wrap around.
THEOREM TypeCorrect == Spec => []TypeOK
BY Invariant, PTL DEF IInv

LEMMA IInvMemorySafety == IInv => MemorySafety
<1>. SUFFICES ASSUME IInv PROVE MemorySafety
  OBVIOUS
<1>. USE DEF IInv, TypeOK
<1>. DEFINE allocated == live \cup IF owners # {} THEN {Barrier} ELSE {}
<1>1. WorkerUses \subseteq allocated
  <2>1. CASE worker = "constructor" /\ next \in Task
    BY <2>1, NAssumption
       DEF WorkerUses, WorkerInv, OwnerInv, Awaitable, Frame, Task
  <2>2. CASE worker \in {"working", "copy"}
    BY <2>2, NAssumption DEF WorkerUses, WorkerInv, OwnerInv, Awaitable, Barrier
  <2>3. CASE worker \in {"store", "setReady", "check", "claim"}
    BY <2>3 DEF WorkerUses, OwnerInv, Barrier
  <2>. QED
    BY <2>1, <2>2, <2>3 DEF WorkerUses
<1>2. ASSUME NEW i \in Task PROVE ChildUses(i) \subseteq allocated
  <2>1. CASE child[i] \in {"queued", "final"}
    <3>1. parent # "done"
      BY <2>1 DEF RightInv, Unfinished, Finished
    <3>. QED
      BY <2>1, <3>1, NAssumption
         DEF ChildUses, OwnerInv, Awaitable, Frame, Barrier, Task
  <2>2. CASE child[i] \in {"copied", "last", "won"}
    BY <2>2 DEF ChildUses, OwnerInv
  <2>. QED
    BY <2>1, <2>2 DEF ChildUses
<1>3. NoNullContinuation
  BY DEF NoNullContinuation, RightInv
<1>. QED
  BY <1>1, <1>2, <1>3 DEF MemorySafety, Uses

\* Nobody touches the barrier after the last shared_ptr to it is gone, or the
\* awaitable and a WaitTask's frame after the parent freed them, and the last
\* WaitTask never loads a continuation that was not stored.
THEOREM MemorySafe == Spec => []MemorySafety
BY Invariant, IInvMemorySafety, PTL

-----------------------------------------------------------------------------
(* Refinement of Await.                                                    *)

LEMMA InitIsInit == Init => Abstract!Init
BY DEF Init, Abstract!Init, Finished

\* A step that changes neither who is finished nor the parent.
LEMMA SameView ==
  ASSUME Finished' = Finished, parent' = parent, resumes' = resumes
  PROVE  UNCHANGED Abstract!vars
BY DEF Abstract!vars

LEMMA WorkerStepRefines ==
  ASSUME IInv, WorkerStep
  PROVE  [Abstract!Next]_(Abstract!vars)
<1>. USE DEF IInv, TypeOK, barrier
<1>1. CASE Schedule
  <2>1. child[next] = "created"
    BY <1>1, NAssumption DEF Schedule, WorkerInv, Task
  <2>2. Finished' = Finished
    BY <1>1, <2>1 DEF Schedule, Finished
  <2>. QED
    BY <1>1, <2>2, SameView DEF Schedule
<1>2. CASE AwaitReady
  <2>1. Finished' = Finished /\ parent = "running" /\ resumes = 0
    BY <1>2 DEF AwaitReady, Finished, WorkerInv, RightInv
  <2>2. CASE AllDone(remaining)
    <3>1. Finished = Task
      BY <2>2, UnfinishedFinite DEF AllDone, CountInv, Unfinished, Finished
    <3>2. Abstract!Resume
      BY <1>2, <2>1, <2>2, <3>1 DEF AwaitReady, Abstract!Resume
    <3>. QED
      BY <3>2 DEF Abstract!Next
  <2>3. CASE ~AllDone(remaining)
    <3>1. Abstract!Suspend
      BY <1>2, <2>1, <2>3 DEF AwaitReady, Abstract!Suspend
    <3>. QED
      BY <3>1 DEF Abstract!Next
  <2>. QED
    BY <2>2, <2>3
<1>3. CASE Return
  <2>1. Finished' = Finished
    BY <1>3 DEF Return, Finished
  <2>2. CASE worker = "resume"
    <3>1. Finished = Task /\ parent = "suspended" /\ resumes = 0
      BY <2>2 DEF RightInv, Unfinished, Finished
    <3>2. Abstract!Resume
      BY <1>3, <2>1, <2>2, <3>1 DEF Return, Abstract!Resume
    <3>. QED
      BY <3>2 DEF Abstract!Next
  <2>3. CASE worker # "resume"
    BY <1>3, <2>1, <2>3, SameView DEF Return
  <2>. QED
    BY <2>2, <2>3
<1>4. CASE Constructed \/ CopyBarrier \/ StoreContinuation \/ SetReady
             \/ CheckRemaining \/ Claim
  BY <1>4, SameView DEF Constructed, CopyBarrier, StoreContinuation, SetReady,
     CheckRemaining, Claim, Finished
<1>. QED
  BY <1>1, <1>2, <1>3, <1>4 DEF WorkerStep

LEMMA ChildStepRefines ==
  ASSUME IInv, NEW i \in Task, ChildStep(i)
  PROVE  [Abstract!Next]_(Abstract!vars)
<1>. USE DEF IInv, TypeOK, barrier
<1>1. CASE Decrement(i)
  <2>1. i \notin Finished /\ Finished' = Finished \cup {i}
    BY <1>1 DEF Decrement, Finished
  <2>2. Abstract!Finish(i)
    BY <1>1, <2>1 DEF Decrement, Abstract!Finish
  <2>. QED
    BY <2>2 DEF Abstract!Next
<1>2. CASE ChildResumes(i)
  <2>1. Finished = Task /\ parent = "suspended" /\ resumes = 0
    BY <1>2 DEF ChildResumes, RightInv, Unfinished, Finished
  <2>2. Finished' = Finished
    BY <1>2 DEF ChildResumes, Finished
  <2>3. Abstract!Resume
    BY <1>2, <2>1, <2>2 DEF ChildResumes, Abstract!Resume
  <2>. QED
    BY <2>3 DEF Abstract!Next
<1>3. CASE Run(i) \/ ChildCopies(i) \/ ChildClaims(i) \/ ChildLeaves(i)
  <2>1. Finished' = Finished
    BY <1>3 DEF Run, ChildCopies, ChildClaims, ChildLeaves, Finished
  <2>. QED
    BY <1>3, <2>1, SameView DEF Run, ChildCopies, ChildClaims, ChildLeaves
<1>. QED
  BY <1>1, <1>2, <1>3 DEF ChildStep

LEMMA DestroyAwaitableIsStutter ==
  ASSUME IInv, DestroyAwaitable
  PROVE  UNCHANGED Abstract!vars
<1>1. Finished' = Finished
  BY DEF DestroyAwaitable, Finished
<1>. QED
  BY <1>1 DEF DestroyAwaitable, Abstract!vars

\* However await_ready, await_suspend and the last WaitTask race, the parent
\* goes on at most once, and only after every task has finished.
THEOREM Refinement == Spec => ImplementsAwait
<1>1. IInv /\ [Next]_vars => [Abstract!Next]_(Abstract!vars)
  <2>. SUFFICES ASSUME IInv, [Next]_vars PROVE [Abstract!Next]_(Abstract!vars)
    OBVIOUS
  <2>1. CASE UNCHANGED vars
    BY <2>1, SameView DEF vars, Finished
  <2>. QED
    BY <2>1, WorkerStepRefines, ChildStepRefines, DestroyAwaitableIsStutter
       DEF Next
<1>. QED
  BY <1>1, InitIsInit, Invariant, PTL DEF Spec, ImplementsAwait, Abstract!Spec
=============================================================================
