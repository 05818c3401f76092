--------------------------- MODULE StartTasksProofs ---------------------------
(***************************************************************************)
(* Proofs about StartTasks, for every set of tasks and every number of     *)
(* waits and spurious wake-ups.                                            *)
(*                                                                         *)
(* Why may the caller free the mutex that the worker locked?  Because the  *)
(* predicate is asked under that mutex: when it holds, the worker has left *)
(* the block that set the flag, and the lock_guard of that block is its    *)
(* last access.  IInv is this mutual exclusion, together with what the     *)
(* flag says about the worker.                                             *)
(***************************************************************************)
EXTENDS StartTasks, TLAPS

InNotify == notifier \in {"set", "notify", "unlock"}

\* The caller asks the predicate and the worker is in its block, but never both.
MutualExclusion == ~(caller = "test" /\ InNotify)

\* How far the worker is, seen from the awaited tasks and from the flag.
NotifierInv ==
  /\ notifier = "none" <=> starter # "resumed"
  /\ starter = "resumed" => finished = Task
  /\ flag <=> notifier \in {"notify", "unlock", "gone"}

\* The caller leaves wait, and frees the frame, only when the worker is gone.
CallerInv ==
  /\ caller \in {"returned", "done"} => notifier = "gone"
  /\ caller \in {"start", "wait", "test", "asleep", "awake"} => waits > 0
  /\ frameLive <=> caller # "done"
  /\ enqueued => starter = "running"
  /\ caller = "start" => starter = "running" /\ ~enqueued

IInv == TypeOK /\ MutualExclusion /\ NotifierInv /\ CallerInv

-----------------------------------------------------------------------------
LEMMA InitIInv == Init => IInv
<1>. SUFFICES ASSUME Init PROVE IInv
  OBVIOUS
<1>. USE DEF Init, Await!Init
<1>1. waits \in 1..MaxWaits
  BY StartAssumption
<1>2. TypeOK
  <2>1. waits \in 0..MaxWaits /\ spurious \in 0..MaxSpurious
    BY <1>1, StartAssumption
  <2>. QED
    BY <2>1 DEF TypeOK, Await!TypeOK
<1>. QED
  BY <1>1, <1>2 DEF IInv, MutualExclusion, InNotify, NotifierInv, CallerInv

-----------------------------------------------------------------------------
(* Starting, and the tasks.                                                *)

LEMMA StartSyncIInv == IInv /\ StartSync => IInv'
<1>. SUFFICES ASSUME IInv, StartSync PROVE IInv'
  OBVIOUS
<1>. USE DEF IInv, TypeOK, Await!TypeOK, MutualExclusion, InNotify, StartSync,
         await, lock
<1>1. TypeOK'
  BY StartAssumption DEF NotifySteps, CallerInv
<1>2. MutualExclusion'
  BY DEF NotifySteps
<1>3. NotifierInv'
  BY DEF NotifySteps, NotifierInv
<1>4. CallerInv'
  BY DEF NotifySteps, NotifierInv, CallerInv
<1>. QED
  BY <1>1, <1>2, <1>3, <1>4

LEMMA StartAsyncIInv == IInv /\ StartAsync => IInv'
<1>. SUFFICES ASSUME IInv, StartAsync PROVE IInv'
  OBVIOUS
<1>. USE DEF IInv, TypeOK, Await!TypeOK, MutualExclusion, InNotify, StartAsync,
         await, lock, Await!Suspend
<1>1. TypeOK'
  BY StartAssumption DEF NotifySteps, CallerInv
<1>2. MutualExclusion'
  BY DEF NotifySteps
<1>3. NotifierInv'
  BY DEF NotifySteps, NotifierInv
<1>4. CallerInv'
  BY DEF NotifySteps, NotifierInv, CallerInv
<1>. QED
  BY <1>1, <1>2, <1>3, <1>4

LEMMA BodyStartsIInv == IInv /\ BodyStarts => IInv'
<1>. SUFFICES ASSUME IInv, BodyStarts PROVE IInv'
  OBVIOUS
<1>. USE DEF IInv, TypeOK, Await!TypeOK, MutualExclusion, InNotify, BodyStarts,
         await, lock, Await!Suspend
<1>1. TypeOK'
  BY StartAssumption DEF NotifySteps, CallerInv
<1>2. MutualExclusion'
  BY DEF NotifySteps
<1>3. NotifierInv'
  BY DEF NotifySteps, NotifierInv
<1>4. CallerInv'
  BY DEF NotifySteps, NotifierInv, CallerInv
<1>. QED
  BY <1>1, <1>2, <1>3, <1>4

LEMMA TaskEndsIInv == \A i \in Task : IInv /\ TaskEnds(i) => IInv'
<1>. SUFFICES ASSUME IInv, NEW i \in Task, TaskEnds(i) PROVE IInv'
  OBVIOUS
<1>. USE DEF IInv, TypeOK, Await!TypeOK, MutualExclusion, InNotify, TaskEnds,
         await, lock, Await!Finish
<1>1. TypeOK'
  BY StartAssumption DEF NotifySteps, CallerInv
<1>2. MutualExclusion'
  BY DEF NotifySteps
<1>3. NotifierInv'
  BY DEF NotifySteps, NotifierInv
<1>4. CallerInv'
  BY DEF NotifySteps, NotifierInv, CallerInv
<1>. QED
  BY <1>1, <1>2, <1>3, <1>4

\* The await lets the StartTask go on only when all its tasks are done.
LEMMA BodyEndsIInv == IInv /\ BodyEnds => IInv'
<1>. SUFFICES ASSUME IInv, BodyEnds PROVE IInv'
  OBVIOUS
<1>. USE DEF IInv, TypeOK, Await!TypeOK, MutualExclusion, InNotify, BodyEnds,
         await, lock, Await!Resume
<1>1. TypeOK'
  BY StartAssumption DEF NotifySteps, CallerInv
<1>2. MutualExclusion'
  BY DEF NotifySteps
<1>3. NotifierInv'
  BY DEF NotifySteps, NotifierInv
<1>4. CallerInv'
  BY DEF NotifySteps, NotifierInv, CallerInv
<1>. QED
  BY <1>1, <1>2, <1>3, <1>4

-----------------------------------------------------------------------------
(* notify.                                                                 *)

LEMMA NotifyLockIInv == IInv /\ NotifyLock => IInv'
<1>. SUFFICES ASSUME IInv, NotifyLock PROVE IInv'
  OBVIOUS
<1>. USE DEF IInv, TypeOK, Await!TypeOK, MutualExclusion, InNotify, NotifyLock,
         await, lock
<1>1. TypeOK'
  BY StartAssumption DEF NotifySteps, CallerInv
<1>2. MutualExclusion'
  BY DEF NotifySteps
<1>3. NotifierInv'
  BY DEF NotifySteps, NotifierInv
<1>4. CallerInv'
  BY DEF NotifySteps, NotifierInv, CallerInv
<1>. QED
  BY <1>1, <1>2, <1>3, <1>4

LEMMA NotifySetIInv == IInv /\ NotifySet => IInv'
<1>. SUFFICES ASSUME IInv, NotifySet PROVE IInv'
  OBVIOUS
<1>. USE DEF IInv, TypeOK, Await!TypeOK, MutualExclusion, InNotify, NotifySet,
         await, lock
<1>1. TypeOK'
  BY StartAssumption DEF NotifySteps, CallerInv
<1>2. MutualExclusion'
  BY DEF NotifySteps
<1>3. NotifierInv'
  BY DEF NotifySteps, NotifierInv
<1>4. CallerInv'
  BY DEF NotifySteps, NotifierInv, CallerInv
<1>. QED
  BY <1>1, <1>2, <1>3, <1>4

LEMMA NotifyAllIInv == IInv /\ NotifyAll => IInv'
<1>. SUFFICES ASSUME IInv, NotifyAll PROVE IInv'
  OBVIOUS
<1>. USE DEF IInv, TypeOK, Await!TypeOK, MutualExclusion, InNotify, NotifyAll,
         await, lock
<1>1. TypeOK'
  BY StartAssumption DEF NotifySteps, CallerInv
<1>2. MutualExclusion'
  BY DEF NotifySteps
<1>3. NotifierInv'
  BY DEF NotifySteps, NotifierInv
<1>4. CallerInv'
  BY DEF NotifySteps, NotifierInv, CallerInv
<1>. QED
  BY <1>1, <1>2, <1>3, <1>4

LEMMA NotifyUnlockIInv == IInv /\ NotifyUnlock => IInv'
<1>. SUFFICES ASSUME IInv, NotifyUnlock PROVE IInv'
  OBVIOUS
<1>. USE DEF IInv, TypeOK, Await!TypeOK, MutualExclusion, InNotify, NotifyUnlock,
         await, lock
<1>1. TypeOK'
  BY StartAssumption DEF NotifySteps, CallerInv
<1>2. MutualExclusion'
  BY DEF NotifySteps
<1>3. NotifierInv'
  BY DEF NotifySteps, NotifierInv
<1>4. CallerInv'
  BY DEF NotifySteps, NotifierInv, CallerInv
<1>. QED
  BY <1>1, <1>2, <1>3, <1>4

-----------------------------------------------------------------------------
(* wait and the end of the frame.                                          *)

LEMMA WaitLockIInv == IInv /\ WaitLock => IInv'
<1>. SUFFICES ASSUME IInv, WaitLock PROVE IInv'
  OBVIOUS
<1>. USE DEF IInv, TypeOK, Await!TypeOK, MutualExclusion, InNotify, WaitLock,
         await, lock
<1>1. TypeOK'
  BY StartAssumption DEF NotifySteps, CallerInv
<1>2. MutualExclusion'
  BY DEF NotifySteps
<1>3. NotifierInv'
  BY DEF NotifySteps, NotifierInv
<1>4. CallerInv'
  BY DEF NotifySteps, NotifierInv, CallerInv
<1>. QED
  BY <1>1, <1>2, <1>3, <1>4

\* The flag is up and the worker is not in its block: it has left it.
LEMMA WaitReturnsIInv == IInv /\ WaitReturns => IInv'
<1>. SUFFICES ASSUME IInv, WaitReturns PROVE IInv'
  OBVIOUS
<1>. USE DEF IInv, TypeOK, Await!TypeOK, MutualExclusion, InNotify, WaitReturns,
         await, lock, Predicate
<1>1. TypeOK'
  BY StartAssumption DEF NotifySteps, CallerInv
<1>2. MutualExclusion'
  BY DEF NotifySteps
<1>3. NotifierInv'
  BY DEF NotifySteps, NotifierInv
<1>4. CallerInv'
  BY DEF NotifySteps, NotifierInv, CallerInv
<1>. QED
  BY <1>1, <1>2, <1>3, <1>4

LEMMA WaitSleepsIInv == IInv /\ WaitSleeps => IInv'
<1>. SUFFICES ASSUME IInv, WaitSleeps PROVE IInv'
  OBVIOUS
<1>. USE DEF IInv, TypeOK, Await!TypeOK, MutualExclusion, InNotify, WaitSleeps,
         await, lock, Predicate, ReleaseMutex
<1>1. TypeOK'
  BY StartAssumption DEF NotifySteps, CallerInv
<1>2. MutualExclusion'
  BY DEF NotifySteps
<1>3. NotifierInv'
  BY DEF NotifySteps, NotifierInv
<1>4. CallerInv'
  BY DEF NotifySteps, NotifierInv, CallerInv
<1>. QED
  BY <1>1, <1>2, <1>3, <1>4

LEMMA SpuriousWakeupIInv == IInv /\ SpuriousWakeup => IInv'
<1>. SUFFICES ASSUME IInv, SpuriousWakeup PROVE IInv'
  OBVIOUS
<1>. USE DEF IInv, TypeOK, Await!TypeOK, MutualExclusion, InNotify, SpuriousWakeup,
         await, lock
<1>1. TypeOK'
  BY StartAssumption DEF NotifySteps, CallerInv
<1>2. MutualExclusion'
  BY DEF NotifySteps
<1>3. NotifierInv'
  BY DEF NotifySteps, NotifierInv
<1>4. CallerInv'
  BY DEF NotifySteps, NotifierInv, CallerInv
<1>. QED
  BY <1>1, <1>2, <1>3, <1>4

LEMMA WaitAgainIInv == IInv /\ WaitAgain => IInv'
<1>. SUFFICES ASSUME IInv, WaitAgain PROVE IInv'
  OBVIOUS
<1>. USE DEF IInv, TypeOK, Await!TypeOK, MutualExclusion, InNotify, WaitAgain,
         await, lock
<1>1. TypeOK'
  BY StartAssumption DEF NotifySteps, CallerInv
<1>2. MutualExclusion'
  BY DEF NotifySteps
<1>3. NotifierInv'
  BY DEF NotifySteps, NotifierInv
<1>4. CallerInv'
  BY DEF NotifySteps, NotifierInv, CallerInv
<1>. QED
  BY <1>1, <1>2, <1>3, <1>4

LEMMA DestroyStartTaskIInv == IInv /\ DestroyStartTask => IInv'
<1>. SUFFICES ASSUME IInv, DestroyStartTask PROVE IInv'
  OBVIOUS
<1>. USE DEF IInv, TypeOK, Await!TypeOK, MutualExclusion, InNotify, DestroyStartTask,
         await, lock
<1>1. TypeOK'
  BY StartAssumption DEF NotifySteps, CallerInv
<1>2. MutualExclusion'
  BY DEF NotifySteps
<1>3. NotifierInv'
  BY DEF NotifySteps, NotifierInv
<1>4. CallerInv'
  BY DEF NotifySteps, NotifierInv, CallerInv
<1>. QED
  BY <1>1, <1>2, <1>3, <1>4

-----------------------------------------------------------------------------
LEMMA NextIInv == IInv /\ [Next]_vars => IInv'
<1>. SUFFICES ASSUME IInv, [Next]_vars PROVE IInv'
  OBVIOUS
<1>1. CASE UNCHANGED vars
  BY <1>1 DEF vars, await, lock, IInv, TypeOK, MutualExclusion, InNotify,
     NotifierInv, CallerInv, Await!TypeOK
<1>2. CASE CallerStep
  BY <1>2, StartSyncIInv, StartAsyncIInv, WaitLockIInv, WaitReturnsIInv,
     WaitSleepsIInv, WaitAgainIInv, DestroyStartTaskIInv DEF CallerStep
<1>3. CASE NotifierStep
  BY <1>3, NotifyLockIInv, NotifySetIInv, NotifyAllIInv, NotifyUnlockIInv
     DEF NotifierStep
<1>. QED
  BY <1>1, <1>2, <1>3, SpuriousWakeupIInv, BodyStartsIInv, BodyEndsIInv,
     TaskEndsIInv DEF Next

LEMMA Invariant == Spec => []IInv
BY InitIInv, NextIInv, PTL DEF Spec

\* Every variable keeps its type, and the mutex is held by exactly the thread
\* whose control is between its lock and its unlock.
THEOREM TypeCorrect == Spec => []TypeOK
BY Invariant, PTL DEF IInv

\* The caller never frees the StartTask's frame, with the mutex and the
\* condition variable in it, while the pool or notify still uses it.
THEOREM FrameSafe == Spec => []FrameOutlivesNotify
<1>1. IInv => FrameOutlivesNotify
  BY DEF IInv, NotifierInv, CallerInv, FrameOutlivesNotify
<1>. QED
  BY <1>1, Invariant, PTL

\* wait returns only when every started task is done, whatever woke it up and
\* however often it is called.
THEOREM WaitIsCorrect == Spec => []WaitMeansDone
<1>1. IInv => WaitMeansDone
  BY DEF IInv, NotifierInv, CallerInv, WaitMeansDone
<1>. QED
  BY <1>1, Invariant, PTL
=============================================================================
