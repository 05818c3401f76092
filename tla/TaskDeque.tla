------------------------------ MODULE TaskDeque ------------------------------
(***************************************************************************)
(* What a worker's task deque promises: the owner pushes and pops at the   *)
(* bottom, every other worker steals at the top, and a handle that was     *)
(* pushed is handed out at most once.  Each operation is one atomic step.  *)
(*                                                                         *)
(* The mutex-protected deque of include/test_deque.h, which the library    *)
(* substitutes for the lock-free one under COROS_TEST_DEQUE_, is exactly   *)
(* this specification; module Deque shows that the lock-free deque of      *)
(* include/deque.h implements it.                                          *)
(***************************************************************************)
EXTENDS Naturals, Sequences

CONSTANT Handle        \* the coroutine handles that may be scheduled

VARIABLES
  deque,               \* the handles in the deque, top first
  taken                \* history: the handles handed out so far

vars == <<deque, taken>>

InDeque == {deque[i] : i \in DOMAIN deque}

TypeOK ==
  /\ deque \in Seq(Handle)
  /\ taken \subseteq Handle

Init ==
  /\ deque = <<>>
  /\ taken = {}

\* A handle is scheduled once in its life: a coroutine that is scheduled is
\* suspended, and it never enters a deque again after it was resumed.
PushBottom(h) ==
  /\ h \notin taken \cup InDeque
  /\ deque' = Append(deque, h)
  /\ UNCHANGED taken

PopBottom ==
  /\ deque # <<>>
  /\ deque' = SubSeq(deque, 1, Len(deque) - 1)
  /\ taken' = taken \cup {deque[Len(deque)]}

Steal ==
  /\ deque # <<>>
  /\ deque' = Tail(deque)
  /\ taken' = taken \cup {Head(deque)}

Next ==
  \/ \E h \in Handle : PushBottom(h)
  \/ PopBottom
  \/ Steal

Spec == Init /\ [][Next]_vars

-----------------------------------------------------------------------------
\* No handle sits twice in the deque, and none that was handed out is still
\* in it: whoever got it holds the only reference (test_deque.h, popBottom
\* and steal remove the element they return).
NoDuplicates ==
  /\ \A i, j \in DOMAIN deque : deque[i] = deque[j] => i = j
  /\ InDeque \cap taken = {}
=============================================================================
