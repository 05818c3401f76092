-------------------------------- MODULE Await --------------------------------
(***************************************************************************)
(* What co_await on a set of tasks promises, whatever kind of barrier is   *)
(* used: the awaiting coroutine goes on once, and only after every task    *)
(* has finished.  WaitTasks (suspend at once) and WaitTasksAsync (suspend  *)
(* only if needed) implement it.                                           *)
(***************************************************************************)
EXTENDS Naturals

CONSTANT Task          \* the awaited tasks

VARIABLES
  finished,            \* the tasks that ran to their end
  parent               \* the coroutine that awaits them

vars == <<finished, parent>>

TypeOK ==
  /\ finished \subseteq Task
  /\ parent \in {"running", "waiting", "resumed"}

Init ==
  /\ finished = {}
  /\ parent = "running"

Finish(i) ==
  /\ i \notin finished
  /\ finished' = finished \cup {i}
  /\ UNCHANGED parent

Suspend ==
  /\ parent = "running"
  /\ parent' = "waiting"
  /\ UNCHANGED finished

\* From "running": the tasks were all done before the parent had to suspend.
Resume ==
  /\ parent \in {"running", "waiting"}
  /\ finished = Task
  /\ parent' = "resumed"
  /\ UNCHANGED finished

Next == (\E i \in Task : Finish(i)) \/ Suspend \/ Resume

Spec == Init /\ [][Next]_vars
=============================================================================
