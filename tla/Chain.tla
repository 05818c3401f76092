--------------------------------- MODULE Chain ---------------------------------
(***************************************************************************)
(* A chain of tasks (include/chain_tasks.h): chain_tasks makes an          *)
(* awaitable, and_then adds functions to it, and co_await makes a tree of  *)
(* coroutines, one process_tasks per function, each of which awaits the    *)
(* task of its function and then the process_tasks of the functions after  *)
(* it.  Results and exceptions travel back up through all of them.         *)
(*                                                                         *)
(* process_tasks i runs function i; process_tasks 0 the task a chain can   *)
(* start with.  Control passes from coroutine to coroutine as Tasks models *)
(* it (co_await and final_suspend), so a continuation is not a variable    *)
(* here: process_tasks i resumes i - 1, and the first resumes the caller.  *)
(* A value is named by the function it comes from.  The copies and moves   *)
(* of user types do not throw, and frames can be allocated.                *)
(***************************************************************************)
EXTENDS Integers, FiniteSets

CONSTANTS
  MaxFunctions         \* bound: the functions chained with and_then

ASSUME ChainAssumption == MaxFunctions \in Nat

Index == 0..MaxFunctions

VARIABLES
  start,               \* what chain_tasks was called with
  types,               \* functions_: what each returns, "value" or "void"
  caller,              \* the coroutine that awaits the chain
  process,             \* where each process_tasks is
  param,               \* its parameter val
  task,                \* the frame of each function's task t
  input,               \* what each function was called with
  output,              \* result_ of the function's task
  result,              \* result_ of each process_tasks
  answer               \* the expected that co_await gives

vars == <<start, types, caller, process, param, task, input, output, result, answer>>

Value(i) == [what |-> "value", of |-> i]
Void     == [what |-> "void",  of |-> 0]
Error    == [what |-> "error", of |-> 0]
Moved    == [what |-> "moved", of |-> 0]
Unset    == [what |-> "unset", of |-> 0]
Datum    == {Void, Error, Moved, Unset} \cup {Value(i) : i \in Index}

IsTask == start \in {"task", "void_task"}       \* TaskStart
First == IF IsTask THEN 0 ELSE 1

\* What a function is given by the one before; its parameters agree, otherwise
\* the program would not compile.
Type(i) == IF i > 0 THEN types[i]
           ELSE IF start = "void_task" THEN "void" ELSE "value"
Last == CHOOSE n \in Index : DOMAIN types = 1..n
Returned(i) == IF Type(i) = "value" THEN Value(i) ELSE Void
TakesValue(i) == i > 0 /\ Type(i-1) = "value"

\* The constructors of ChainAwaitable: from a value or an expected that holds
\* one ("value"), from an expected with an exception, from an unstarted task.
Init ==
  /\ start \in {"value", "exception", "task", "void_task"}
  /\ types = [i \in 1..0 |-> "value"]
  /\ caller = "chains"
  /\ process = [i \in Index |-> "none"]
  /\ param = [i \in Index |-> Unset]
  /\ task = [i \in Index |-> IF i = 0 /\ IsTask THEN "created" ELSE "none"]
  /\ input = [i \in Index |-> Unset]
  /\ output = [i \in Index |-> Unset]
  /\ result = [i \in Index |-> Unset]
  /\ answer = Unset

-----------------------------------------------------------------------------
\* and_then: a new awaitable with one function more takes over what the old one
\* starts with.  A function with a parameter can follow one that returns a
\* value, one without parameter only one that returns nothing.
Extended(r) == types' = [i \in 1..(Last + 1) |-> IF i <= Last THEN types[i] ELSE r]

AndThen(r) ==
  /\ caller = "chains"
  /\ Last < MaxFunctions
  /\ Type(Last) = "value"
  /\ Extended(r)
  /\ UNCHANGED <<start, caller, process, param, task, input, output, result, answer>>

AndThenVoid ==
  /\ caller = "chains"
  /\ Last < MaxFunctions
  /\ Type(Last) = "void"
  /\ Extended("void")
  /\ UNCHANGED <<start, caller, process, param, task, input, output, result, answer>>

\* operator co_await makes the awaiter, whose member loop_task_ is the first
\* process_tasks; its await_suspend resumes that.  value() throws if expected_
\* holds an exception.
CoAwait ==
  /\ caller = "chains"
  /\ IsTask \/ Last > 0
  /\ IF start = "exception"
     THEN caller' = "threw" /\ UNCHANGED <<process, param>>
     ELSE /\ caller' = "awaits"
          /\ process' = [process EXCEPT ![First] = "begin"]
          /\ param' = IF IsTask THEN param ELSE [param EXCEPT ![1] = Value(0)]
  /\ UNCHANGED <<start, types, task, input, output, result, answer>>

\* await_resume; the awaiter ends with the expression and destroys loop_task_.
AwaitResume ==
  /\ caller = "resumed"
  /\ answer' = result[First]
  /\ result' = [result EXCEPT ![First] = IF @ = Error THEN Error ELSE Moved]
  /\ process' = [process EXCEPT ![First] = "destroyed"]
  /\ caller' = "answered"
  /\ UNCHANGED <<start, types, param, task, input, output>>

\* The end of the awaitable and of the task it owns.
EndOfScope ==
  /\ caller \in {"chains", "answered", "threw"}
  /\ caller' = "ended"
  /\ task' = IF IsTask THEN [task EXCEPT ![0] = "destroyed"] ELSE task
  /\ UNCHANGED <<start, types, process, param, input, output, result, answer>>

-----------------------------------------------------------------------------
(* The pieces process_tasks is made of. *)

\* The body ends with result r: next_task and t are destroyed, then
\* final_suspend resumes whoever awaits it.
\* (mutant) the process_tasks after this one is kept.
TaskOnly(i) == [process EXCEPT ![i] = "done"]
Unwound(i) ==
  [j \in Index |-> IF j = i THEN "done"
                   ELSE IF j = i + 1 /\ process[j] # "none" THEN "destroyed"
                   ELSE process[j]]

\* (mutant) i - 1 is not resumed.
NoContinuation(i) == Unwound(i)
BackTo(i) == [Unwound(i) EXCEPT ![i-1] = "back"]

Finish(i, r, results) ==
  /\ result' = [results EXCEPT ![i] = r]
  /\ task' = IF i > 0 /\ task[i] # "none" THEN [task EXCEPT ![i] = "destroyed"] ELSE task
  /\ IF i = First
     THEN process' = Unwound(i) /\ caller' = "resumed"
     ELSE process' = BackTo(i) /\ UNCHANGED caller

\* t = f(std::move(val)) and co_await t, or f throws.
CallFunction(i) ==
  /\ process[i] = "begin"
  /\ input' = [input EXCEPT ![i] = IF TakesValue(i) THEN param[i] ELSE Void]
  /\ param' = IF TakesValue(i) THEN [param EXCEPT ![i] = Moved] ELSE param
  /\ \/ /\ process' = [process EXCEPT ![i] = "awaits_task"]
        /\ task' = [task EXCEPT ![i] = "running"]
        /\ UNCHANGED <<caller, output, result>>
     \/ /\ Finish(i, Error, result)
        /\ output' = [output EXCEPT ![i] = Error]
  /\ UNCHANGED <<start, types, answer>>

\* co_await starting_task.
RunStartingTask ==
  /\ process[0] = "begin"
  /\ input' = [input EXCEPT ![0] = Void]
  /\ process' = [process EXCEPT ![0] = "awaits_task"]
  /\ task' = [task EXCEPT ![0] = "running"]
  /\ UNCHANGED <<start, types, caller, param, output, result, answer>>

\* rethrow_exception(t.error()).
\* (mutant) has_value is not asked.
NeverFails(i) == FALSE
Failed(i) == output[i] = Error

Propagate(i) ==
  /\ process[i] = "has_result"
  /\ Failed(i)
  /\ Finish(i, Error, result)
  /\ UNCHANGED <<start, types, param, input, output, answer>>

\* process_tasks of the functions after i, with the value moved out of t.
\* (mutant) the value is taken from the parameter, which was moved away.
OldValue(i) == param[i]
NewValue(i) == output[i]

\* (mutant) a copy is handed on.
CopiedOut(i) == output
MovedOut(i) == IF Type(i) = "value" THEN [output EXCEPT ![i] = Moved] ELSE output

\* (mutant) next_task is started but not awaited.
NotAwaited(i) == [process EXCEPT ![i] = "back", ![i+1] = "begin"]
Awaited(i) == [process EXCEPT ![i] = "awaits_next", ![i+1] = "begin"]

PassOn(i) ==
  /\ process[i] = "has_result"
  /\ ~Failed(i)
  /\ process' = Awaited(i)
  /\ param' = IF Type(i) = "value" THEN [param EXCEPT ![i+1] = NewValue(i)] ELSE param
  /\ output' = MovedOut(i)
  /\ UNCHANGED <<start, types, caller, task, input, result, answer>>

\* The last of them: co_return *std::move(t), or nothing.
\* (mutant) the result is read after it was moved.
AfterMove(i) == MovedOut(i)[i]
TaskResult(i) == output[i]

ReturnOwn(i) ==
  /\ process[i] = "has_result"
  /\ ~Failed(i)
  /\ Finish(i, TaskResult(i), result)
  /\ output' = MovedOut(i)
  /\ UNCHANGED <<start, types, param, input, answer>>

\* rethrow_exception(next_task.error()), or co_return *std::move(next_task).
\* (mutant) the exception of next_task is not looked at.
OwnResult(i) == Returned(Last)
NextResult(i) == result[i+1]

ReturnNext(i) ==
  /\ process[i] = "back"
  /\ Finish(i, NextResult(i),
            IF result[i+1] = Value(Last) THEN [result EXCEPT ![i+1] = Moved] ELSE result)
  /\ UNCHANGED <<start, types, param, input, output, answer>>

-----------------------------------------------------------------------------
(* The overloads of process_tasks. *)

\* process_tasks(U val, F f, Funcs... functions)
ProcessValue(i) ==
  /\ TakesValue(i) /\ i < Last
  /\ CallFunction(i) \/ Propagate(i) \/ PassOn(i) \/ ReturnNext(i)

\* process_tasks(U val, F f)
ProcessLastValue(i) ==
  /\ TakesValue(i) /\ i = Last
  /\ CallFunction(i) \/ Propagate(i) \/ ReturnOwn(i)

\* process_tasks(Task<void>(*f)(), Funcs... functions)
ProcessVoid(i) ==
  /\ i > 0 /\ ~TakesValue(i) /\ i < Last
  /\ CallFunction(i) \/ Propagate(i) \/ PassOn(i) \/ ReturnNext(i)

\* process_tasks(Task<void>(*f)())
ProcessLastVoid(i) ==
  /\ i > 0 /\ ~TakesValue(i) /\ i = Last
  /\ CallFunction(i) \/ Propagate(i) \/ ReturnOwn(i)

\* process_tasks(Task<U>& starting_task, Funcs... functions)
ProcessTask ==
  /\ IsTask /\ Last > 0
  /\ RunStartingTask \/ Propagate(0) \/ PassOn(0) \/ ReturnNext(0)

\* process_tasks(Task<U>& starting_task)
ProcessOnlyTask ==
  /\ IsTask /\ Last = 0
  /\ RunStartingTask \/ Propagate(0) \/ ReturnOwn(0)

\* The body of function i, wherever it runs, ends, and the process_tasks that
\* awaits its task goes on.
EndTask(i) ==
  /\ task[i] = "running"
  /\ task' = [task EXCEPT ![i] = "done"]
  /\ \E r \in {Returned(i), Error} : output' = [output EXCEPT ![i] = r]
  /\ process' = [process EXCEPT ![i] = "has_result"]
  /\ UNCHANGED <<start, types, caller, param, input, result, answer>>

-----------------------------------------------------------------------------
Runs ==
  \/ CoAwait \/ AwaitResume \/ ProcessTask \/ ProcessOnlyTask
  \/ \E i \in 1..Last : \/ ProcessValue(i) \/ ProcessLastValue(i)
                        \/ ProcessVoid(i) \/ ProcessLastVoid(i)
  \/ \E i \in 0..Last : EndTask(i)

Next ==
  \/ \E r \in {"value", "void"} : AndThen(r)
  \/ AndThenVoid
  \/ EndOfScope
  \/ Runs

Spec == Init /\ [][Next]_vars

\* Whoever has control goes on, and the functions end.
FairSpec == Spec /\ WF_vars(Runs)

-----------------------------------------------------------------------------
TypeOK ==
  /\ start \in {"value", "exception", "task", "void_task"}
  /\ \E n \in Index : types \in [1..n -> {"value", "void"}]
  /\ caller \in {"chains", "awaits", "resumed", "answered", "threw", "ended"}
  /\ process \in [Index -> {"none", "begin", "awaits_task", "has_result",
                            "awaits_next", "back", "done", "destroyed"}]
  /\ task \in [Index -> {"none", "created", "running", "done", "destroyed"}]
  /\ \A d \in {param, input, output, result} : d \in [Index -> Datum]
  /\ answer \in Datum \ {Moved}

\* Control is in one place while the chain is awaited, and the way back from
\* there leads through every process_tasks to the caller: each awaits the next
\* one or its own task.  So the chain can neither stop nor branch.
OneControl ==
  caller = "awaits" =>
    \E k \in First..Last :
      /\ \A i \in First..(k-1) : process[i] = "awaits_next"
      /\ \A i \in (k+1)..Last : process[i] \in {"none", "done", "destroyed"}
      /\ \/ process[k] \in {"begin", "has_result", "back"}
         \/ process[k] = "awaits_task" /\ task[k] = "running"

\* At the end no frame is left.
FramesGone ==
  caller = "ended" => \A i \in Index : /\ process[i] \in {"none", "destroyed"}
                                       /\ task[i] \in {"none", "destroyed"}

\* What is handed from coroutine to coroutine is moved each time, so a result is
\* in one place only.
OnePlace ==
  \A i \in Index :
    Cardinality({j \in Index : output[j] = Value(i)})
      + Cardinality({j \in Index : result[j] = Value(i)})
      + Cardinality({j \in Index : param[j] = Value(i)})
      + Cardinality({j \in Index : input[j] = Value(i)})
      + (IF answer = Value(i) THEN 1 ELSE 0) <= 1

\* The coroutines of a chain: one has control, every frame goes in the end and
\* every value is in one place.
Safety == TypeOK /\ OneControl /\ FramesGone /\ OnePlace

\* Who awaits a chain gets an answer (or the exception value() throws).
Answered == caller = "awaits" ~> caller = "answered"

-----------------------------------------------------------------------------
(* A chain is a pipeline. *)
Called == {i \in Index : input[i] # Unset}
Begun == IF Called = {} THEN First - 1
         ELSE CHOOSE i \in Called : \A j \in Called : j <= i
Shown(d) == CASE d = Unset -> -1 [] d = Void -> -2 [] d = Error -> -3 [] OTHER -> d.of

\* A chain that starts with an exception stops before its first step.
Steps == [first |-> First, last |-> Last,
          values |-> {i \in 0..Last : Type(i) = "value"}]

Abstract == INSTANCE Pipeline WITH
  MaxSteps <- MaxFunctions,
  steps <- Steps,
  begun <- Begun,
  input <- IF Called = {} THEN -1 ELSE Shown(input[Begun]),
  ending <- IF \E i \in Called : output[i] = Error THEN "error"
            ELSE IF \E i \in Called : task[i] = "running" THEN "busy"
            ELSE "value",
  answer <- Shown(answer)

ImplementsPipeline == Abstract!Spec
=============================================================================
