--------------------------------- MODULE Tasks ---------------------------------
(***************************************************************************)
(* Coroutine frames and the objects that own them (include/task.h,         *)
(* include/enqueue_tasks.h): a Task variable owns the frame of the         *)
(* coroutine it was returned by, moves it on and destroys it at the end of *)
(* its scope; co_await starts the awaited frame and makes the awaiting one *)
(* its continuation; enqueue_tasks gives a task away to a wrapper that     *)
(* destroys itself.                                                        *)
(*                                                                         *)
(* Coroutine bodies are arbitrary: whoever runs, a function on a thread or *)
(* a coroutine, may do anything the interface allows with its own          *)
(* variables.  It co_awaits only unstarted tasks and reads only finished   *)
(* ones, as the documentation demands.  Values do not matter here, only    *)
(* whether there is one.                                                   *)
(***************************************************************************)
EXTENDS Integers, FiniteSets

CONSTANTS
  Thread,              \* the threads
  Worker,              \* those of them that resume enqueued tasks
  Frame,               \* the coroutine frames the program makes
  Variable,            \* the Task variables of a scope, parameters included
  Parameter,           \* those of them that are a coroutine's parameters
  None                 \* nullptr; no coroutine

ASSUME TasksAssumption ==
  /\ Worker \subseteq Thread /\ Parameter \subseteq Variable
  /\ Thread \cap Frame = {}
  /\ None \notin Thread \cup Frame \cup Variable

Holder == Thread \cup Frame

VARIABLES
  state,               \* where each coroutine is
  wrapper,             \* the frames of create_NoWaitTask
  cont,                \* continuation_ of each promise
  result,              \* result_ of each promise
  handle,              \* the frame each variable owns: handle_
  current,             \* the coroutine each thread runs
  queue,               \* the wrappers the pool has got and not yet resumed
  overwritten          \* history: the frames of variables that were assigned to

promises == <<wrapper, cont, result>>
vars == <<state, promises, handle, current, queue, overwritten>>

Init ==
  /\ state = [f \in Frame |-> "none"]
  /\ wrapper = {}
  /\ cont = [f \in Frame |-> None]
  /\ result = [f \in Frame |-> "unset"]
  /\ handle = [h \in Holder |-> [v \in Variable |-> None]]
  /\ current = [t \in Thread |-> None]
  /\ queue = {}
  /\ overwritten = {}

-----------------------------------------------------------------------------
\* Who runs on thread t: a coroutine, or the thread's own function.  A worker
\* has none of its own but the loop that resumes.
Scope(t) == IF current[t] = None THEN t ELSE current[t]
Runs(t, h) == h = Scope(t) /\ h \notin Worker \cup wrapper

\* The frames that die with a set of frames: those that variables in them own,
\* and those that variables in these own, and so on.
Closed(C) ==
  \A g \in C, v \in Variable : handle[g][v] # None => handle[g][v] \in C
Doomed(S) ==
  {f \in Frame : \A C \in SUBSET Frame : S \subseteq C /\ Closed(C) => f \in C}

Destroyed(S) ==
  LET dead == Doomed(S)
  IN  [f \in Frame |-> IF f \in dead THEN "destroyed" ELSE state[f]]

\* The variables that are left once the scopes in S have ended.
HandlesWithout(S) ==
  [h \in Holder |-> IF h \in S THEN [v \in Variable |-> None] ELSE handle[h]]
Owned(h) == {f \in Frame : \E v \in Variable : handle[h][v] = f}

-----------------------------------------------------------------------------
\* A coroutine is called (get_return_object, initial_suspend): its frame waits
\* to be started and belongs to variable v.
Call(t, h, v, f) ==
  /\ Runs(t, h)
  /\ state[f] = "none"
  /\ handle[h][v] = None
  /\ state' = [state EXCEPT ![f] = "created"]
  /\ handle' = [handle EXCEPT ![h][v] = f]
  /\ UNCHANGED <<promises, current, queue, overwritten>>

\* The same with a task as argument: it is moved into a parameter, which is
\* part of the frame.
CallWith(t, h, v, f, arg, p) ==
  /\ Runs(t, h)
  /\ state[f] = "none"
  /\ handle[h][v] = None
  /\ arg # v /\ handle[h][arg] # None
  /\ state' = [state EXCEPT ![f] = "created"]
  /\ handle' = [handle EXCEPT ![h][v] = f, ![h][arg] = None,
                              ![f][p] = handle[h][arg]]
  /\ UNCHANGED <<promises, current, queue, overwritten>>

\* Task(Task&&).
\* (mutant) the source keeps its handle.
Copied(h, d, s) == [handle EXCEPT ![h][d] = handle[h][s]]
Moved(h, d, s) == [handle EXCEPT ![h][d] = handle[h][s], ![h][s] = None]

MoveConstruct(t, h, d, s) ==
  /\ Runs(t, h)
  /\ d # s /\ handle[h][d] = None /\ handle[h][s] # None
  /\ handle' = Moved(h, d, s)
  /\ UNCHANGED <<state, promises, current, queue, overwritten>>

\* operator=(Task&&) and that of WaitTask, which is the same: what the variable
\* had is overwritten.
MoveAssign(t, h, d, s) ==
  /\ Runs(t, h)
  /\ handle' = [handle EXCEPT ![h][d] = handle[h][s], ![h][s] = None]
  /\ overwritten' = overwritten \cup ({handle[h][d]} \ {None})
  /\ UNCHANGED <<state, promises, current, queue>>

\* ~Task, at the end of a block: the frame, and the tasks it was given.  A
\* coroutine's parameters are in no block of its body.
EndOfScope(t, h, v) ==
  /\ Runs(t, h)
  /\ h \in Thread \/ v \notin Parameter
  /\ handle[h][v] # None
  /\ state' = Destroyed({handle[h][v]})
  /\ handle' = [HandlesWithout(Doomed({handle[h][v]})) EXCEPT ![h][v] = None]
  /\ UNCHANGED <<promises, current, queue, overwritten>>

\* expected() &&, operator*() &&: the value is moved out of the promise.
Take(t, h, v) ==
  LET f == handle[h][v]
  IN  /\ Runs(t, h)
      /\ f # None
      /\ state[f] = "done" /\ result[f] = "value"
      /\ result' = [result EXCEPT ![f] = "moved"]
      /\ UNCHANGED <<state, wrapper, cont, handle, current, queue, overwritten>>

-----------------------------------------------------------------------------
\* A thread resumes a task it owns by its handle.
Resume(t, v) ==
  LET f == handle[t][v]
  IN  /\ t \notin Worker
      /\ current[t] = None
      /\ f # None
      /\ state[f] = "created"
      /\ state' = [state EXCEPT ![f] = "running"]
      /\ current' = [current EXCEPT ![t] = f]
      /\ UNCHANGED <<promises, handle, queue, overwritten>>

\* co_await: await_suspend of ContinuationSetAwaiter.
\* (mutant) the continuation is not set.
Unset(f, g) == cont
SetContinuation(f, g) == [cont EXCEPT ![g] = f]

Await(t, v) ==
  LET f == current[t]
      g == handle[f][v]
  IN  /\ f # None
      /\ g # None
      /\ state[g] = "created"
      /\ cont' = SetContinuation(f, g)
      /\ state' = [state EXCEPT ![f] = "awaiting", ![g] = "running"]
      /\ current' = [current EXCEPT ![t] = g]
      /\ UNCHANGED <<wrapper, result, handle, queue, overwritten>>

\* What the variables of a body own, which end with it.  The parameters stay in
\* the frame until it is destroyed.
Locals(f) == {g \in Frame : \E v \in Variable \ Parameter : handle[f][v] = g}
\* (mutant) the finished tasks are kept.
UnstartedLocals(f) == {g \in Locals(f) : state[g] = "created"}
Ended(f) == Locals(f)

HandlesAfter(f) ==
  [HandlesWithout(Doomed(Ended(f))) EXCEPT
    ![f] = [v \in Variable |-> IF v \in Parameter THEN handle[f][v] ELSE None]]

\* return_value, return_void or unhandled_exception; then the body's variables
\* end; then final_suspend resumes the continuation, or returns control.
\* (mutant) the exception is lost.
NotStored(f, r) == IF r = "value" THEN [result EXCEPT ![f] = r] ELSE result
Stored(f, r) == [result EXCEPT ![f] = r]

Finish(t, r) ==
  LET f == current[t]
      done == [Destroyed(Ended(f)) EXCEPT ![f] = "done"]
  IN  /\ f # None
      /\ f \notin wrapper
      /\ result' = Stored(f, r)
      /\ handle' = HandlesAfter(f)
      /\ state' = IF cont[f] = None THEN done
                  ELSE [done EXCEPT ![cont[f]] = "running"]
      /\ current' = [current EXCEPT ![t] = cont[f]]
      /\ UNCHANGED <<wrapper, cont, queue, overwritten>>

-----------------------------------------------------------------------------
\* enqueue_tasks: the task is moved into the parameter of create_NoWaitTask,
\* whose frame goes to the pool.  The NoWaitTask object owns nothing.
Spawn(t, h, v, f, p) ==
  /\ Runs(t, h)
  /\ state[f] = "none"
  /\ handle[h][v] # None
  /\ state[handle[h][v]] = "created"
  /\ state' = [state EXCEPT ![f] = "created"]
  /\ wrapper' = wrapper \cup {f}
  /\ handle' = [handle EXCEPT ![h][v] = None, ![f][p] = handle[h][v]]
  /\ queue' = queue \cup {f}
  /\ UNCHANGED <<cont, result, current, overwritten>>

\* A worker resumes the wrapper; its body co_awaits the task (Await).
\* (mutant) the wrapper stays in the queue.
StillQueued(f) == queue
Dequeued(f) == queue \ {f}

RunWrapper(t, f) ==
  /\ t \in Worker
  /\ current[t] = None
  /\ f \in queue
  /\ queue' = Dequeued(f)
  /\ state' = [state EXCEPT ![f] = "running"]
  /\ current' = [current EXCEPT ![t] = f]
  /\ UNCHANGED <<promises, handle, overwritten>>

\* The wrapper resumed again: co_await of its task gives no result, whatever
\* the task ended with, so nothing is thrown; final_suspend destroys the frame
\* and with it the parameter.
\* (mutant) the task is not destroyed with the wrapper.
WrapperOnly(f) == [state EXCEPT ![f] = "destroyed"]
WithTask(f) == Destroyed({f})

FinishWrapper(t) ==
  LET f == current[t]
  IN  /\ f # None
      /\ f \in wrapper
      /\ \A g \in Owned(f) : state[g] = "done"
      /\ state' = WithTask(f)
      /\ handle' = HandlesWithout(Doomed({f}))
      /\ current' = [current EXCEPT ![t] = None]
      /\ UNCHANGED <<promises, queue, overwritten>>

\* ~ThreadPool destroys a wrapper nobody took.
DestroyQueued(f) ==
  /\ f \in queue
  /\ \A w \in Worker : current[w] = None
  /\ queue' = Dequeued(f)
  /\ state' = Destroyed({f})
  /\ handle' = HandlesWithout(Doomed({f}))
  /\ UNCHANGED <<promises, current, overwritten>>

-----------------------------------------------------------------------------
Body(t, h) ==
  \E v \in Variable :
    \/ \E f \in Frame :
         \/ Call(t, h, v, f)
         \/ \E p \in Parameter :
              \/ \E arg \in Variable : CallWith(t, h, v, f, arg, p)
              \/ Spawn(t, h, v, f, p)
    \/ \E s \in Variable : MoveConstruct(t, h, v, s) \/ MoveAssign(t, h, v, s)
    \/ EndOfScope(t, h, v) \/ Take(t, h, v)

Next ==
  \/ \E t \in Thread :
       \/ \E h \in Holder : Body(t, h)
       \/ \E v \in Variable : Resume(t, v) \/ Await(t, v)
       \/ \E r \in {"value", "error"} : Finish(t, r)
       \/ \E f \in Frame : RunWrapper(t, f)
       \/ FinishWrapper(t)
  \/ \E f \in Frame : DestroyQueued(f)

Spec == Init /\ [][Next]_vars

-----------------------------------------------------------------------------
Living == {f \in Frame : state[f] \notin {"none", "destroyed"}}
Owners(f) == {p \in Holder \X Variable : handle[p[1]][p[2]] = f}

TypeOK ==
  /\ state \in [Frame -> {"none", "created", "running", "awaiting", "done",
                          "destroyed"}]
  /\ wrapper \subseteq Frame
  /\ queue \subseteq {f \in wrapper : state[f] = "created"}
  /\ cont \in [Frame -> Frame \cup {None}]
  /\ result \in [Frame -> {"unset", "value", "moved", "error"}]
  /\ handle \in [Holder -> [Variable -> Frame \cup {None}]]
  /\ current \in [Thread -> Frame \cup {None}]
  /\ overwritten \subseteq Frame

\* Every frame has one owner, which is alive itself: no variable is left with
\* the handle of a frame that is gone, and no frame is destroyed twice.  Of the
\* variables of a coroutine that is done only the parameters are left.
OneOwner ==
  /\ \A f \in Frame : Cardinality(Owners(f)) <= 1
  /\ \A h \in Holder, v \in Variable :
       handle[h][v] # None =>
         /\ handle[h][v] \in Living
         /\ h \in Frame =>
              \/ state[h] \in {"created", "running", "awaiting"}
              \/ state[h] = "done" /\ v \in Parameter

\* Objects that own a frame are RAII objects: no frame is left to nobody, but
\* for those that operator= has overwritten.  A wrapper belongs to the pool
\* until it is resumed, and then to itself.
NoLeak ==
  \A f \in Living : Owners(f) # {} \/ f \in wrapper \cup overwritten

\* An awaiting coroutine will be resumed: exactly one coroutine has it as its
\* continuation, which it owns and which runs or awaits itself.
WillBeResumed ==
  \A f \in Frame : state[f] = "awaiting" =>
    /\ Cardinality({g \in Living : cont[g] = f /\ state[g] # "done"}) = 1
    /\ \E g \in Owned(f) : cont[g] = f /\ state[g] \in {"running", "awaiting"}

\* A coroutine runs on at most one thread, and nobody destroys it meanwhile or
\* while it waits.
RunsOnce ==
  /\ \A f \in Frame :
       Cardinality({t \in Thread : current[t] = f})
         = IF state[f] = "running" THEN 1 ELSE 0
  /\ \A f \in Frame : state[f] = "destroyed" =>
       \A g \in Living : cont[g] = f => state[g] = "done"

\* The life of a frame: it has one owner and runs on one thread, and ends with
\* its owner.
Ownership == TypeOK /\ OneOwner /\ NoLeak /\ RunsOnce

\* When it goes on, the awaited task is still there and has its result.
ResultFirst ==
  [][\A f \in Frame : state[f] = "awaiting" /\ state'[f] = "running" =>
       \E g \in Owned(f) : /\ cont[g] = f
                           /\ state'[g] = "done"
                           /\ result'[g] \in {"value", "error"}
                           /\ Owners(g)' = Owners(g)]_vars
=============================================================================
