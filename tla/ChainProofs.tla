------------------------------ MODULE ChainProofs ------------------------------
(***************************************************************************)
(* A chain of any length is safe and is a pipeline.                        *)
(*                                                                         *)
(* Control first goes down: every process_tasks has called its function    *)
(* and awaits the next, until one of them fails or is the last; then it    *)
(* goes up again, with one result, through all of them to the caller.      *)
(* What a coroutine finds when it is resumed follows from that.            *)
(***************************************************************************)
EXTENDS Chain, FiniteSetTheorems, TLAPS

\* What function i is called with.
Given(i) == IF TakesValue(i) THEN Value(i-1) ELSE Void

\* No process_tasks has come to function i.
Untouched(i) ==
  /\ process[i] = "none"
  /\ param[i] = Unset /\ input[i] = Unset
  /\ output[i] = Unset /\ result[i] = Unset

Pristine(i) == Untouched(i) /\ task[i] = "none"

\* Function i has returned, and what it returned was passed on.
PassedOn(i) ==
  /\ task[i] = "done"
  /\ input[i] = Given(i)
  /\ output[i] \in {Moved, Void}
  /\ result[i] = Unset

\* The coroutines above k, each of which will be resumed.
Suspended(k) ==
  \A i \in First..(k-1) : process[i] = "awaits_next" /\ PassedOn(i)

\* Those that do not exist.
Outside(m) == \A i \in Index : i < First \/ i > m => Pristine(i)

\* Function k is called, runs, or has ended.
Begins(k) ==
  /\ process[k] = "begin"
  /\ task[k] = IF k = 0 THEN "created" ELSE "none"
  /\ input[k] = Unset /\ output[k] = Unset
  /\ TakesValue(k) => param[k] = Value(k-1)

Busy(k) ==
  /\ process[k] = "awaits_task"
  /\ task[k] = "running"
  /\ input[k] = Given(k) /\ output[k] = Unset

Ended(k) ==
  /\ process[k] = "has_result"
  /\ task[k] = "done"
  /\ input[k] = Given(k)
  /\ output[k] \in {Returned(k), Error}

\* On the way down, control is with process_tasks k.
Down(k) ==
  /\ Suspended(k)
  /\ Begins(k) \/ Busy(k) \/ Ended(k)
  /\ result[k] = Unset
  /\ Outside(k)

\* On the way up from function m, k has control, or the caller has it, and
\* k + 1 the result.
Up(k, m) ==
  /\ m \in (k+1)..Last
  /\ Suspended(k)
  /\ k >= First => process[k] = "back" /\ PassedOn(k)
  /\ process[k+1] = "done"
  /\ \A i \in (k+2)..m : process[i] = "destroyed"
  /\ \A i \in (k+1)..m :
       /\ task[i] \in IF i = 0 THEN {"done"} ELSE {"none", "destroyed"}
       /\ input[i] = Given(i)
  /\ \A i \in (k+1)..(m-1) : output[i] # Error
  /\ \/ output[m] = Error /\ result[k+1] = Error
     \/ m = Last /\ output[m] # Error /\ result[k+1] = Returned(Last)
  /\ Outside(m)

ControlInv ==
  /\ caller \in {"chains", "threw"} =>
       /\ answer = Unset
       /\ \A i \in Index :
            /\ Untouched(i)
            /\ task[i] = IF i = 0 /\ IsTask THEN "created" ELSE "none"
  /\ caller = "threw" => ~IsTask
  /\ caller = "awaits" =>
       /\ answer = Unset
       /\ \E k \in First..Last : Down(k) \/ \E m \in Index : Up(k, m)
  /\ caller = "resumed" =>
       /\ answer = Unset
       /\ \E m \in Index : Up(First-1, m)
  /\ caller = "answered" =>
       /\ answer # Unset
       /\ \A i \in Index :
            /\ process[i] \in {"none", "destroyed"}
            /\ task[i] \in IF i = 0 /\ IsTask THEN {"done"} ELSE {"none", "destroyed"}

\* Where a value can be ...
Places(n, par, inp, out, res, ans) ==
  /\ \A i \in Index :
       /\ out[i] \in {Unset, Error, Moved, Void, Value(i)}
       /\ par[i] \in {Unset, Moved, Value(i-1)}
       /\ inp[i] \in {Unset, Void, Value(i-1)}
       /\ res[i] \in {Unset, Error, Moved, Void, Value(n)}
       /\ i > n => par[i] = Unset /\ inp[i] = Unset
  /\ ans \in {Unset, Error, Void, Value(n)}

\* ... and it is in one of these places only.
OnlyPlace(n, par, inp, out, res, ans) ==
  /\ \A i \in Index : i > 0 =>
       /\ out[i-1] = Value(i-1) => par[i] # Value(i-1) /\ inp[i] # Value(i-1)
       /\ par[i] = Value(i-1) => inp[i] # Value(i-1)
  /\ \A j \in Index : res[j] = Value(n) =>
       /\ out[n] # Value(n) /\ ans # Value(n)
       /\ \A i \in Index : res[i] = Value(n) => i = j
  /\ ans = Value(n) => out[n] # Value(n)

PlaceInv ==
  /\ Places(Last, param, input, output, result, answer)
  /\ OnlyPlace(Last, param, input, output, result, answer)

IInv == TypeOK /\ FramesGone /\ ControlInv /\ PlaceInv


-----------------------------------------------------------------------------
(* The data, the length of the chain, and what a step leaves alone. *)

LEMMA DatumFacts ==
  /\ \A i, j \in Int : Value(i) = Value(j) => i = j
  /\ \A i \in Int : Value(i) \notin {Void, Error, Moved, Unset}
  /\ Void # Error /\ Void # Moved /\ Void # Unset
  /\ Error # Moved /\ Error # Unset /\ Moved # Unset
  /\ {Void, Error, Moved, Unset} \subseteq Datum
  /\ \A i \in Index : Value(i) \in Datum
  /\ Value(-1) \notin Datum
<1>1. /\ \A i, j \in Int : Value(i) = Value(j) => i = j
      /\ \A i \in Int : Value(i) \notin {Void, Error, Moved, Unset}
      /\ Void # Error /\ Void # Moved /\ Void # Unset
      /\ Error # Moved /\ Error # Unset /\ Moved # Unset
  BY DEF Value, Void, Error, Moved, Unset
<1>2. \A i \in Index : i \in Int /\ i # -1
  BY ChainAssumption DEF Index
<1>3. Value(-1) \notin {Value(i) : i \in Index}
  BY <1>1, <1>2
<1>. QED BY <1>1, <1>3 DEF Datum

LEMMA SameInterval ==
  ASSUME NEW k \in Index, NEW n \in Index, 1..k = 1..n
  PROVE  k = n
<1>. k \in Nat /\ n \in Nat
  BY ChainAssumption DEF Index
<1>1. CASE k < n
  BY <1>1, n \in 1..n, n \notin 1..k
<1>2. CASE n < k
  BY <1>2, k \in 1..k, k \notin 1..n
<1>. QED BY <1>1, <1>2

LEMMA LastIs ==
  ASSUME NEW n \in Index, DOMAIN types = 1..n
  PROVE  Last = n
BY SameInterval DEF Last

LEMMA ChainFacts ==
  ASSUME TypeOK
  PROVE  /\ Last \in Index
         /\ types \in [1..Last -> {"value", "void"}]
         /\ First \in {0, 1}
         /\ First = 0 <=> IsTask
         /\ \A i \in 0..Last : Type(i) \in {"value", "void"}
<1>1. PICK n \in Index : types \in [1..n -> {"value", "void"}]
  BY DEF TypeOK
<1>2. Last = n
  BY <1>1, LastIs
<1>. QED BY <1>1, <1>2, ChainAssumption DEF Index, First, Type

\* Only and_then changes the chain.
LEMMA SameChain ==
  ASSUME start' = start, types' = types
  PROVE  /\ First' = First /\ Last' = Last
         /\ IsTask' = IsTask
         /\ \A i \in Int : /\ Type(i)' = Type(i) /\ Returned(i)' = Returned(i)
                           /\ TakesValue(i)' = TakesValue(i)
                           /\ Given(i)' = Given(i)
<1>1. First' = First /\ IsTask' = IsTask
  BY DEF First, IsTask
<1>2. Last' = Last
  BY DEF Last
<1>3. \A i \in Int : Type(i)' = Type(i)
  BY DEF Type
<1>4. \A i \in Int : Returned(i)' = Returned(i) /\ TakesValue(i)' = TakesValue(i)
  BY <1>3 DEF Returned, TakesValue, Value, Void
<1>. QED BY <1>1, <1>2, <1>3, <1>4 DEF Given, Value, Void

LEMMA NextCases ==
  ASSUME TypeOK, Next
  PROVE  \/ \E r \in {"value", "void"} : AndThen(r)
         \/ AndThenVoid
         \/ EndOfScope
         \/ CoAwait
         \/ AwaitResume
         \/ RunStartingTask /\ IsTask
         \/ \E i \in Index :
              /\ i \in First..Last
              /\ \/ CallFunction(i) /\ i > 0
                 \/ Propagate(i)
                 \/ PassOn(i) /\ i < Last
                 \/ ReturnOwn(i) /\ i = Last
                 \/ ReturnNext(i) /\ i < Last
         \/ \E i \in Index : i \in 0..Last /\ EndTask(i)
<1>. USE ChainFacts, ChainAssumption DEF Index
<1>1. CASE ProcessTask \/ ProcessOnlyTask
  <2>1. 0 \in Index /\ 0 \in First..Last
    BY <1>1 DEF ProcessTask, ProcessOnlyTask
  <2>2. \/ RunStartingTask /\ IsTask
        \/ Propagate(0)
        \/ PassOn(0) /\ 0 < Last
        \/ ReturnOwn(0) /\ 0 = Last
        \/ ReturnNext(0) /\ 0 < Last
    BY <1>1 DEF ProcessTask, ProcessOnlyTask
  <2>. QED BY <2>1, <2>2
<1>2. ASSUME NEW i \in 1..Last,
             \/ ProcessValue(i) \/ ProcessLastValue(i)
             \/ ProcessVoid(i) \/ ProcessLastVoid(i)
      PROVE  \E j \in Index :
               /\ j \in First..Last
               /\ \/ CallFunction(j) /\ j > 0
                  \/ Propagate(j)
                  \/ PassOn(j) /\ j < Last
                  \/ ReturnOwn(j) /\ j = Last
                  \/ ReturnNext(j) /\ j < Last
  <2>1. i \in Index /\ i \in First..Last
    OBVIOUS
  <2>. QED BY <1>2, <2>1
              DEF ProcessValue, ProcessLastValue, ProcessVoid, ProcessLastVoid
<1>3. ASSUME NEW i \in 0..Last, EndTask(i)
      PROVE  \E j \in Index : j \in 0..Last /\ EndTask(j)
  BY <1>3
<1>. QED BY <1>1, <1>2, <1>3 DEF Next, Runs


-----------------------------------------------------------------------------
(* Who has control. *)

LEMMA DownElsewhere ==
  ASSUME TypeOK, NEW k \in First..Last, Down(k), NEW i \in Index, i # k
  PROVE  process[i] \in {"awaits_next", "none"} /\ task[i] \in {"done", "none"}
<1>1. CASE i \in First..(k-1)
  BY <1>1 DEF Down, Suspended, PassedOn
<1>2. CASE i < First \/ i > k
  BY <1>2 DEF Down, Outside, Pristine, Untouched
<1>. QED BY <1>1, <1>2, ChainFacts, ChainAssumption DEF Index

LEMMA UpElsewhere ==
  ASSUME TypeOK, NEW k \in (First-1)..Last, NEW m \in Index, Up(k, m),
         NEW i \in Index
  PROVE  /\ task[i] # "running"
         /\ \/ process[i] \in {"awaits_next", "none", "done", "destroyed"}
            \/ process[i] = "back" /\ i = k /\ i >= First
<1>1. CASE i \in First..(k-1)
  BY <1>1 DEF Up, Suspended, PassedOn
<1>2. CASE i < First \/ i > m
  BY <1>2 DEF Up, Outside, Pristine, Untouched
<1>3. CASE i = k /\ i >= First
  BY <1>3 DEF Up, PassedOn
<1>4. CASE i \in (k+1)..m
  <2>1. task[i] # "running"
    BY <1>4 DEF Up
  <2>2. i = k+1 \/ i \in (k+2)..m
    <3>1. First \in Int /\ Last \in Int
      BY ChainFacts, ChainAssumption DEF Index
    <3>2. k \in Int /\ m \in Int /\ i \in Int
      BY <3>1, ChainAssumption DEF Index
    <3>. QED BY <1>4, <3>2
  <2>. QED BY <2>1, <2>2 DEF Up
<1>5. First \in Int /\ Last \in Int /\ i \in Int /\ m \in Int
  BY ChainFacts, ChainAssumption DEF Index
<1>6. \/ i \in First..(k-1) \/ i < First \/ i > m
      \/ i = k /\ i >= First
      \/ i \in (k+1)..m
  BY <1>5
<1>. QED BY <1>1, <1>2, <1>3, <1>4, <1>6

LEMMA ActiveCaller ==
  ASSUME IInv, NEW i \in Index,
         \/ process[i] \in {"begin", "has_result", "back"} \/ task[i] = "running"
  PROVE  caller = "awaits"
<1>1. caller \notin {"chains", "threw"}
  BY DEF IInv, ControlInv, Untouched
<1>2. caller # "answered"
  BY DEF IInv, ControlInv
<1>3. caller # "ended"
  BY DEF IInv, FramesGone
<1>4. caller # "resumed"
  <2>1. ASSUME NEW m \in Index, Up(First-1, m) PROVE FALSE
    <3>1. First-1 \in (First-1)..Last /\ First \in Int
      <4>1. First \in {0, 1} /\ Last \in 0..MaxFunctions
        BY ChainFacts DEF Index, IInv
      <4>. QED BY <4>1, ChainAssumption
    <3>2. /\ task[i] # "running"
          /\ \/ process[i] \in {"awaits_next", "none", "done", "destroyed"}
             \/ process[i] = "back" /\ i = First-1 /\ i >= First
      BY <2>1, <3>1, UpElsewhere DEF IInv
    <3>. QED BY <3>1, <3>2
  <2>2. caller = "resumed" => \E m \in Index : Up(First-1, m)
    BY DEF IInv, ControlInv
  <2>. QED BY <2>1, <2>2
<1>. QED BY <1>1, <1>2, <1>3, <1>4 DEF IInv, TypeOK

LEMMA WhoIsDown ==
  ASSUME IInv, NEW i \in Index,
         process[i] \in {"begin", "has_result"} \/ task[i] = "running"
  PROVE  /\ caller = "awaits" /\ answer = Unset
         /\ i \in First..Last /\ Down(i)
<1>1. caller = "awaits"
  BY ActiveCaller
<1>2. answer = Unset
  BY <1>1 DEF IInv, ControlInv
<1>0. First \in {0, 1} /\ Last \in Int
  BY ChainFacts, ChainAssumption DEF Index, IInv
<1>3. PICK k \in First..Last : Down(k) \/ \E m \in Index : Up(k, m)
  BY <1>1 DEF IInv, ControlInv
<1>4. ~\E m \in Index : Up(k, m)
  <2>. SUFFICES ASSUME NEW m \in Index, Up(k, m) PROVE FALSE
    OBVIOUS
  <2>1. k \in (First-1)..Last
    BY <1>0
  <2>. QED BY <2>1, UpElsewhere DEF IInv
<1>5. i = k
  BY <1>3, <1>4, DownElsewhere DEF IInv
<1>. QED BY <1>1, <1>2, <1>3, <1>4, <1>5

LEMMA WhoIsBack ==
  ASSUME IInv, NEW i \in Index, process[i] = "back"
  PROVE  /\ caller = "awaits" /\ answer = Unset
         /\ i \in First..Last /\ \E m \in Index : Up(i, m)
<1>1. caller = "awaits"
  BY ActiveCaller
<1>2. answer = Unset
  BY <1>1 DEF IInv, ControlInv
<1>0. First \in {0, 1} /\ Last \in Int
  BY ChainFacts, ChainAssumption DEF Index, IInv
<1>3. PICK k \in First..Last : Down(k) \/ \E m \in Index : Up(k, m)
  BY <1>1 DEF IInv, ControlInv
<1>4. ~Down(k)
  <2>. SUFFICES ASSUME Down(k) PROVE FALSE
    OBVIOUS
  <2>1. CASE i = k
    BY <2>1 DEF Down, Begins, Busy, Ended
  <2>2. CASE i # k
    BY <2>2, DownElsewhere DEF IInv
  <2>. QED BY <2>1, <2>2
<1>5. i = k
  <2>1. k \in (First-1)..Last
    BY <1>0
  <2>. QED BY <1>3, <1>4, <2>1, UpElsewhere DEF IInv
<1>. QED BY <1>1, <1>2, <1>3, <1>4, <1>5


-----------------------------------------------------------------------------
(* The types. *)

LEMMA InitIInv == Init => IInv
<1>. SUFFICES ASSUME Init PROVE IInv
  OBVIOUS
<1>. USE ChainAssumption
<1>1. types \in [1..0 -> {"value", "void"}] /\ 0 \in Index
  BY DEF Init, Index
<1>2. Last = 0
  BY <1>1, LastIs
<1>3. TypeOK
  BY <1>1, DatumFacts DEF Init, TypeOK
<1>4. FramesGone
  BY DEF Init, FramesGone
<1>5. ControlInv
  BY DEF Init, ControlInv, Untouched
<1>6. PlaceInv
  BY <1>2, DatumFacts DEF Init, PlaceInv, Places, OnlyPlace, Index
<1>. QED BY <1>3, <1>4, <1>5, <1>6 DEF IInv

\* The result the caller of a chain finds.
LEMMA CallerFinds ==
  ASSUME IInv, caller = "resumed"
  PROVE  /\ First <= Last /\ process[First] = "done"
         /\ \/ result[First] = Error
            \/ result[First] = Returned(Last) /\ Last \in Index
<1>0. First \in {0, 1} /\ Last \in Index /\ Last \in Int
  BY ChainFacts, ChainAssumption DEF Index, IInv
<1>1. PICK m \in Index : Up(First-1, m)
  BY DEF IInv, ControlInv
<1>2. (First-1) + 1 = First
  BY <1>0
<1>3. /\ m \in First..Last /\ process[First] = "done"
      /\ result[First] \in {Error, Returned(Last)}
  BY <1>1, <1>2 DEF Up
<1>. QED BY <1>0, <1>3

LEMMA ReturnedType ==
  ASSUME NEW i \in Index
  PROVE  Returned(i) \in Datum \ {Moved, Unset, Error}
BY DatumFacts, ChainAssumption DEF Returned, Index

LEMMA TypeStep == IInv /\ Next => TypeOK'
<1>. SUFFICES ASSUME IInv, Next PROVE TypeOK'
  OBVIOUS
<1>. USE ChainAssumption DEF Index
<1>1. TypeOK
  BY DEF IInv
<1>0. /\ param \in [Index -> Datum] /\ input \in [Index -> Datum]
      /\ output \in [Index -> Datum] /\ result \in [Index -> Datum]
  BY <1>1 DEF TypeOK
<1>2. /\ Last \in 0..MaxFunctions /\ types \in [1..Last -> {"value", "void"}]
      /\ First \in {0, 1}
  BY <1>1, ChainFacts
<1>3. ASSUME NEW r \in {"value", "void"}, AndThen(r) PROVE TypeOK'
  <2>1. Last + 1 \in Index /\ types' \in [1..(Last+1) -> {"value", "void"}]
    BY <1>2, <1>3 DEF AndThen, Extended
  <2>. QED BY <1>1, <1>3, <2>1 DEF AndThen, TypeOK
<1>4. ASSUME AndThenVoid PROVE TypeOK'
  <2>1. Last + 1 \in Index /\ types' \in [1..(Last+1) -> {"value", "void"}]
    BY <1>2, <1>4 DEF AndThenVoid, Extended
  <2>. QED BY <1>1, <1>4, <2>1 DEF AndThenVoid, TypeOK
<1>5. ASSUME EndOfScope PROVE TypeOK'
  BY <1>1, <1>5 DEF EndOfScope, TypeOK
<1>6. ASSUME CoAwait PROVE TypeOK'
  <2>1. param' \in [Index -> Datum]
    BY <1>0, <1>6, DatumFacts DEF CoAwait
  <2>. QED BY <1>1, <1>2, <1>6, <2>1 DEF CoAwait, TypeOK
<1>7. ASSUME AwaitResume PROVE TypeOK'
  <2>1. result[First] \in Datum \ {Moved}
    BY <1>7, CallerFinds, ReturnedType, DatumFacts DEF AwaitResume
  <2>2. result' \in [Index -> Datum]
    BY <1>0, <1>7, DatumFacts DEF AwaitResume
  <2>. QED BY <1>1, <1>2, <1>7, <2>1, <2>2 DEF AwaitResume, TypeOK
<1>8. ASSUME RunStartingTask PROVE TypeOK'
  <2>1. input' \in [Index -> Datum]
    BY <1>8, <1>0, DatumFacts DEF RunStartingTask
  <2>. QED BY <1>1, <1>8, <2>1 DEF RunStartingTask, TypeOK
<1>9. ASSUME NEW i \in Index, NEW r \in Datum, NEW results \in [Index -> Datum],
             Finish(i, r, results)
      PROVE  /\ result' \in [Index -> Datum]
             /\ task' \in [Index -> {"none", "created", "running", "done", "destroyed"}]
             /\ process' \in [Index -> {"none", "begin", "awaits_task", "has_result",
                                        "awaits_next", "back", "done", "destroyed"}]
             /\ caller' \in {"chains", "awaits", "resumed", "answered", "threw", "ended"}
  <2>1. Unwound(i) \in [Index -> {"none", "begin", "awaits_task", "has_result",
                                  "awaits_next", "back", "done", "destroyed"}]
    BY <1>1 DEF Unwound, TypeOK
  <2>2. process' \in {Unwound(i), BackTo(i)}
    BY <1>9 DEF Finish
  <2>. QED BY <1>1, <1>9, <2>1, <2>2 DEF Finish, BackTo, TypeOK
<1>10. ASSUME NEW i \in Index, i \in First..Last, CallFunction(i) PROVE TypeOK'
  <2>1. input' \in [Index -> Datum] /\ param' \in [Index -> Datum]
    BY <1>1, <1>10, DatumFacts DEF CallFunction, TypeOK
  <2>2. CASE Finish(i, Error, result) /\ output' = [output EXCEPT ![i] = Error]
    <3>1. output' \in [Index -> Datum]
      BY <1>1, <2>2, DatumFacts DEF TypeOK
    <3>2. Error \in Datum /\ result \in [Index -> Datum]
      BY <1>1, DatumFacts DEF TypeOK
    <3>. QED BY <1>1, <1>9, <1>10, <2>1, <2>2, <3>1, <3>2 DEF CallFunction, TypeOK
  <2>3. CASE /\ process' = [process EXCEPT ![i] = "awaits_task"]
             /\ task' = [task EXCEPT ![i] = "running"]
             /\ UNCHANGED <<caller, output, result>>
    BY <1>1, <1>10, <2>1, <2>3 DEF CallFunction, TypeOK
  <2>. QED BY <1>10, <2>2, <2>3 DEF CallFunction
<1>11. ASSUME NEW i \in Index, Propagate(i) PROVE TypeOK'
  <2>1. Error \in Datum /\ result \in [Index -> Datum]
    BY <1>1, DatumFacts DEF TypeOK
  <2>. QED BY <1>1, <1>9, <1>11, <2>1 DEF Propagate, TypeOK
<1>12. ASSUME NEW i \in Index, i < Last, PassOn(i) PROVE TypeOK'
  <2>1. i + 1 \in Index
    BY <1>2, <1>12
  <2>2. output' \in [Index -> Datum] /\ param' \in [Index -> Datum]
    BY <1>1, <1>12, <2>1, DatumFacts DEF PassOn, MovedOut, NewValue, TypeOK
  <2>. QED BY <1>1, <1>12, <2>1, <2>2 DEF PassOn, Awaited, TypeOK
<1>13. ASSUME NEW i \in Index, ReturnOwn(i) PROVE TypeOK'
  <2>1. output[i] \in Datum /\ result \in [Index -> Datum]
    BY <1>1 DEF TypeOK
  <2>2. output' \in [Index -> Datum]
    BY <1>1, <1>13, DatumFacts DEF ReturnOwn, MovedOut, TypeOK
  <2>. QED BY <1>1, <1>9, <1>13, <2>1, <2>2 DEF ReturnOwn, TaskResult, TypeOK
<1>14. ASSUME NEW i \in Index, i < Last, ReturnNext(i) PROVE TypeOK'
  <2>. DEFINE results == IF result[i+1] = Value(Last)
                         THEN [result EXCEPT ![i+1] = Moved] ELSE result
  <2>1. i + 1 \in Index
    BY <1>2, <1>14
  <2>2. result[i+1] \in Datum /\ results \in [Index -> Datum]
    BY <1>1, <2>1, DatumFacts DEF TypeOK
  <2>3. Finish(i, result[i+1], results)
    BY <1>14 DEF ReturnNext, NextResult
  <2>. HIDE DEF results
  <2>. QED BY <1>1, <1>9, <1>14, <2>2, <2>3 DEF ReturnNext, TypeOK
<1>15. ASSUME NEW i \in Index, EndTask(i) PROVE TypeOK'
  <2>1. output' \in [Index -> Datum]
    BY <1>0, <1>15, DatumFacts, ReturnedType DEF EndTask
  <2>. QED BY <1>1, <1>15, <2>1 DEF EndTask, TypeOK
<1>. HIDE DEF Index
<1>. QED BY <1>1, NextCases, <1>3, <1>4, <1>5, <1>6, <1>7, <1>8, <1>10, <1>11,
            <1>12, <1>13, <1>14, <1>15


-----------------------------------------------------------------------------
(* Control. *)

\* A process_tasks ends: its result goes up.  Function m is the last one that
\* was called.
LEMMA GoesUp ==
  ASSUME IInv, start' = start, types' = types,
         caller = "awaits", answer = Unset, answer' = answer,
         NEW i \in First..Last, NEW m \in i..Last,
         NEW r, NEW results \in [Index -> Datum], Finish(i, r, results),
         Suspended(i), Outside(m),
         \A j \in Index : j < i \/ j > m =>
           /\ param'[j] = param[j] /\ input'[j] = input[j]
           /\ output'[j] = output[j] /\ results[j] = result[j],
         i < m => process[i+1] = "done",
         \A j \in (i+2)..m : process[j] = "destroyed",
         task[i] \in IF i = 0 THEN {"done"} ELSE {"none", "done"},
         \A j \in (i+1)..m : task[j] \in {"none", "destroyed"},
         \A j \in i..m : input'[j] = Given(j),
         \A j \in i..(m-1) : output'[j] # Error,
         \/ output'[m] = Error /\ r = Error
         \/ m = Last /\ output'[m] # Error /\ r = Returned(Last)
  PROVE  FramesGone' /\ ControlInv'
<1>. USE ChainAssumption
<1>1. /\ process \in [Index -> {"none", "begin", "awaits_task", "has_result",
                                "awaits_next", "back", "done", "destroyed"}]
      /\ task \in [Index -> {"none", "created", "running", "done", "destroyed"}]
  BY DEF IInv, TypeOK
<1>2. /\ First \in {0, 1} /\ Last \in 0..MaxFunctions /\ Index = 0..MaxFunctions
      /\ i \in Int /\ m \in Int /\ i \in Index /\ m \in Index
  BY ChainFacts DEF IInv, Index
<1>3. /\ First' = First /\ Last' = Last
      /\ \A j \in Int : Given(j)' = Given(j) /\ Returned(j)' = Returned(j)
  BY SameChain
<1>4. \A j \in Index : result'[j] = IF j = i THEN r ELSE results[j]
  BY <1>2 DEF Finish
<1>5. \A j \in Index : task'[j] = IF j = i /\ i > 0 /\ task[i] # "none"
                                  THEN "destroyed" ELSE task[j]
  BY <1>1, <1>2 DEF Finish
<1>6. \A j \in Index :
        process'[j] = IF j = i THEN "done"
                      ELSE IF j = i + 1 /\ process[j] # "none" THEN "destroyed"
                      ELSE IF j = i - 1 /\ i # First THEN "back"
                      ELSE process[j]
  <2>1. Unwound(i) = [j \in Index |->
                        IF j = i THEN "done"
                        ELSE IF j = i + 1 /\ process[j] # "none" THEN "destroyed"
                        ELSE process[j]]
    BY DEF Unwound
  <2>2. CASE i = First
    <3>1. process' = Unwound(i)
      BY <2>2 DEF Finish
    <3>. QED BY <2>1, <2>2, <3>1
  <2>3. CASE i # First
    <3>1. process' = [Unwound(i) EXCEPT ![i-1] = "back"]
      BY <2>3 DEF Finish, BackTo
    <3>2. i-1 \in Index /\ i-1 # i /\ i-1 # i+1
      BY <2>3, <1>2
    <3>3. \A j \in Index : process'[j] = IF j = i-1 THEN "back" ELSE Unwound(i)[j]
      BY <2>1, <3>1, <3>2
    <3>4. \A j \in Index : Unwound(i)[j] =
                         IF j = i THEN "done"
                         ELSE IF j = i + 1 /\ process[j] # "none" THEN "destroyed"
                         ELSE process[j]
      BY <2>1
    <3>. QED BY <2>3, <3>2, <3>3, <3>4
  <2>. QED BY <2>2, <2>3
<1>7. \A j \in Index : j < First \/ j > m => Pristine(j)
  BY DEF Outside
<1>8. ASSUME NEW j \in First..(i-1)
      PROVE  PassedOn(j)' /\ process[j] = "awaits_next"
  <2>1. j \in Index /\ j < i /\ j # i
    BY <1>2
  <2>2. process[j] = "awaits_next" /\ PassedOn(j)
    BY DEF Suspended
  <2>. QED BY <1>2, <1>3, <1>4, <1>5, <2>1, <2>2 DEF PassedOn, Moved, Void, Unset
<1>9. Suspended(i-1)'
  <2>. SUFFICES ASSUME NEW j \in First..(i-1-1)
                PROVE  process'[j] = "awaits_next" /\ PassedOn(j)'
    BY <1>3 DEF Suspended
  <2>1. j \in First..(i-1) /\ j \in Index /\ j < i-1
    BY <1>2
  <2>. QED BY <1>2, <1>6, <1>8, <2>1
<1>10. i-1 >= First' => process'[i-1] = "back" /\ PassedOn(i-1)'
  BY <1>2, <1>3, <1>6, <1>8
<1>11. process'[i] = "done" /\ \A j \in (i+1)..m : process'[j] = "destroyed"
  <2>1. process'[i] = "done"
    BY <1>2, <1>6
  <2>2. ASSUME NEW j \in (i+1)..m PROVE process'[j] = "destroyed"
    <3>1. j \in Index /\ j > i /\ i < m
      BY <1>2
    <3>2. j = i+1 \/ j \in (i+2)..m
      BY <1>2, <3>1
    <3>. QED BY <1>2, <1>6, <3>1, <3>2
  <2>. QED BY <2>1, <2>2
<1>12. \A j \in i..m : /\ task'[j] \in IF j = 0 THEN {"done"} ELSE {"none", "destroyed"}
                       /\ input'[j] = Given(j)'
  <2>. SUFFICES ASSUME NEW j \in i..m
                PROVE  /\ task'[j] \in IF j = 0 THEN {"done"} ELSE {"none", "destroyed"}
                       /\ input'[j] = Given(j)'
    OBVIOUS
  <2>1. j \in Int /\ j >= i /\ j <= m /\ i >= 0 /\ j \in Index
    BY <1>2
  <2>2. j = i \/ (j \in (i+1)..m /\ j > 0)
    BY <1>2, <2>1
  <2>3. task'[j] \in IF j = 0 THEN {"done"} ELSE {"none", "destroyed"}
    <3>1. CASE j = i
      BY <1>2, <1>5, <2>1, <3>1
    <3>2. CASE j # i
      BY <1>5, <2>1, <2>2, <3>2
    <3>. QED BY <3>1, <3>2
  <2>4. input'[j] = Given(j)'
    BY <1>3, <2>1
  <2>. QED BY <2>3, <2>4
<1>13. \/ output'[m] = Error' /\ result'[i] = Error'
       \/ m = Last' /\ output'[m] # Error' /\ result'[i] = Returned(Last)'
  BY <1>2, <1>3, <1>4 DEF Error
<1>14. Outside(m)'
  <2>. SUFFICES ASSUME NEW j \in Index, j < First \/ j > m PROVE Pristine(j)'
    BY <1>3 DEF Outside
  <2>1. Pristine(j) /\ j # i /\ (j < i \/ j > m)
    BY <1>2, <1>7
  <2>2. process'[j] = process[j]
    BY <1>2, <1>6, <2>1 DEF Pristine, Untouched
  <2>. QED BY <1>2, <1>4, <1>5, <2>1, <2>2 DEF Pristine, Untouched, Unset
<1>15. Up(i-1, m)'
  <2>1. (i-1)+1 = i /\ (i-1)+2 = i+1 /\ m \in i..Last'
    BY <1>2, <1>3
  <2>2. \A j \in i..(m-1) : output'[j] # Error'
    BY DEF Error
  <2>. QED BY <2>1, <2>2, <1>9, <1>10, <1>11, <1>12, <1>13, <1>14 DEF Up
<1>16. FramesGone' /\ answer' = Unset'
  BY DEF Finish, FramesGone, Unset
<1>17. CASE i = First
  <2>1. caller' = "resumed"
    BY <1>17 DEF Finish
  <2>2. Up(First-1, m)'
    BY <1>3, <1>15, <1>17
  <2>. QED BY <1>2, <1>16, <2>1, <2>2 DEF ControlInv
<1>18. CASE i # First
  <2>1. caller' = "awaits"
    BY <1>18 DEF Finish
  <2>2. i-1 \in First'..Last'
    BY <1>2, <1>3, <1>18
  <2>. QED BY <1>2, <1>15, <1>16, <2>1, <2>2 DEF ControlInv
<1>. QED BY <1>17, <1>18


\* Facts every step below uses.
LEMMA StepFacts ==
  ASSUME IInv
  PROVE  /\ First \in {0, 1} /\ Last \in Index /\ Index = 0..MaxFunctions
         /\ First \in Int /\ Last \in Int /\ MaxFunctions \in Nat
         /\ process \in [Index -> {"none", "begin", "awaits_task", "has_result",
                                   "awaits_next", "back", "done", "destroyed"}]
         /\ task \in [Index -> {"none", "created", "running", "done", "destroyed"}]
         /\ param \in [Index -> Datum] /\ input \in [Index -> Datum]
         /\ output \in [Index -> Datum] /\ result \in [Index -> Datum]
<1>1. TypeOK
  BY DEF IInv
<1>2. /\ First \in {0, 1} /\ Last \in 0..MaxFunctions
      /\ First \in Int /\ Last \in Int /\ MaxFunctions \in Nat
  BY <1>1, ChainFacts, ChainAssumption DEF Index
<1>. QED BY <1>1, <1>2 DEF TypeOK, Index

LEMMA ControlAndThen ==
  ASSUME IInv, (\E r \in {"value", "void"} : AndThen(r)) \/ AndThenVoid
  PROVE  FramesGone' /\ ControlInv'
<1>1. /\ caller = "chains" /\ caller' = caller /\ start' = start
      /\ UNCHANGED <<process, param, task, input, output, result, answer>>
  BY DEF AndThen, AndThenVoid
<1>2. IsTask' = IsTask
  BY <1>1 DEF IsTask
<1>3. /\ answer = Unset
      /\ \A i \in Index :
           /\ Untouched(i)
           /\ task[i] = IF i = 0 /\ IsTask THEN "created" ELSE "none"
  BY <1>1 DEF IInv, ControlInv
<1>4. \A i \in Index : Untouched(i)'
  BY <1>1, <1>3 DEF Untouched, Unset
<1>. QED BY <1>1, <1>2, <1>3, <1>4 DEF FramesGone, ControlInv, Unset

LEMMA ControlEndOfScope ==
  ASSUME IInv, EndOfScope
  PROVE  FramesGone' /\ ControlInv'
<1>1. \A i \in Index : /\ process[i] \in {"none", "destroyed"}
                       /\ (i = 0 /\ IsTask) \/ task[i] \in {"none", "destroyed"}
  <2>1. CASE caller \in {"chains", "threw"}
    BY <2>1 DEF IInv, ControlInv, Untouched
  <2>2. CASE caller = "answered"
    BY <2>2 DEF IInv, ControlInv
  <2>. QED BY <2>1, <2>2 DEF EndOfScope
<1>2. \A i \in Index : task'[i] \in {"none", "destroyed"}
  BY <1>1, StepFacts DEF EndOfScope
<1>. QED BY <1>1, <1>2 DEF EndOfScope, FramesGone, ControlInv

LEMMA ControlCoAwait ==
  ASSUME IInv, CoAwait
  PROVE  FramesGone' /\ ControlInv'
<1>1. /\ answer = Unset
      /\ \A i \in Index :
           /\ Untouched(i)
           /\ task[i] = IF i = 0 /\ IsTask THEN "created" ELSE "none"
  BY DEF IInv, ControlInv, CoAwait
<1>2. First' = First /\ Last' = Last /\ IsTask' = IsTask
  BY SameChain DEF CoAwait
<1>3. FramesGone'
  BY DEF CoAwait, FramesGone
<1>4. CASE start = "exception"
  <2>1. caller' = "threw" /\ ~IsTask'
    BY <1>4 DEF CoAwait, IsTask
  <2>2. \A i \in Index : Untouched(i)'
    BY <1>1, <1>4 DEF CoAwait, Untouched, Unset
  <2>. QED BY <1>1, <1>2, <1>3, <2>1, <2>2 DEF ControlInv, CoAwait, Unset
<1>5. CASE start # "exception"
  <2>1. /\ caller' = "awaits"
        /\ process' = [process EXCEPT ![First] = "begin"]
        /\ param' = IF IsTask THEN param ELSE [param EXCEPT ![1] = Value(0)]
    BY <1>5 DEF CoAwait
  <2>2. First \in First..Last /\ First \in Index
    BY StepFacts, ChainFacts DEF CoAwait, IInv
  <2>3. \A i \in Index : i # First => Pristine(i)'
    <3>. SUFFICES ASSUME NEW i \in Index, i # First PROVE Pristine(i)'
      OBVIOUS
    <3>1. process'[i] = "none" /\ task'[i] = "none"
      BY <1>1, <2>1, StepFacts, ChainFacts DEF CoAwait, Untouched, IInv
    <3>2. param'[i] = param[i]
      BY <2>1, StepFacts, ChainFacts DEF IInv
    <3>. QED BY <1>1, <3>1, <3>2 DEF CoAwait, Pristine, Untouched, Unset
  <2>4. Begins(First)'
    <3>1. process'[First] = "begin" /\ task'[First] = IF First = 0 THEN "created" ELSE "none"
      BY <1>1, <2>1, <2>2, StepFacts, ChainFacts DEF CoAwait, IInv
    <3>2. TakesValue(First) => param'[First] = Value(First-1)
      BY <2>1, <2>2, StepFacts, ChainFacts DEF TakesValue, IInv
    <3>3. input[First] = Unset /\ output[First] = Unset
      BY <1>1, <2>2 DEF Untouched
    <3>4. TakesValue(First)' = TakesValue(First)
      BY SameChain, StepFacts DEF CoAwait
    <3>. QED BY <1>2, <3>1, <3>2, <3>3, <3>4 DEF Begins, CoAwait, Unset, Value
  <2>5. Suspended(First)'
    BY <1>2, StepFacts DEF Suspended
  <2>6. Down(First)'
    BY <1>1, <1>2, <2>2, <2>3, <2>4, <2>5, StepFacts
       DEF Down, Outside, CoAwait, Untouched, Unset
  <2>. QED BY <1>1, <1>2, <1>3, <2>1, <2>2, <2>6 DEF ControlInv, CoAwait, Unset
<1>. QED BY <1>4, <1>5

LEMMA ControlAwaitResume ==
  ASSUME IInv, AwaitResume
  PROVE  FramesGone' /\ ControlInv'
<1>0. First \in Index /\ (IsTask <=> First = 0)
  BY StepFacts, ChainFacts, CallerFinds DEF AwaitResume, IInv
<1>1. PICK m \in Index : Up(First-1, m)
  BY DEF IInv, ControlInv, AwaitResume
<1>2. (First-1) + 1 = First /\ (First-1) + 2 = First + 1
  BY StepFacts
<1>3. \A i \in Index : i = First \/ process[i] \in {"none", "destroyed"}
  <2>. SUFFICES ASSUME NEW i \in Index, i # First
                PROVE  process[i] \in {"none", "destroyed"}
    OBVIOUS
  <2>1. i < First \/ i > m \/ i \in (First+1)..m
    BY StepFacts
  <2>. QED BY <1>1, <1>2, <2>1 DEF Up, Outside, Pristine, Untouched
<1>4. \A i \in Index : task[i] \in IF i = 0 /\ IsTask THEN {"done"}
                                   ELSE {"none", "destroyed"}
  <2>. SUFFICES ASSUME NEW i \in Index
                PROVE  task[i] \in IF i = 0 /\ IsTask THEN {"done"}
                                   ELSE {"none", "destroyed"}
    OBVIOUS
  <2>1. CASE i < First \/ i > m
    <3>1. ~(i = 0 /\ IsTask)
      BY <1>0, <2>1, StepFacts
    <3>. QED BY <1>1, <2>1, <3>1 DEF Up, Outside, Pristine
  <2>2. CASE i \in First..m
    <3>1. task[i] \in IF i = 0 THEN {"done"} ELSE {"none", "destroyed"}
      BY <1>1, <1>2, <2>2 DEF Up
    <3>2. i = 0 => IsTask
      BY <1>0, <2>2, StepFacts
    <3>. QED BY <3>1, <3>2
  <2>. QED BY <2>1, <2>2, StepFacts
<1>5. \A i \in Index : process'[i] \in {"none", "destroyed"}
  BY <1>0, <1>3, StepFacts DEF AwaitResume
<1>6. answer' # Unset'
  BY CallerFinds, ReturnedType, DatumFacts DEF AwaitResume, Unset
<1>7. IsTask' = IsTask
  BY DEF AwaitResume, IsTask
<1>. QED BY <1>4, <1>5, <1>6, <1>7 DEF AwaitResume, FramesGone, ControlInv


\* What Down says of the coroutines other than k does not change when only k's
\* frame changes.
LEMMA DownStays ==
  ASSUME IInv, start' = start, types' = types,
         NEW k \in First..Last, Down(k),
         \A j \in Index : j # k =>
           /\ process'[j] = process[j] /\ task'[j] = task[j]
           /\ param'[j] = param[j] /\ input'[j] = input[j]
           /\ output'[j] = output[j] /\ result'[j] = result[j]
  PROVE  Suspended(k)' /\ Outside(k)'
<1>1. /\ First' = First /\ Last' = Last
      /\ \A j \in Int : Given(j)' = Given(j)
  BY SameChain
<1>2. ASSUME NEW j \in First..(k-1)
      PROVE  process'[j] = "awaits_next" /\ PassedOn(j)'
  <2>1. j \in Index /\ j # k /\ j \in Int
    BY StepFacts
  <2>. QED BY <1>1, <2>1 DEF Down, Suspended, PassedOn, Moved, Void, Unset
<1>3. ASSUME NEW j \in Index, j < First \/ j > k
      PROVE  Pristine(j)'
  <2>1. j # k
    BY <1>3, StepFacts
  <2>. QED BY <1>3, <2>1 DEF Down, Outside, Pristine, Untouched, Unset
<1>. QED BY <1>1, <1>2, <1>3 DEF Suspended, Outside

LEMMA ControlCallFunction ==
  ASSUME IInv, NEW i \in Index, i > 0, CallFunction(i)
  PROVE  FramesGone' /\ ControlInv'
<1>1. /\ caller = "awaits" /\ answer = Unset
      /\ i \in First..Last /\ Down(i) /\ i \in Int
  BY WhoIsDown, StepFacts DEF CallFunction
<1>2. Begins(i) /\ result[i] = Unset
  BY <1>1 DEF Down, Begins, Busy, Ended, CallFunction
<1>3. input'[i] = Given(i)
  BY <1>2, StepFacts DEF CallFunction, Begins, Given
<1>4. \A j \in Index : j # i => input'[j] = input[j] /\ param'[j] = param[j]
  BY StepFacts DEF CallFunction
<1>5. CASE /\ process' = [process EXCEPT ![i] = "awaits_task"]
           /\ task' = [task EXCEPT ![i] = "running"]
           /\ UNCHANGED <<caller, output, result>>
  <2>1. \A j \in Index : j # i => process'[j] = process[j] /\ task'[j] = task[j]
    BY <1>5, StepFacts
  <2>2. Suspended(i)' /\ Outside(i)'
    <3>1. \A j \in Index : j # i => /\ output'[j] = output[j]
                                    /\ result'[j] = result[j]
      BY <1>5
    <3>. QED BY <1>1, <1>4, <2>1, <3>1, DownStays DEF CallFunction
  <2>3. First' = First /\ Last' = Last /\ Given(i)' = Given(i)
    BY <1>1, SameChain DEF CallFunction
  <2>4. Busy(i)'
    BY <1>2, <1>3, <1>5, <2>3, StepFacts DEF Busy, Begins, Unset
  <2>5. Down(i)'
    BY <1>2, <1>5, <2>2, <2>4 DEF Down, Unset
  <2>6. answer' = Unset' /\ caller' = "awaits"
    BY <1>1, <1>5 DEF CallFunction, Unset
  <2>. QED BY <1>1, <2>3, <2>5, <2>6 DEF FramesGone, ControlInv
<1>6. CASE Finish(i, Error, result) /\ output' = [output EXCEPT ![i] = Error]
  <2>1. Suspended(i) /\ Outside(i) /\ task[i] = "none"
    BY <1>1, <1>2 DEF Down, Begins
  <2>2. i \in i..Last /\ result \in [Index -> Datum] /\ ~(i < i)
    BY <1>1, StepFacts
  <2>3. output'[i] = Error /\ \A j \in Index : j # i => output'[j] = output[j]
    BY <1>6, StepFacts
  <2>4. \A j \in Index : j < i \/ j > i =>
           /\ param'[j] = param[j] /\ input'[j] = input[j]
           /\ output'[j] = output[j] /\ result[j] = result[j]
    BY <1>1, <1>4, <2>3, StepFacts
  <2>5. /\ \A j \in (i+2)..i : process[j] = "destroyed"
        /\ \A j \in (i+1)..i : task[j] \in {"none", "destroyed"}
        /\ \A j \in i..i : input'[j] = Given(j)
        /\ \A j \in i..(i-1) : output'[j] # Error
    BY <1>1, <1>3
  <2>6. task[i] \in IF i = 0 THEN {"done"} ELSE {"none", "done"}
    BY <2>1
  <2>7. start' = start /\ types' = types /\ answer' = answer
    BY DEF CallFunction
  <2>. HIDE DEF CallFunction
  <2>. QED BY <1>1, <1>6, <2>1, <2>2, <2>3, <2>4, <2>5, <2>6, <2>7, GoesUp
<1>. QED BY <1>5, <1>6 DEF CallFunction

LEMMA ControlRunStartingTask ==
  ASSUME IInv, RunStartingTask
  PROVE  FramesGone' /\ ControlInv'
<1>0. 0 \in Index
  BY StepFacts
<1>1. /\ caller = "awaits" /\ answer = Unset
      /\ 0 \in First..Last /\ Down(0)
  BY <1>0, WhoIsDown DEF RunStartingTask
<1>2. Begins(0) /\ result[0] = Unset
  BY <1>1 DEF Down, Begins, Busy, Ended, RunStartingTask
<1>3. \A j \in Index : j # 0 =>
        /\ process'[j] = process[j] /\ task'[j] = task[j]
        /\ param'[j] = param[j] /\ input'[j] = input[j]
        /\ output'[j] = output[j] /\ result'[j] = result[j]
  BY StepFacts DEF RunStartingTask
<1>4. Suspended(0)' /\ Outside(0)'
  BY <1>1, <1>3, DownStays DEF RunStartingTask
<1>5. First' = First /\ Last' = Last /\ Given(0)' = Given(0)
  BY SameChain DEF RunStartingTask
<1>6. input'[0] = Given(0)
  BY <1>0, StepFacts DEF RunStartingTask, Given, TakesValue
<1>7. Busy(0)'
  BY <1>0, <1>2, <1>5, <1>6, StepFacts DEF Busy, Begins, RunStartingTask, Unset
<1>8. Down(0)'
  BY <1>2, <1>4, <1>7 DEF Down, RunStartingTask, Unset
<1>9. answer' = Unset' /\ caller' = "awaits"
  BY <1>1 DEF RunStartingTask, Unset
<1>. QED BY <1>1, <1>5, <1>8, <1>9 DEF FramesGone, ControlInv

LEMMA ControlEndTask ==
  ASSUME IInv, NEW i \in Index, EndTask(i)
  PROVE  FramesGone' /\ ControlInv'
<1>1. /\ caller = "awaits" /\ answer = Unset
      /\ i \in First..Last /\ Down(i) /\ i \in Int
  BY WhoIsDown, StepFacts DEF EndTask
<1>2. Busy(i) /\ result[i] = Unset
  BY <1>1 DEF Down, Begins, Busy, Ended, EndTask
<1>3. \A j \in Index : j # i =>
        /\ process'[j] = process[j] /\ task'[j] = task[j]
        /\ param'[j] = param[j] /\ input'[j] = input[j]
        /\ output'[j] = output[j] /\ result'[j] = result[j]
  BY StepFacts DEF EndTask
<1>4. Suspended(i)' /\ Outside(i)'
  BY <1>1, <1>3, DownStays DEF EndTask
<1>5. /\ First' = First /\ Last' = Last
      /\ Given(i)' = Given(i) /\ Returned(i)' = Returned(i)
  BY <1>1, SameChain DEF EndTask
<1>6. output'[i] \in {Returned(i), Error}
  BY StepFacts DEF EndTask
<1>7. Ended(i)'
  BY <1>2, <1>5, <1>6, StepFacts DEF Ended, Busy, EndTask, Error
<1>8. Down(i)'
  BY <1>2, <1>4, <1>7 DEF Down, EndTask, Unset
<1>9. answer' = Unset' /\ caller' = "awaits"
  BY <1>1 DEF EndTask, Unset
<1>. QED BY <1>1, <1>5, <1>8, <1>9 DEF FramesGone, ControlInv


\* A process_tasks that has its function's result.
LEMMA WhoHasResult ==
  ASSUME IInv, NEW i \in Index, process[i] = "has_result"
  PROVE  /\ caller = "awaits" /\ answer = Unset
         /\ i \in First..Last /\ Down(i) /\ i \in Int
         /\ Ended(i) /\ result[i] = Unset
         /\ Suspended(i) /\ Outside(i)
<1>1. /\ caller = "awaits" /\ answer = Unset
      /\ i \in First..Last /\ Down(i) /\ i \in Int
  BY WhoIsDown, StepFacts
<1>. QED BY <1>1 DEF Down, Begins, Busy, Ended

LEMMA ControlPropagate ==
  ASSUME IInv, NEW i \in Index, Propagate(i)
  PROVE  FramesGone' /\ ControlInv'
<1>1. /\ caller = "awaits" /\ answer = Unset
      /\ i \in First..Last /\ i \in Int
      /\ Ended(i) /\ Suspended(i) /\ Outside(i)
  BY WhoHasResult DEF Propagate
<1>2. Finish(i, Error, result) /\ output[i] = Error
  BY DEF Propagate, Failed
<1>3. i \in i..Last /\ result \in [Index -> Datum] /\ ~(i < i)
  BY <1>1, StepFacts
<1>4. /\ \A j \in (i+2)..i : process[j] = "destroyed"
      /\ \A j \in (i+1)..i : task[j] \in {"none", "destroyed"}
      /\ \A j \in i..i : input'[j] = Given(j)
      /\ \A j \in i..(i-1) : output'[j] # Error
  BY <1>1 DEF Ended, Propagate
<1>5. task[i] \in IF i = 0 THEN {"done"} ELSE {"none", "done"}
  BY <1>1 DEF Ended
<1>6. UNCHANGED <<start, types, param, input, output, answer>>
  BY DEF Propagate
<1>7. \A j \in Index : j < i \/ j > i =>
        /\ param'[j] = param[j] /\ input'[j] = input[j]
        /\ output'[j] = output[j] /\ result[j] = result[j]
  BY <1>6
<1>8. output'[i] = Error
  BY <1>2, <1>6
<1>. QED BY <1>1, <1>2, <1>3, <1>4, <1>5, <1>6, <1>7, <1>8, GoesUp

LEMMA ControlReturnOwn ==
  ASSUME IInv, NEW i \in Index, i = Last, ReturnOwn(i)
  PROVE  FramesGone' /\ ControlInv'
<1>1. /\ caller = "awaits" /\ answer = Unset
      /\ i \in First..Last /\ i \in Int
      /\ Ended(i) /\ Suspended(i) /\ Outside(i)
  BY WhoHasResult DEF ReturnOwn
<1>2. output[i] = Returned(i)
  BY <1>1 DEF ReturnOwn, Failed, Ended
<1>3. Finish(i, output[i], result)
  BY DEF ReturnOwn, TaskResult
<1>4. i \in i..Last /\ result \in [Index -> Datum] /\ ~(i < i)
  BY <1>1, StepFacts
<1>5. UNCHANGED <<start, types, param, input, answer>>
  BY DEF ReturnOwn
<1>6. /\ \A j \in (i+2)..i : process[j] = "destroyed"
      /\ \A j \in (i+1)..i : task[j] \in {"none", "destroyed"}
      /\ \A j \in i..i : input'[j] = Given(j)
      /\ \A j \in i..(i-1) : output'[j] # Error
  BY <1>1, <1>5 DEF Ended
<1>7. task[i] \in IF i = 0 THEN {"done"} ELSE {"none", "done"}
  BY <1>1 DEF Ended
<1>8. output' = MovedOut(i)
  BY DEF ReturnOwn
<1>9. \A j \in Index : j < i \/ j > i =>
        /\ param'[j] = param[j] /\ input'[j] = input[j]
        /\ output'[j] = output[j] /\ result[j] = result[j]
  BY <1>1, <1>5, <1>8, StepFacts DEF MovedOut
<1>10. output'[i] # Error
  BY <1>2, <1>8, ReturnedType, DatumFacts, StepFacts DEF MovedOut
<1>. QED BY <1>1, <1>2, <1>3, <1>4, <1>5, <1>6, <1>7, <1>9, <1>10, GoesUp

LEMMA ControlReturnNext ==
  ASSUME IInv, NEW i \in Index, i < Last, ReturnNext(i)
  PROVE  FramesGone' /\ ControlInv'
<1>. DEFINE results == IF result[i+1] = Value(Last)
                       THEN [result EXCEPT ![i+1] = Moved] ELSE result
<1>1. /\ caller = "awaits" /\ answer = Unset
      /\ i \in First..Last /\ i \in Int /\ i + 1 \in Index
  BY WhoIsBack, StepFacts DEF ReturnNext
<1>2. PICK m \in Index : Up(i, m)
  BY WhoIsBack DEF ReturnNext
<1>3. m \in (i+1)..Last /\ m \in i..Last /\ m \in Int
  BY <1>1, <1>2, StepFacts DEF Up
<1>4. /\ Suspended(i) /\ Outside(m) /\ PassedOn(i)
      /\ process[i+1] = "done" /\ \A j \in (i+2)..m : process[j] = "destroyed"
      /\ \A j \in (i+1)..m :
           /\ task[j] \in IF j = 0 THEN {"done"} ELSE {"none", "destroyed"}
           /\ input[j] = Given(j)
      /\ \A j \in (i+1)..(m-1) : output[j] # Error
      /\ \/ output[m] = Error /\ result[i+1] = Error
         \/ m = Last /\ output[m] # Error /\ result[i+1] = Returned(Last)
  BY <1>1, <1>2 DEF Up
<1>5. Finish(i, result[i+1], results)
  BY DEF ReturnNext, NextResult
<1>6. results \in [Index -> Datum]
  BY <1>1, StepFacts, DatumFacts
<1>7. UNCHANGED <<start, types, param, input, output, answer>>
  BY DEF ReturnNext
<1>8. \A j \in Index : j < i \/ j > m =>
        /\ param'[j] = param[j] /\ input'[j] = input[j]
        /\ output'[j] = output[j] /\ results[j] = result[j]
  BY <1>1, <1>3, <1>7, StepFacts
<1>9. task[i] \in IF i = 0 THEN {"done"} ELSE {"none", "done"}
  BY <1>4 DEF PassedOn
<1>10. \A j \in (i+1)..m : task[j] \in {"none", "destroyed"}
  <2>. SUFFICES ASSUME NEW j \in (i+1)..m PROVE task[j] \in {"none", "destroyed"}
    OBVIOUS
  <2>1. j # 0
    BY <1>1, <1>3, StepFacts
  <2>. QED BY <1>4, <2>1
<1>11. \A j \in i..m : input'[j] = Given(j)
  <2>. SUFFICES ASSUME NEW j \in i..m PROVE input'[j] = Given(j)
    OBVIOUS
  <2>1. j = i \/ j \in (i+1)..m
    BY <1>1, <1>3
  <2>. QED BY <1>4, <1>7, <2>1 DEF PassedOn
<1>12. \A j \in i..(m-1) : output'[j] # Error
  <2>. SUFFICES ASSUME NEW j \in i..(m-1) PROVE output'[j] # Error
    OBVIOUS
  <2>1. j = i \/ j \in (i+1)..(m-1)
    BY <1>1, <1>3
  <2>. QED BY <1>4, <1>7, <2>1, DatumFacts DEF PassedOn
<1>13. \/ output'[m] = Error /\ result[i+1] = Error
       \/ m = Last /\ output'[m] # Error /\ result[i+1] = Returned(Last)
  BY <1>4, <1>7
<1>14. i < m => process[i+1] = "done"
  BY <1>4
<1>. HIDE DEF results
<1>. QED BY <1>1, <1>3, <1>4, <1>5, <1>6, <1>7, <1>8, <1>9, <1>10, <1>11, <1>12,
            <1>13, <1>14, GoesUp

LEMMA ControlPassOn ==
  ASSUME IInv, NEW i \in Index, i < Last, PassOn(i)
  PROVE  FramesGone' /\ ControlInv'
<1>1. /\ caller = "awaits" /\ answer = Unset
      /\ i \in First..Last /\ i \in Int /\ i + 1 \in Index /\ i + 1 \in Int
      /\ Ended(i) /\ Suspended(i) /\ Outside(i) /\ result[i] = Unset
  BY WhoHasResult, StepFacts DEF PassOn
<1>2. /\ First' = First /\ Last' = Last
      /\ \A j \in Int : Given(j)' = Given(j) /\ TakesValue(j)' = TakesValue(j)
  BY SameChain DEF PassOn
<1>3. output[i] = Returned(i)
  BY <1>1 DEF PassOn, Failed, Ended
<1>4. \A j \in Index :
        /\ process'[j] = IF j = i THEN "awaits_next"
                         ELSE IF j = i+1 THEN "begin" ELSE process[j]
        /\ j # i => output'[j] = output[j]
        /\ j # i+1 => param'[j] = param[j]
  BY <1>1, StepFacts DEF PassOn, Awaited, MovedOut
<1>5. output'[i] \in {Moved, Void}
  BY <1>1, <1>3, StepFacts DEF PassOn, MovedOut, Returned
<1>6. Suspended(i+1)'
  <2>. SUFFICES ASSUME NEW j \in First..i
                PROVE  process'[j] = "awaits_next" /\ PassedOn(j)'
    BY <1>1, <1>2 DEF Suspended
  <2>1. CASE j = i
    BY <1>1, <1>2, <1>4, <1>5, <2>1 DEF PassOn, PassedOn, Ended, Moved, Void, Unset
  <2>2. CASE j # i
    <3>1. j \in First..(i-1) /\ j \in Index /\ j # i /\ j # i+1 /\ j \in Int
      BY <1>1, <2>2, StepFacts
    <3>2. process[j] = "awaits_next" /\ PassedOn(j)
      BY <1>1, <3>1 DEF Suspended
    <3>. QED BY <1>2, <1>4, <3>1, <3>2 DEF PassOn, PassedOn, Moved, Void, Unset
  <2>. QED BY <2>1, <2>2
<1>7. Outside(i+1)'
  <2>. SUFFICES ASSUME NEW j \in Index, j < First \/ j > i+1 PROVE Pristine(j)'
    BY <1>2 DEF Outside
  <2>1. j # i /\ j # i+1 /\ (j < First \/ j > i)
    BY <1>1, StepFacts
  <2>2. Pristine(j)
    BY <1>1, <2>1 DEF Outside
  <2>. QED BY <1>4, <2>1, <2>2 DEF PassOn, Pristine, Untouched, Unset
<1>8. Pristine(i+1)
  BY <1>1 DEF Outside
<1>9. Begins(i+1)'
  <2>1. i+1 # 0 /\ i+1 # i /\ (i+1)-1 = i
    BY <1>1, StepFacts
  <2>2. TakesValue(i+1) => param'[i+1] = Value(i)
    BY <1>1, <1>3, <2>1, StepFacts DEF TakesValue, PassOn, NewValue, Returned
  <2>. QED BY <1>1, <1>2, <1>4, <1>8, <2>1, <2>2
           DEF PassOn, Begins, Pristine, Untouched, Unset, Value
<1>10. Down(i+1)'
  BY <1>6, <1>7, <1>8, <1>9 DEF Down, PassOn, Pristine, Untouched, Unset
<1>11. answer' = Unset' /\ caller' = "awaits" /\ i+1 \in First'..Last'
  BY <1>1, <1>2, StepFacts DEF PassOn, Unset
<1>. QED BY <1>10, <1>11 DEF FramesGone, ControlInv

LEMMA ControlStep == IInv /\ Next => FramesGone' /\ ControlInv'
BY NextCases, ControlAndThen, ControlEndOfScope, ControlCoAwait, ControlAwaitResume,
   ControlRunStartingTask, ControlEndTask, ControlCallFunction, ControlPropagate,
   ControlReturnOwn, ControlReturnNext, ControlPassOn DEF IInv


-----------------------------------------------------------------------------
(* Where the values are. *)

LEMMA PlaceAndThen ==
  ASSUME IInv, (\E r \in {"value", "void"} : AndThen(r)) \/ AndThenVoid, TypeOK'
  PROVE  PlaceInv'
<1>1. /\ caller = "chains"
      /\ UNCHANGED <<param, input, output, result, answer>>
  BY DEF AndThen, AndThenVoid
<1>2. answer = Unset /\ \A i \in Index : Untouched(i)
  BY <1>1 DEF IInv, ControlInv
<1>3. Last' \in Index
  <2>1. PICK n \in Index : types' \in [1..n -> {"value", "void"}]
    BY DEF TypeOK
  <2>2. DOMAIN types' = 1..n
    BY <2>1
  <2>. QED BY <2>2, SameInterval DEF Last
<1>4. Places(Last', param, input, output, result, answer)
  BY <1>2, DatumFacts DEF Places, Untouched
<1>5. OnlyPlace(Last', param, input, output, result, answer)
  BY <1>2, <1>3, DatumFacts, ChainAssumption DEF OnlyPlace, Untouched, Index
<1>. QED BY <1>1, <1>4, <1>5 DEF PlaceInv

LEMMA PlaceCoAwait ==
  ASSUME IInv, CoAwait
  PROVE  PlaceInv'
<1>1. answer = Unset /\ \A i \in Index : Untouched(i)
  BY DEF IInv, ControlInv, CoAwait
<1>2. Last' = Last
  BY SameChain DEF CoAwait
<1>3. CASE param' = param
  BY <1>2, <1>3 DEF CoAwait, IInv, PlaceInv
<1>4. CASE param' # param
  <2>1. param' = [param EXCEPT ![1] = Value(0)] /\ ~IsTask
    BY <1>4 DEF CoAwait
  <2>2. Last >= 1 /\ 1 \in Index /\ Last \in Int
    BY <2>1, StepFacts DEF CoAwait
  <2>3. \A i \in Index : param'[i] = IF i = 1 THEN Value(0) ELSE Unset
    BY <1>1, <2>1, StepFacts DEF Untouched
  <2>4. \A i \in Index : i \in Int
    BY StepFacts
  <2>5. Places(Last, param', input, output, result, answer)
    BY <1>1, <2>2, <2>3, <2>4, DatumFacts DEF Places, Untouched
  <2>6. OnlyPlace(Last, param', input, output, result, answer)
    BY <1>1, <2>2, <2>3, <2>4, StepFacts, DatumFacts DEF OnlyPlace, Untouched
  <2>. QED BY <1>2, <2>5, <2>6 DEF PlaceInv, CoAwait
<1>. QED BY <1>3, <1>4

LEMMA PlaceAwaitResume ==
  ASSUME IInv, AwaitResume
  PROVE  PlaceInv'
<1>1. First \in Index /\ \A i \in Index : i \in Int
  BY StepFacts, CallerFinds DEF AwaitResume
<1>2. /\ Last' = Last /\ answer' = result[First]
      /\ \A i \in Index : result'[i] = IF i # First THEN result[i]
                                       ELSE IF result[i] = Error THEN Error ELSE Moved
  BY <1>1, SameChain, StepFacts DEF AwaitResume
<1>3. result[First] \in {Error, Void, Value(Last)}
  BY CallerFinds DEF AwaitResume, Returned
<1>4. Places(Last, param, input, output, result', answer')
  BY <1>1, <1>2, <1>3 DEF IInv, PlaceInv, Places
<1>5. OnlyPlace(Last, param, input, output, result', answer')
  <2>1. Value(Last) # Moved /\ Value(Last) # Error
    BY StepFacts, DatumFacts
  <2>2. \A j \in Index : result[j] = Value(Last) =>
          /\ output[Last] # Value(Last) /\ answer # Value(Last)
          /\ \A i \in Index : result[i] = Value(Last) => i = j
    BY DEF IInv, PlaceInv, OnlyPlace
  <2>3. \A j \in Index : result'[j] = Value(Last) =>
          j # First /\ result[j] = Value(Last)
    BY <1>2, <2>1
  <2>4. \A j \in Index : result'[j] = Value(Last) =>
          /\ output[Last] # Value(Last) /\ answer' # Value(Last)
          /\ \A i \in Index : result'[i] = Value(Last) => i = j
    BY <1>1, <1>2, <2>2, <2>3
  <2>5. answer' = Value(Last) => output[Last] # Value(Last)
    BY <1>1, <1>2, <2>2
  <2>. QED BY <2>4, <2>5 DEF IInv, PlaceInv, OnlyPlace
<1>. QED BY <1>2, <1>4, <1>5 DEF PlaceInv, AwaitResume

LEMMA PlaceRunStartingTask ==
  ASSUME IInv, RunStartingTask
  PROVE  PlaceInv'
<1>1. /\ Last' = Last
      /\ \A i \in Index : i \in Int /\ input'[i] = IF i = 0 THEN Void ELSE input[i]
  BY SameChain, StepFacts DEF RunStartingTask
<1>2. 0 <= Last
  BY StepFacts
<1>3. Places(Last, param, input', output, result, answer)
  BY <1>1, <1>2, StepFacts DEF IInv, PlaceInv, Places
<1>4. OnlyPlace(Last, param, input', output, result, answer)
  BY <1>1, DatumFacts DEF IInv, PlaceInv, OnlyPlace
<1>. QED BY <1>1, <1>3, <1>4 DEF PlaceInv, RunStartingTask

LEMMA PlaceCallFunction ==
  ASSUME IInv, NEW i \in Index, i > 0, CallFunction(i)
  PROVE  PlaceInv'
<1>1. Down(i) /\ i \in First..Last /\ (\A j \in Index : j \in Int) /\ Last \in Index
  BY WhoIsDown, StepFacts DEF CallFunction
<1>2. Begins(i)
  BY <1>1 DEF Down, Begins, Busy, Ended, CallFunction
<1>3. TakesValue(i) => param[i] = Value(i-1)
  BY <1>2 DEF Begins
<1>4. /\ Last' = Last
      /\ \A j \in Index : input'[j] = IF j = i THEN Given(i) ELSE input[j]
      /\ \A j \in Index : param'[j] = IF j = i /\ TakesValue(i) THEN Moved ELSE param[j]
      /\ \A j \in Index : output'[j] = output[j] \/ output'[j] = Error
      /\ \A j \in Index : result'[j] = result[j] \/ result'[j] = Error
  <2>1. Last' = Last
    BY SameChain DEF CallFunction
  <2>2. \A j \in Index : input'[j] = IF j = i THEN Given(i) ELSE input[j]
    BY <1>3, StepFacts DEF CallFunction, Given
  <2>3. \A j \in Index : param'[j] = IF j = i /\ TakesValue(i) THEN Moved ELSE param[j]
    BY StepFacts DEF CallFunction
  <2>4. /\ \A j \in Index : output'[j] = output[j] \/ output'[j] = Error
        /\ \A j \in Index : result'[j] = result[j] \/ result'[j] = Error
    BY StepFacts DEF CallFunction, Finish
  <2>. QED BY <2>1, <2>2, <2>3, <2>4
<1>5. answer' = answer /\ ~(i > Last)
  BY <1>1, StepFacts DEF CallFunction
<1>6. Given(i) \in {Void, Value(i-1)}
  BY DEF Given
<1>7. Places(Last, param', input', output', result', answer)
  BY <1>1, <1>4, <1>5, <1>6 DEF IInv, PlaceInv, Places
<1>8. ASSUME NEW j \in Index, j > 0
      PROVE  /\ output'[j-1] = Value(j-1) =>
                  param'[j] # Value(j-1) /\ input'[j] # Value(j-1)
             /\ param'[j] = Value(j-1) => input'[j] # Value(j-1)
  <2>1. /\ output[j-1] = Value(j-1) =>
             param[j] # Value(j-1) /\ input[j] # Value(j-1)
        /\ param[j] = Value(j-1) => input[j] # Value(j-1)
    BY <1>8 DEF IInv, PlaceInv, OnlyPlace
  <2>2. Value(j-1) # Error /\ Value(j-1) # Void /\ Value(j-1) # Moved /\ j-1 \in Index
    BY <1>1, <1>8, DatumFacts, StepFacts
  <2>3. CASE j # i
    BY <1>4, <2>1, <2>2, <2>3
  <2>4. CASE j = i /\ TakesValue(i)
    BY <1>3, <1>4, <2>1, <2>2, <2>4
  <2>5. CASE j = i /\ ~TakesValue(i)
    BY <1>4, <2>1, <2>2, <2>5 DEF Given
  <2>. QED BY <2>3, <2>4, <2>5
<1>9. OnlyPlace(Last, param', input', output', result', answer)
  BY <1>1, <1>4, <1>8, DatumFacts DEF IInv, PlaceInv, OnlyPlace
<1>. QED BY <1>4, <1>5, <1>7, <1>9 DEF PlaceInv

LEMMA PlacePropagate ==
  ASSUME IInv, NEW i \in Index, Propagate(i)
  PROVE  PlaceInv'
<1>1. /\ Last' = Last /\ (\A j \in Index : j \in Int) /\ Last \in Index
      /\ \A j \in Index : result'[j] = result[j] \/ result'[j] = Error
  BY SameChain, StepFacts DEF Propagate, Finish
<1>2. Places(Last, param, input, output, result', answer)
  BY <1>1 DEF IInv, PlaceInv, Places
<1>3. OnlyPlace(Last, param, input, output, result', answer)
  BY <1>1, DatumFacts DEF IInv, PlaceInv, OnlyPlace
<1>. QED BY <1>1, <1>2, <1>3 DEF PlaceInv, Propagate


LEMMA PlaceReturnOwn ==
  ASSUME IInv, NEW i \in Index, i = Last, ReturnOwn(i)
  PROVE  PlaceInv'
<1>1. /\ Last' = Last /\ (\A j \in Index : j \in Int) /\ answer' = answer
      /\ \A j \in Index : result'[j] = IF j = i THEN output[i] ELSE result[j]
      /\ \A j \in Index : output'[j] = IF j = i /\ Type(i) = "value" THEN Moved
                                       ELSE output[j]
  BY SameChain, StepFacts DEF ReturnOwn, Finish, TaskResult, MovedOut
<1>2. output[i] = Returned(i)
  BY WhoHasResult DEF ReturnOwn, Failed, Ended
<1>3. /\ Value(i) # Moved /\ Value(i) # Void
  BY StepFacts, DatumFacts
<1>4. Places(Last, param, input, output', result', answer)
  BY <1>1 DEF IInv, PlaceInv, Places
<1>5. \A j \in Index : output'[j] = output[j] \/ output'[j] = Moved
  BY <1>1
<1>6. \A j \in Index : j > 0 =>
        /\ output'[j-1] = Value(j-1) => param[j] # Value(j-1) /\ input[j] # Value(j-1)
        /\ param[j] = Value(j-1) => input[j] # Value(j-1)
  <2>. SUFFICES ASSUME NEW j \in Index, j > 0
                PROVE  /\ output'[j-1] = Value(j-1) =>
                            param[j] # Value(j-1) /\ input[j] # Value(j-1)
                       /\ param[j] = Value(j-1) => input[j] # Value(j-1)
    OBVIOUS
  <2>1. j-1 \in Index /\ Value(j-1) # Moved
    BY StepFacts, DatumFacts
  <2>. QED BY <1>5, <2>1 DEF IInv, PlaceInv, OnlyPlace
<1>7. OnlyPlace(Last, param, input, output', result', answer)
  <2>1. CASE Type(i) = "value"
    <3>1. output[Last] = Value(Last) /\ output'[Last] = Moved
      BY <1>1, <1>2, <2>1 DEF Returned
    <3>2. answer # Value(Last) /\ \A j \in Index : result[j] # Value(Last)
      BY <3>1 DEF IInv, PlaceInv, OnlyPlace
    <3>. QED BY <1>1, <1>3, <1>6, <3>1, <3>2 DEF OnlyPlace
  <2>2. CASE Type(i) # "value"
    <3>1. output[i] = Void
      BY <1>2, <2>2 DEF Returned
    <3>2. \A j \in Index : result'[j] = Value(Last) => result[j] = Value(Last)
      BY <1>1, <1>3, <3>1
    <3>3. output'[Last] = output[Last]
      BY <1>1, <2>2
    <3>. QED BY <1>6, <3>2, <3>3 DEF IInv, PlaceInv, OnlyPlace
  <2>. QED BY <2>1, <2>2
<1>. QED BY <1>1, <1>4, <1>7 DEF PlaceInv, ReturnOwn

LEMMA PlaceReturnNext ==
  ASSUME IInv, NEW i \in Index, i < Last, ReturnNext(i)
  PROVE  PlaceInv'
<1>0. i + 1 \in Index /\ i + 1 # i /\ (\A j \in Index : j \in Int)
  BY StepFacts
<1>1. /\ Last' = Last /\ answer' = answer
      /\ \A j \in Index :
           result'[j] = IF j = i THEN result[i+1]
                        ELSE IF j = i+1 /\ result[j] = Value(Last) THEN Moved
                        ELSE result[j]
  BY <1>0, SameChain, StepFacts DEF ReturnNext, Finish, NextResult
<1>2. Value(Last) # Moved
  BY StepFacts, DatumFacts
<1>3. Places(Last, param, input, output, result', answer)
  BY <1>0, <1>1 DEF IInv, PlaceInv, Places
<1>4. \A j \in Index : result'[j] = Value(Last) =>
        IF j = i THEN result[i+1] = Value(Last) ELSE j # i+1 /\ result[j] = Value(Last)
  BY <1>1, <1>2
<1>5. \A j \in Index : result[j] = Value(Last) =>
        /\ output[Last] # Value(Last) /\ answer # Value(Last)
        /\ \A k \in Index : result[k] = Value(Last) => k = j
  BY DEF IInv, PlaceInv, OnlyPlace
<1>6. \A j \in Index : result'[j] = Value(Last) =>
        /\ output[Last] # Value(Last) /\ answer # Value(Last)
        /\ \A k \in Index : result'[k] = Value(Last) => k = j
  BY <1>0, <1>4, <1>5
<1>7. OnlyPlace(Last, param, input, output, result', answer)
  BY <1>6 DEF IInv, PlaceInv, OnlyPlace
<1>. QED BY <1>1, <1>3, <1>7 DEF PlaceInv, ReturnNext

LEMMA PlacePassOn ==
  ASSUME IInv, NEW i \in Index, i < Last, PassOn(i)
  PROVE  PlaceInv'
<1>0. /\ i + 1 \in Index /\ i + 1 # i /\ (i+1)-1 = i /\ i + 1 <= Last /\ i # Last
      /\ Last \in Index
      /\ \A j \in Index : j \in Int /\ (j > 0 => j-1 \in Index)
  BY StepFacts
<1>1. CASE Type(i) # "value"
  <2>1. Last' = Last /\ UNCHANGED <<param, input, output, result, answer>>
    BY <1>1, SameChain DEF PassOn, MovedOut
  <2>. QED BY <2>1 DEF IInv, PlaceInv
<1>2. CASE Type(i) = "value"
  <2>1. output[i] = Value(i)
    BY <1>2, WhoHasResult DEF PassOn, Failed, Ended, Returned
  <2>2. /\ Last' = Last /\ UNCHANGED <<input, result, answer>>
        /\ \A j \in Index : param'[j] = IF j = i+1 THEN Value(i) ELSE param[j]
        /\ \A j \in Index : output'[j] = IF j = i THEN Moved ELSE output[j]
    BY <1>0, <1>2, <2>1, SameChain, StepFacts DEF PassOn, MovedOut, NewValue
  <2>3. Places(Last, param', input, output', result, answer)
    <3>1. ASSUME NEW j \in Index
          PROVE  /\ output'[j] \in {Unset, Error, Moved, Void, Value(j)}
                 /\ param'[j] \in {Unset, Moved, Value(j-1)}
                 /\ j > Last => param'[j] = Unset
      <4>1. /\ output[j] \in {Unset, Error, Moved, Void, Value(j)}
            /\ param[j] \in {Unset, Moved, Value(j-1)}
            /\ j > Last => param[j] = Unset
        BY DEF IInv, PlaceInv, Places
      <4>2. CASE j = i+1
        BY <1>0, <2>2, <4>1, <4>2
      <4>3. CASE j # i+1
        BY <2>2, <4>1, <4>3
      <4>. QED BY <4>2, <4>3
    <3>. QED BY <3>1 DEF IInv, PlaceInv, Places
  <2>4. input[i+1] # Value(i) /\ param[i+1] # Value(i)
    BY <1>0, <2>1, StepFacts DEF IInv, PlaceInv, OnlyPlace
  <2>5. ASSUME NEW j \in Index, j > 0
        PROVE  /\ output'[j-1] = Value(j-1) =>
                    param'[j] # Value(j-1) /\ input[j] # Value(j-1)
               /\ param'[j] = Value(j-1) => input[j] # Value(j-1)
    <3>1. j - 1 \in Index /\ Value(j-1) # Moved /\ j \in Int
      BY <1>0, <2>5, DatumFacts
    <3>2. CASE j = i+1
      BY <1>0, <2>2, <2>4, <3>1, <3>2
    <3>3. CASE j # i+1
      <4>1. j-1 # i
        BY <1>0, <3>1, <3>3
      <4>. QED BY <2>2, <2>5, <3>1, <3>3, <4>1 DEF IInv, PlaceInv, OnlyPlace
    <3>. QED BY <3>2, <3>3
  <2>6. output'[Last] = output[Last]
    BY <1>0, <2>2
  <2>7. OnlyPlace(Last, param', input, output', result, answer)
    BY <2>5, <2>6 DEF IInv, PlaceInv, OnlyPlace
  <2>. QED BY <2>2, <2>3, <2>7 DEF PlaceInv
<1>. QED BY <1>1, <1>2

\* On the way down there is no result yet.
LEMMA NoResultYet ==
  ASSUME IInv, NEW i \in Index, Down(i), i \in First..Last
  PROVE  \A j \in Index : result[j] = Unset
<1>. SUFFICES ASSUME NEW j \in Index PROVE result[j] = Unset
  OBVIOUS
<1>1. j = i \/ j \in First..(i-1) \/ j < First \/ j > i
  BY StepFacts
<1>. QED BY <1>1 DEF Down, Suspended, PassedOn, Outside, Pristine, Untouched

LEMMA PlaceEndTask ==
  ASSUME IInv, NEW i \in Index, EndTask(i)
  PROVE  PlaceInv'
<1>0. Last \in Index /\ \A j \in Index : j \in Int /\ (j > 0 => j-1 \in Index)
  BY StepFacts
<1>1. /\ Down(i) /\ i \in First..Last /\ answer = Unset
  BY WhoIsDown DEF EndTask
<1>2. \A j \in Index : result[j] = Unset
  BY <1>1, NoResultYet
<1>3. \A j \in Index : j > i => param[j] = Unset /\ input[j] = Unset
  BY <1>1 DEF Down, Outside, Pristine, Untouched
<1>4. /\ Last' = Last /\ UNCHANGED <<param, input, result, answer>>
      /\ output'[i] \in {Void, Error, Value(i)}
      /\ \A j \in Index : j # i => output'[j] = output[j]
  BY SameChain, StepFacts DEF EndTask, Returned
<1>5. Places(Last, param, input, output', result, answer)
  BY <1>4 DEF IInv, PlaceInv, Places
<1>6. ASSUME NEW j \in Index, j > 0
      PROVE  /\ output'[j-1] = Value(j-1) =>
                  param[j] # Value(j-1) /\ input[j] # Value(j-1)
             /\ param[j] = Value(j-1) => input[j] # Value(j-1)
  <2>1. j - 1 \in Index /\ j \in Int /\ i \in Int /\ Value(j-1) # Unset
    BY <1>0, <1>6, DatumFacts
  <2>2. CASE j - 1 = i
    <3>1. param[j] = Unset /\ input[j] = Unset
      BY <1>3, <2>1, <2>2
    <3>. QED BY <2>1, <3>1
  <2>3. CASE j - 1 # i
    <3>1. output'[j-1] = output[j-1]
      BY <1>4, <2>1, <2>3
    <3>. QED BY <1>6, <3>1 DEF IInv, PlaceInv, OnlyPlace
  <2>. QED BY <2>2, <2>3
<1>7. Value(Last) # Unset
  BY <1>0, DatumFacts
<1>8. OnlyPlace(Last, param, input, output', result, answer)
  BY <1>1, <1>2, <1>6, <1>7 DEF OnlyPlace
<1>. QED BY <1>4, <1>5, <1>8 DEF PlaceInv

LEMMA PlaceStep == IInv /\ Next /\ TypeOK' => PlaceInv'
<1>1. ASSUME IInv, EndOfScope PROVE PlaceInv'
  BY <1>1, SameChain DEF EndOfScope, IInv, PlaceInv
<1>. QED BY <1>1, NextCases, PlaceAndThen, PlaceCoAwait, PlaceAwaitResume,
            PlaceRunStartingTask, PlaceCallFunction, PlacePropagate, PlaceReturnOwn,
            PlaceReturnNext, PlacePassOn, PlaceEndTask DEF IInv


-----------------------------------------------------------------------------
(* Safety. *)

LEMMA ControlStutters ==
  ASSUME UNCHANGED vars, ControlInv
  PROVE  ControlInv'
<1>. /\ start' = start /\ types' = types /\ caller' = caller
     /\ process' = process /\ param' = param /\ task' = task
     /\ input' = input /\ output' = output /\ result' = result /\ answer' = answer
  BY DEF vars
<1>1. /\ First' = First /\ Last' = Last /\ IsTask' = IsTask
      /\ \A i : Type(i)' = Type(i)
  BY DEF First, Last, IsTask, Type
<1>2. \A i : TakesValue(i)' = TakesValue(i) /\ Returned(i)' = Returned(i)
  BY <1>1 DEF TakesValue, Returned, Value, Void
<1>3. \A i : Given(i)' = Given(i)
  BY <1>2 DEF Given, Value, Void
<1>4. \A i : Untouched(i) => Untouched(i)'
  BY DEF Untouched, Unset
<1>5. \A i : Pristine(i) => Pristine(i)'
  BY <1>4 DEF Pristine
<1>6. \A i : PassedOn(i) => PassedOn(i)'
  BY <1>3 DEF PassedOn, Unset, Moved, Void
<1>7. ASSUME NEW k, Begins(k) \/ Busy(k) \/ Ended(k)
      PROVE  (Begins(k) \/ Busy(k) \/ Ended(k))'
  <2>1. CASE Begins(k)
    BY <1>2, <2>1 DEF Begins, Unset, Value
  <2>2. CASE Busy(k)
    BY <1>3, <2>2 DEF Busy, Unset
  <2>3. CASE Ended(k)
    BY <1>2, <1>3, <2>3 DEF Ended, Error
  <2>. QED BY <1>7, <2>1, <2>2, <2>3
<1>8. ASSUME NEW k, Suspended(k) PROVE Suspended(k)'
  BY <1>1, <1>6, <1>8 DEF Suspended
<1>9. ASSUME NEW k, Outside(k) PROVE Outside(k)'
  BY <1>1, <1>5, <1>9 DEF Outside
<1>10. ASSUME NEW k, Down(k) PROVE Down(k)'
  BY <1>7, <1>8, <1>9, <1>10 DEF Down, Unset
<1>11. ASSUME NEW k, NEW m, Up(k, m) PROVE Up(k, m)'
  <2>1. Suspended(k)' /\ Outside(m)'
    BY <1>8, <1>9, <1>11 DEF Up
  <2>2. k >= First' => process'[k] = "back" /\ PassedOn(k)'
    BY <1>1, <1>6, <1>11 DEF Up
  <2>3. \/ output'[m] = Error' /\ result'[k+1] = Error'
        \/ m = Last' /\ output'[m] # Error' /\ result'[k+1] = Returned(Last)'
    BY <1>1, <1>2, <1>11 DEF Up, Error
  <2>. QED BY <1>1, <1>3, <1>11, <2>1, <2>2, <2>3 DEF Up, Error
<1>. QED BY <1>1, <1>4, <1>10, <1>11 DEF ControlInv, Unset

THEOREM Invariant == Spec => []IInv
<1>1. IInv /\ [Next]_vars => IInv'
  <2>. SUFFICES ASSUME IInv, [Next]_vars PROVE IInv'
    OBVIOUS
  <2>1. CASE Next
    BY <2>1, TypeStep, ControlStep, PlaceStep DEF IInv
  <2>2. CASE UNCHANGED vars
    <3>1. Last' = Last
      BY <2>2, SameChain DEF vars
    <3>2. TypeOK' /\ FramesGone' /\ PlaceInv'
      BY <2>2, <3>1 DEF vars, IInv, TypeOK, FramesGone, PlaceInv
    <3>. QED BY <2>2, <3>2, ControlStutters DEF IInv
  <2>. QED BY <2>1, <2>2
<1>. QED BY InitIInv, <1>1, PTL DEF Spec

LEMMA IInvOneControl == IInv => OneControl
<1>. SUFFICES ASSUME IInv, caller = "awaits"
              PROVE  \E k \in First..Last :
                       /\ \A i \in First..(k-1) : process[i] = "awaits_next"
                       /\ \A i \in (k+1)..Last : process[i] \in {"none", "done", "destroyed"}
                       /\ \/ process[k] \in {"begin", "has_result", "back"}
                          \/ process[k] = "awaits_task" /\ task[k] = "running"
  BY DEF OneControl
<1>1. PICK k \in First..Last : Down(k) \/ \E m \in Index : Up(k, m)
  BY DEF IInv, ControlInv
<1>2. \A i \in (k+1)..Last : i \in Index /\ i # k /\ i > k
  BY StepFacts
<1>3. k \in (First-1)..Last
  BY StepFacts
<1>4. CASE Down(k)
  <2>1. \/ process[k] \in {"begin", "has_result", "back"}
        \/ process[k] = "awaits_task" /\ task[k] = "running"
    BY <1>4 DEF Down, Begins, Busy, Ended
  <2>2. \A i \in (k+1)..Last : process[i] = "none"
    BY <1>2, <1>4 DEF Down, Outside, Pristine, Untouched
  <2>. QED BY <1>4, <2>1, <2>2 DEF Down, Suspended
<1>5. ASSUME NEW m \in Index, Up(k, m) PROVE OneControl
  <2>1. process[k] = "back" /\ \A i \in First..(k-1) : process[i] = "awaits_next"
    BY <1>5, StepFacts DEF Up, Suspended
  <2>2. \A i \in (k+1)..Last : process[i] \in {"none", "done", "destroyed"}
    <3>. SUFFICES ASSUME NEW i \in (k+1)..Last
                  PROVE  process[i] \in {"none", "done", "destroyed"}
      OBVIOUS
    <3>1. i = k+1 \/ i \in (k+2)..m \/ i > m
      BY StepFacts
    <3>2. i \in Index
      BY <1>2
    <3>. QED BY <1>5, <3>1, <3>2 DEF Up, Outside, Pristine, Untouched
  <2>. QED BY <2>1, <2>2 DEF OneControl
<1>. QED BY <1>1, <1>4, <1>5 DEF OneControl

LEMMA AtMostOne ==
  ASSUME NEW S, \A x, y \in S : x = y
  PROVE  Cardinality(S) \in {0, 1} /\ (S = {} => Cardinality(S) = 0)
<1>1. CASE S = {}
  BY <1>1, FS_EmptySet
<1>2. CASE S # {}
  <2>1. PICK x \in S : S = {x}
    BY <1>2
  <2>. QED BY <1>2, <2>1, FS_Singleton
<1>. QED BY <1>1, <1>2

LEMMA IInvOnePlace == IInv => OnePlace
<1>. SUFFICES ASSUME IInv, NEW i \in Index
              PROVE  Cardinality({j \in Index : output[j] = Value(i)})
                       + Cardinality({j \in Index : result[j] = Value(i)})
                       + Cardinality({j \in Index : param[j] = Value(i)})
                       + Cardinality({j \in Index : input[j] = Value(i)})
                       + (IF answer = Value(i) THEN 1 ELSE 0) <= 1
  BY DEF OnePlace
<1>. DEFINE Out == {j \in Index : output[j] = Value(i)}
            Res == {j \in Index : result[j] = Value(i)}
            Par == {j \in Index : param[j] = Value(i)}
            Inp == {j \in Index : input[j] = Value(i)}
            Ans == answer = Value(i)
<1>0. \A j \in Index : j \in Int /\ j-1 \in Int
  BY StepFacts
<1>1. /\ \A j \in Int : Value(j) = Value(i) => i = j
      /\ Value(i) \notin {Void, Error, Moved, Unset}
      /\ Last \in Index
  BY <1>0, DatumFacts, StepFacts
<1>2. \A j \in Out : j = i
  BY <1>0, <1>1 DEF IInv, PlaceInv, Places
<1>3. \A j \in Par : j = i+1
  <2>. SUFFICES ASSUME NEW j \in Par PROVE j = i+1
    OBVIOUS
  <2>1. j-1 = i
    BY <1>0, <1>1 DEF IInv, PlaceInv, Places
  <2>. QED BY <1>0, <2>1
<1>4. \A j \in Inp : j = i+1
  <2>. SUFFICES ASSUME NEW j \in Inp PROVE j = i+1
    OBVIOUS
  <2>1. j-1 = i
    BY <1>0, <1>1 DEF IInv, PlaceInv, Places
  <2>. QED BY <1>0, <2>1
<1>5. \A j \in Res : i = Last
  BY <1>0, <1>1 DEF IInv, PlaceInv, Places
<1>6. Ans => i = Last
  BY <1>0, <1>1 DEF IInv, PlaceInv, Places
<1>7. \A j, k \in Res : j = k
  BY <1>5 DEF IInv, PlaceInv, OnlyPlace
<1>8. Out # {} => Par = {} /\ Inp = {} /\ Res = {} /\ ~Ans
  <2>. SUFFICES ASSUME Out # {} PROVE Par = {} /\ Inp = {} /\ Res = {} /\ ~Ans
    OBVIOUS
  <2>1. output[i] = Value(i)
    BY <1>2
  <2>2. Res = {} /\ ~Ans
    BY <1>5, <1>6, <2>1 DEF IInv, PlaceInv, OnlyPlace
  <2>3. \A j \in Index : j = i+1 => param[j] # Value(i) /\ input[j] # Value(i)
    <3>. SUFFICES ASSUME NEW j \in Index, j = i+1
                  PROVE  param[j] # Value(i) /\ input[j] # Value(i)
      OBVIOUS
    <3>1. j-1 = i /\ j > 0
      BY StepFacts
    <3>. QED BY <2>1, <3>1 DEF IInv, PlaceInv, OnlyPlace
  <2>. QED BY <1>3, <1>4, <2>2, <2>3
<1>9. Par # {} => Inp = {}
  <2>. SUFFICES ASSUME NEW j \in Par, NEW k \in Inp PROVE FALSE
    OBVIOUS
  <2>1. j = i+1 /\ k = j
    BY <1>3, <1>4
  <2>2. j > 0 /\ j-1 = i
    BY <2>1, StepFacts
  <2>. QED BY <2>1, <2>2 DEF IInv, PlaceInv, OnlyPlace
<1>10. Par # {} \/ Inp # {} => Res = {} /\ ~Ans
  <2>. SUFFICES ASSUME NEW j \in Index, j \in Par \/ j \in Inp, i = Last PROVE FALSE
    BY <1>5, <1>6
  <2>1. j > Last
    BY <1>3, <1>4, StepFacts
  <2>. QED BY <1>1, <2>1 DEF IInv, PlaceInv, Places
<1>11. Res # {} => ~Ans
  BY <1>5 DEF IInv, PlaceInv, OnlyPlace
<1>12. /\ Cardinality(Out) \in {0, 1} /\ (Out = {} => Cardinality(Out) = 0)
       /\ Cardinality(Par) \in {0, 1} /\ (Par = {} => Cardinality(Par) = 0)
       /\ Cardinality(Inp) \in {0, 1} /\ (Inp = {} => Cardinality(Inp) = 0)
       /\ Cardinality(Res) \in {0, 1} /\ (Res = {} => Cardinality(Res) = 0)
  <2>. HIDE DEF Out, Par, Inp, Res
  <2>1. /\ \A j, k \in Out : j = k
        /\ \A j, k \in Par : j = k
        /\ \A j, k \in Inp : j = k
    BY <1>2, <1>3, <1>4
  <2>. QED BY <1>7, <2>1, AtMostOne
<1>. HIDE DEF Out, Par, Inp, Res, Ans
<1>13. Cardinality(Out) + Cardinality(Res) + Cardinality(Par) + Cardinality(Inp)
         + (IF Ans THEN 1 ELSE 0) <= 1
  BY <1>8, <1>9, <1>10, <1>11, <1>12
<1>. QED BY <1>13 DEF Out, Par, Inp, Res, Ans

\* One coroutine has control and the way back from it leads to the caller, no
\* frame is left at the end, and every value is in one place, for a chain of
\* any length.
THEOREM ChainSafe == Spec => []Safety
<1>1. IInv => Safety
  BY IInvOneControl, IInvOnePlace DEF IInv, Safety
<1>. QED BY Invariant, <1>1, PTL


-----------------------------------------------------------------------------
(* A chain is a pipeline. *)

\* What Pipeline's input and ending are in terms of the chain.
ShownInput == IF Called = {} THEN -1 ELSE Shown(input[Begun])
ShownEnding == IF \E i \in Called : output[i] = Error THEN "error"
               ELSE IF \E i \in Called : task[i] = "running" THEN "busy"
               ELSE "value"

LEMMA ShownIs ==
  /\ Shown(Unset) = -1 /\ Shown(Void) = -2 /\ Shown(Error) = -3
  /\ \A i \in Int : Shown(Value(i)) = i
<1>1. Shown(Unset) = -1 /\ Shown(Void) = -2 /\ Shown(Error) = -3
  BY DEF Shown, Unset, Void, Error
<1>2. ASSUME NEW i \in Int PROVE Shown(Value(i)) = i
  BY DEF Shown, Unset, Void, Error, Value
<1>. QED BY <1>1, <1>2

LEMMA BegunIs ==
  ASSUME NEW m \in Int, First \in Int, m >= First - 1, Called = First..m
  PROVE  /\ Begun = m
         /\ ShownInput = IF m < First THEN -1 ELSE Shown(input[m])
<1>1. CASE m < First
  <2>1. Called = {}
    BY <1>1
  <2>2. m = First - 1
    BY <1>1
  <2>. QED BY <1>1, <2>1, <2>2 DEF Begun, ShownInput
<1>2. CASE m >= First
  <2>1. m \in Called /\ \A j \in Called : j <= m /\ j \in Int
    BY <1>2
  <2>2. Begun = CHOOSE i \in Called : \A j \in Called : j <= i
    BY <2>1 DEF Begun
  <2>3. Begun \in Called /\ \A j \in Called : j <= Begun
    BY <2>1, <2>2
  <2>4. Begun = m
    BY <2>1, <2>3
  <2>. QED BY <1>2, <2>1, <2>4 DEF ShownInput
<1>. QED BY <1>1, <1>2

\* While a process_tasks is between two awaits no function is running.
LEMMA NoneRuns ==
  ASSUME IInv,
         \/ caller # "awaits"
         \/ \E i \in Index : process[i] \in {"begin", "has_result", "back"}
  PROVE  \A j \in Index : task[j] # "running"
<1>. SUFFICES ASSUME NEW j \in Index, task[j] = "running" PROVE FALSE
  OBVIOUS
<1>1. caller = "awaits" /\ Down(j) /\ j \in First..Last
  BY WhoIsDown
<1>2. PICK i \in Index : process[i] \in {"begin", "has_result", "back"}
  BY <1>1
<1>3. Busy(j)
  BY <1>1 DEF Down, Begins, Busy, Ended
<1>4. i # j
  BY <1>2, <1>3 DEF Busy
<1>. QED BY <1>1, <1>2, <1>4, DownElsewhere DEF IInv

\* What was called when process_tasks i has control on the way down.
LEMMA CalledDown ==
  ASSUME IInv, NEW i \in Index, Down(i), i \in First..Last
  PROVE  /\ Begins(i) => Called = First..(i-1)
         /\ ~Begins(i) => Called = First..i
         /\ \A j \in First..(i-1) : output[j] # Error
<1>1. \A j \in First..(i-1) : input[j] # Unset /\ output[j] # Error
  <2>. SUFFICES ASSUME NEW j \in First..(i-1)
                PROVE  input[j] # Unset /\ output[j] # Error
    OBVIOUS
  <2>1. PassedOn(j) /\ j \in Int /\ j - 1 \in Int
    BY StepFacts DEF Down, Suspended
  <2>. QED BY <2>1, DatumFacts DEF PassedOn, Given
<1>2. \A j \in Index : j < First \/ j > i => input[j] = Unset
  BY DEF Down, Outside, Pristine, Untouched
<1>3. Begins(i) => input[i] = Unset
  BY DEF Begins
<1>4. ~Begins(i) => input[i] # Unset
  <2>1. i - 1 \in Int
    BY StepFacts
  <2>. QED BY <2>1, DatumFacts DEF Down, Busy, Ended, Given
<1>5. ASSUME NEW j PROVE j \in Index => (j \in First..(i-1) \/ j = i \/ j < First \/ j > i)
  BY StepFacts
<1>6. (\A j \in First..i : j \in Index) /\ (\A j \in First..(i-1) : j \in Index)
  BY StepFacts
<1>7. CASE Begins(i)
  <2>1. \A j : j \in Called <=> j \in First..(i-1)
    BY <1>1, <1>2, <1>3, <1>5, <1>6, <1>7 DEF Called
  <2>. QED BY <1>1, <1>7, <2>1
<1>8. CASE ~Begins(i)
  <2>1. \A j : j \in First..i <=> (j \in First..(i-1) \/ j = i)
    BY StepFacts
  <2>2. \A j : j \in Called <=> j \in First..i
    <3>1. \A j \in Called : j \in First..i
      BY <1>2, <1>5, <2>1 DEF Called
    <3>2. \A j \in First..i : j \in Called
      BY <1>1, <1>4, <1>6, <1>8, <2>1 DEF Called
    <3>. QED BY <3>1, <3>2
  <2>. QED BY <1>1, <1>8, <2>2
<1>. QED BY <1>7, <1>8

LEMMA SameSteps ==
  ASSUME TypeOK, start' = start, types' = types
  PROVE  Steps' = Steps
<1>1. First' = First /\ Last' = Last /\ \A i \in Int : Type(i)' = Type(i)
  BY SameChain
<1>2. \A i \in 0..Last : i \in Int
  OBVIOUS
<1>. QED BY <1>1, <1>2 DEF Steps

LEMMA SameBegun ==
  ASSUME start' = start, input' = input
  PROVE  Called' = Called /\ Begun' = Begun /\ ShownInput' = ShownInput
<1>1. First' = First
  BY DEF First, IsTask
<1>2. Called' = Called
  BY DEF Called, Unset
<1>3. Begun' = Begun
  BY <1>1, <1>2 DEF Begun
<1>. QED BY <1>2, <1>3 DEF ShownInput, Shown, Unset, Void, Error

\* A step that calls no function and ends none is one Pipeline does not see.
LEMMA Unseen ==
  ASSUME TypeOK, start' = start, types' = types, input' = input, answer' = answer,
         \A j \in Index : output'[j] = Error <=> output[j] = Error,
         \A j \in Index : task'[j] = "running" <=> task[j] = "running"
  PROVE  UNCHANGED Abstract!vars
<1>1. Steps' = Steps
  BY SameSteps
<1>2. Called' = Called /\ Begun' = Begun /\ ShownInput' = ShownInput
  BY SameBegun
<1>3. ShownEnding' = ShownEnding
  <2>1. Called \subseteq Index
    BY DEF Called
  <2>. QED BY <1>2, <2>1 DEF ShownEnding, Error
<1>4. Shown(answer)' = Shown(answer)
  BY DEF Shown, Unset, Void, Error
<1>. QED BY <1>1, <1>2, <1>3, <1>4 DEF Abstract!vars, ShownInput, ShownEnding


\* Before the chain is awaited nothing was called.
LEMMA NothingCalled ==
  ASSUME IInv, caller = "chains"
  PROVE  /\ Called = {} /\ Begun = First - 1 /\ ShownInput = -1
         /\ ShownEnding = "value" /\ Shown(answer) = -1
<1>1. answer = Unset /\ \A i \in Index : Untouched(i)
  BY DEF IInv, ControlInv
<1>2. Called = {}
  BY <1>1 DEF Called, Untouched
<1>. QED BY <1>1, <1>2, ShownIs DEF Begun, ShownInput, ShownEnding

LEMMA InitRefines == Init => Abstract!Init
<1>. SUFFICES ASSUME Init PROVE Abstract!Init
  OBVIOUS
<1>1. IInv /\ caller = "chains"
  BY InitIInv DEF Init
<1>2. /\ Called = {} /\ Begun = First - 1 /\ ShownInput = -1
      /\ ShownEnding = "value" /\ Shown(answer) = -1
  BY <1>1, NothingCalled
<1>3. Last = 0
  <2>1. 0 \in Index /\ DOMAIN types = 1..0
    BY ChainAssumption DEF Init, Index
  <2>. QED BY <2>1, LastIs
<1>4. First \in {0, 1}
  BY DEF First
<1>5. Steps \in [first : {0, 1}, last : {0}, values : SUBSET {0}]
  <2>1. {i \in 0..Last : Type(i) = "value"} \in SUBSET {0}
    BY <1>3
  <2>. QED BY <1>3, <1>4, <2>1 DEF Steps
<1>6. Begun = Steps.first - 1
  BY <1>2 DEF Steps
<1>. QED BY <1>2, <1>5, <1>6 DEF Abstract!Init, Abstract!Nothing, ShownInput, ShownEnding

\* and_then extends the pipeline.
LEMMA ExtendRefines ==
  ASSUME IInv, NEW r \in {"value", "void"}, caller = "chains", Last < MaxFunctions,
         r = "value" => Type(Last) = "value", Extended(r),
         UNCHANGED <<start, caller, process, param, task, input, output, result, answer>>
  PROVE  Abstract!Extend
<1>0. /\ Last \in Index /\ Index = 0..MaxFunctions /\ MaxFunctions \in Nat
      /\ types \in [1..Last -> {"value", "void"}] /\ Last \in Int
  BY StepFacts, ChainFacts DEF IInv
<1>1. /\ Called = {} /\ Begun = First - 1 /\ ShownInput = -1
      /\ ShownEnding = "value" /\ Shown(answer) = -1
  BY NothingCalled
<1>2. Last' = Last + 1
  <2>1. Last + 1 \in Index /\ DOMAIN types' = 1..(Last+1)
    BY <1>0 DEF Extended
  <2>. QED BY <2>1, SameInterval DEF Last
<1>3. First' = First /\ IsTask' = IsTask
  BY DEF First, IsTask
<1>4. \A i \in 0..Last : Type(i)' = Type(i)
  <2>. SUFFICES ASSUME NEW i \in 0..Last PROVE Type(i)' = Type(i)
    OBVIOUS
  <2>1. i > 0 => types'[i] = types[i]
    BY <1>0 DEF Extended
  <2>. QED BY <2>1 DEF Type
<1>5. \A i \in {Last+1} : Type(i)' = r
  <2>1. types'[Last+1] = r /\ Last + 1 > 0
    BY <1>0 DEF Extended
  <2>. QED BY <2>1 DEF Type
<1>6. Steps' = IF r = "value"
               THEN [Steps EXCEPT !.last = @ + 1, !.values = @ \cup {Last + 1}]
               ELSE [Steps EXCEPT !.last = @ + 1]
  <2>1. {i \in 0..(Last+1) : Type(i)' = "value"} =
          IF r = "value" THEN {i \in 0..Last : Type(i) = "value"} \cup {Last + 1}
          ELSE {i \in 0..Last : Type(i) = "value"}
    <3>1. \A i : i \in 0..(Last+1) <=> (i \in 0..Last \/ i = Last+1)
      BY <1>0
    <3>2. Last+1 \notin 0..Last
      BY <1>0
    <3>3. CASE r = "value"
      BY <1>4, <1>5, <3>1, <3>2, <3>3
    <3>4. CASE r # "value"
      BY <1>4, <1>5, <3>1, <3>2, <3>4
    <3>. QED BY <3>3, <3>4
  <2>. QED BY <1>2, <1>3, <2>1 DEF Steps
<1>7. Called' = Called /\ Begun' = Begun /\ ShownInput' = ShownInput
  BY SameBegun
<1>8. ShownEnding' = ShownEnding /\ Shown(answer)' = Shown(answer)
  BY <1>7 DEF ShownEnding, Shown, Unset, Void, Error
<1>9. Begun = Steps.first - 1 /\ Steps.last = Last
  BY <1>1 DEF Steps
<1>10. \/ Steps' = [Steps EXCEPT !.last = @ + 1]
       \/ /\ Steps.last \in Steps.values
          /\ Steps' = [Steps EXCEPT !.last = @ + 1, !.values = @ \cup {Steps.last + 1}]
  <2>1. r = "value" => Last \in {i \in 0..Last : Type(i) = "value"}
    BY <1>0
  <2>. QED BY <1>6, <1>9, <2>1 DEF Steps
<1>. QED BY <1>7, <1>8, <1>9, <1>10 DEF Abstract!Extend, ShownInput, ShownEnding

\* A function is called with what the one before it returned.
LEMMA CallRefines ==
  ASSUME IInv, NEW i \in Index, Down(i), Begins(i), i \in First..Last,
         start' = start, types' = types, answer' = answer,
         input' = [input EXCEPT ![i] = Given(i)],
         \/ /\ task' = [task EXCEPT ![i] = "running"]
            /\ output' = output
         \/ output' = [output EXCEPT ![i] = Error]
  PROVE  Abstract!Call
<1>0. i \in Int /\ First \in Int /\ First >= 0 /\ i - 1 >= First - 1 /\ i >= First - 1
  BY StepFacts
<1>1. Called = First..(i-1) /\ \A j \in First..(i-1) : output[j] # Error
  BY CalledDown
<1>2. Begun = i - 1
  BY <1>0, <1>1, BegunIs
<1>3. ShownEnding = "value"
  <2>1. \A j \in Index : task[j] # "running"
    BY NoneRuns DEF Begins
  <2>2. Called \subseteq Index
    BY DEF Called
  <2>. QED BY <1>1, <2>1, <2>2 DEF ShownEnding
<1>4. First' = First /\ Last' = Last /\ Steps' = Steps
  BY SameChain, SameSteps DEF IInv
<1>5. Called' = First..i
  <2>1. Given(i) # Unset
    BY <1>0, DatumFacts DEF Given
  <2>2. \A j \in Index : input'[j] = IF j = i THEN Given(i) ELSE input[j]
    BY StepFacts
  <2>3. Called' = Called \cup {i}
    BY <2>1, <2>2 DEF Called, Unset
  <2>4. First..i = First..(i-1) \cup {i}
    BY <1>0
  <2>. QED BY <1>1, <2>3, <2>4
<1>6. Begun' = i /\ ShownInput' = Shown(Given(i))
  <2>1. Begun' = i
    <3>1. i \in Called' /\ \A j \in Called' : j <= i /\ j \in Int
      BY <1>0, <1>5
    <3>2. Begun' = CHOOSE k \in Called' : \A j \in Called' : j <= k
      BY <3>1 DEF Begun
    <3>3. Begun' \in Called' /\ \A j \in Called' : j <= Begun'
      BY <3>1, <3>2
    <3>. QED BY <3>1, <3>3
  <2>2. ShownInput' = Shown(input'[i])
    BY <1>0, <1>5, <2>1 DEF ShownInput, Shown, Unset, Void, Error
  <2>3. input'[i] = Given(i)
    BY StepFacts
  <2>. QED BY <2>1, <2>2, <2>3
<1>7. ShownEnding' \in {"busy", "error"}
  <2>1. CASE task' = [task EXCEPT ![i] = "running"] /\ output' = output
    <3>1. task'[i] = "running"
      BY <2>1, StepFacts
    <3>2. i \in Called'
      BY <1>0, <1>5
    <3>. QED BY <3>1, <3>2 DEF ShownEnding
  <2>2. CASE output' = [output EXCEPT ![i] = Error]
    <3>1. output'[i] = Error /\ i \in Called'
      BY <1>0, <1>5, <2>2, StepFacts
    <3>. QED BY <3>1 DEF ShownEnding, Error
  <2>. QED BY <2>1, <2>2
<1>8. Shown(Given(i)) = IF i - 1 = -1 THEN -2
                        ELSE IF i - 1 \in Steps.values THEN i - 1 ELSE -2
  <2>1. CASE i = 0
    BY <2>1, ShownIs DEF Given, TakesValue
  <2>2. CASE i # 0
    <3>1. i > 0 /\ i - 1 \in 0..Last /\ i - 1 # -1 /\ i - 1 \in Int
      BY <1>0, <2>2, StepFacts
    <3>2. i - 1 \in Steps.values <=> TakesValue(i)
      BY <3>1 DEF Steps, TakesValue
    <3>. QED BY <3>1, <3>2, ShownIs DEF Given
  <2>. QED BY <2>1, <2>2
<1>9. Begun < Steps.last
  BY <1>0, <1>2, StepFacts DEF Steps
<1>10. Shown(answer)' = Shown(answer)
  BY DEF Shown, Unset, Void, Error
<1>11. Begun' = Begun + 1
  BY <1>0, <1>2, <1>6
<1>. QED BY <1>2, <1>3, <1>4, <1>6, <1>7, <1>8, <1>9, <1>10, <1>11
         DEF Abstract!Call, Abstract!Output, Abstract!Void, ShownInput, ShownEnding


\* A function ends.
LEMMA EndRefines ==
  ASSUME IInv, NEW i \in Index, EndTask(i)
  PROVE  Abstract!End
<1>1. /\ caller = "awaits" /\ i \in First..Last /\ Down(i)
      /\ start' = start /\ types' = types /\ input' = input /\ answer' = answer
  BY WhoIsDown DEF EndTask
<1>2. Busy(i) /\ ~Begins(i)
  BY <1>1 DEF Down, Begins, Busy, Ended, EndTask
<1>3. Called = First..i /\ \A j \in First..(i-1) : output[j] # Error
  BY <1>1, <1>2, CalledDown
<1>4. i \in Called /\ Called \subseteq Index /\ \A j \in Called : j = i \/ j \in First..(i-1)
  BY <1>1, <1>3, StepFacts DEF Called
<1>5. ShownEnding = "busy"
  <2>1. output[i] # Error
    BY <1>2, DatumFacts DEF Busy
  <2>2. \A j \in Called : output[j] # Error
    BY <1>3, <1>4, <2>1
  <2>. QED BY <1>2, <1>4, <2>2 DEF ShownEnding, Busy
<1>6. \A j \in Index : task'[j] # "running"
  <2>. SUFFICES ASSUME NEW j \in Index, j # i PROVE task[j] # "running"
    BY StepFacts DEF EndTask
  <2>. QED BY <1>1, DownElsewhere DEF IInv
<1>7. Called' = Called /\ Begun' = Begun /\ ShownInput' = ShownInput
  BY <1>1, SameBegun
<1>8. ShownEnding' \in {"value", "error"}
  BY <1>4, <1>6, <1>7 DEF ShownEnding
<1>9. Steps' = Steps /\ Shown(answer)' = Shown(answer)
  BY <1>1, SameSteps DEF IInv, Shown, Unset, Void, Error
<1>. QED BY <1>5, <1>7, <1>8, <1>9 DEF Abstract!End, ShownInput, ShownEnding

\* What was called when the result goes up.
LEMMA CalledUp ==
  ASSUME IInv, NEW m \in Index, Up(First-1, m)
  PROVE  /\ Called = First..m
         /\ \A j \in First..(m-1) : output[j] # Error
         /\ m \in First..Last
<1>0. First \in Int /\ (First-1)+1 = First
  BY StepFacts
<1>1. /\ m \in First..Last
      /\ \A j \in First..m : input[j] = Given(j)
      /\ \A j \in First..(m-1) : output[j] # Error
  BY <1>0 DEF Up
<1>2. \A j \in Index : j < First \/ j > m => input[j] = Unset
  BY DEF Up, Outside, Pristine, Untouched
<1>3. \A j \in First..m : j \in Index /\ j - 1 \in Int
  BY StepFacts
<1>4. \A j \in First..m : input[j] # Unset
  BY <1>1, <1>3, DatumFacts DEF Given
<1>5. \A j \in Index : j \in First..m \/ j < First \/ j > m
  BY StepFacts
<1>6. \A j \in Called : j \in First..m
  BY <1>2, <1>5 DEF Called
<1>7. \A j \in First..m : j \in Called
  BY <1>3, <1>4 DEF Called
<1>. QED BY <1>1, <1>6, <1>7

\* The caller gets the value of the last function, or the exception.
LEMMA AnswerRefines ==
  ASSUME IInv, AwaitResume
  PROVE  Abstract!Answer
<1>0. First \in Int /\ First >= 0 /\ Last \in Int /\ (First-1)+1 = First
  BY StepFacts
<1>1. PICK m \in Index : Up(First-1, m)
  BY DEF IInv, ControlInv, AwaitResume
<1>2. /\ Called = First..m /\ m \in First..Last
      /\ \A j \in First..(m-1) : output[j] # Error
  BY <1>1, CalledUp
<1>3. Begun = m
  BY <1>0, <1>2, BegunIs
<1>4. \/ output[m] = Error /\ result[First] = Error
      \/ m = Last /\ output[m] # Error /\ result[First] = Returned(Last)
  BY <1>0, <1>1 DEF Up
<1>5. /\ Called' = Called /\ Begun' = Begun /\ ShownInput' = ShownInput
      /\ Steps' = Steps
  BY SameBegun, SameSteps DEF AwaitResume, IInv
<1>6. ShownEnding' = ShownEnding
  BY <1>5 DEF ShownEnding, AwaitResume, Error
<1>7. Shown(answer) = -1 /\ Shown(answer)' = Shown(result[First])
  <2>1. answer = Unset
    BY DEF IInv, ControlInv, AwaitResume
  <2>. QED BY <2>1, ShownIs DEF AwaitResume, Shown, Unset, Void, Error
<1>8. m \in Called
  BY <1>0, <1>2
<1>9. CASE output[m] = Error
  <2>1. ShownEnding = "error"
    BY <1>8, <1>9 DEF ShownEnding
  <2>2. Shown(result[First]) = -3
    BY <1>4, <1>9, ShownIs
  <2>. QED BY <1>5, <1>6, <1>7, <2>1, <2>2
           DEF Abstract!Answer, Abstract!Nothing, Abstract!Exception,
               ShownInput, ShownEnding
<1>10. CASE output[m] # Error
  <2>1. m = Last /\ result[First] = Returned(Last)
    BY <1>4, <1>10
  <2>2. \A j \in Called : output[j] # Error
    BY <1>0, <1>2, <1>10
  <2>3. \A j \in Index : task[j] # "running"
    BY NoneRuns DEF AwaitResume
  <2>4. ShownEnding = "value"
    BY <2>2, <2>3 DEF ShownEnding, Called
  <2>5. Begun = Steps.last /\ Steps.first <= Steps.last
    BY <1>0, <1>2, <1>3, <2>1 DEF Steps
  <2>6. Shown(result[First]) = IF Begun \in Steps.values THEN Begun ELSE -2
    <3>1. Last \in Steps.values <=> Type(Last) = "value"
      BY StepFacts DEF Steps
    <3>. QED BY <1>0, <1>3, <2>1, <3>1, ShownIs DEF Returned
  <2>. QED BY <1>5, <1>6, <1>7, <2>4, <2>5, <2>6
           DEF Abstract!Answer, Abstract!Output, Abstract!Nothing, Abstract!Void,
               ShownInput, ShownEnding
<1>. QED BY <1>9, <1>10

\* When a process_tasks ends, no function was running and none is called.
LEMMA FinishUnseen ==
  ASSUME IInv, NEW i \in Index, NEW r, NEW results, Finish(i, r, results),
         process[i] \in {"has_result", "back"}
  PROVE  \A j \in Index : task'[j] = "running" <=> task[j] = "running"
<1>1. \A j \in Index : task[j] # "running"
  BY NoneRuns
<1>2. \A j \in Index : task'[j] # "running"
  BY <1>1, StepFacts DEF Finish
<1>. QED BY <1>1, <1>2

LEMMA StepRefines == IInv /\ Next => Abstract!Next \/ UNCHANGED Abstract!vars
<1>. SUFFICES ASSUME IInv, Next PROVE Abstract!Next \/ UNCHANGED Abstract!vars
  OBVIOUS
<1>0. TypeOK
  BY DEF IInv
<1>1. ASSUME NEW r \in {"value", "void"}, AndThen(r) PROVE Abstract!Extend
  BY <1>1, ExtendRefines DEF AndThen
<1>2. ASSUME AndThenVoid PROVE Abstract!Extend
  BY <1>2, ExtendRefines DEF AndThenVoid
<1>3. ASSUME EndOfScope PROVE UNCHANGED Abstract!vars
  <2>1. \A j \in Index : task[j] # "running"
    BY <1>3, NoneRuns DEF EndOfScope
  <2>2. \A j \in Index : task'[j] # "running"
    BY <1>3, <2>1, StepFacts DEF EndOfScope
  <2>. QED BY <1>0, <1>3, <2>1, <2>2, Unseen DEF EndOfScope
<1>4. ASSUME CoAwait PROVE UNCHANGED Abstract!vars
  BY <1>0, <1>4, Unseen DEF CoAwait
<1>5. ASSUME AwaitResume PROVE Abstract!Answer
  BY <1>5, AnswerRefines
<1>6. ASSUME RunStartingTask PROVE Abstract!Call
  <2>1. 0 \in Index
    BY StepFacts
  <2>2. Down(0) /\ 0 \in First..Last
    BY <1>6, <2>1, WhoIsDown DEF RunStartingTask
  <2>3. Begins(0)
    BY <1>6, <2>2 DEF RunStartingTask, Down, Begins, Busy, Ended
  <2>4. Given(0) = Void
    BY DEF Given, TakesValue
  <2>. QED BY <1>6, <2>1, <2>2, <2>3, <2>4, CallRefines DEF RunStartingTask
<1>7. ASSUME NEW i \in Index, CallFunction(i), i > 0 PROVE Abstract!Call
  <2>1. Down(i) /\ i \in First..Last
    BY <1>7, WhoIsDown DEF CallFunction
  <2>2. Begins(i)
    BY <1>7, <2>1 DEF CallFunction, Down, Begins, Busy, Ended
  <2>3. input' = [input EXCEPT ![i] = Given(i)]
    <3>1. Given(i) = IF TakesValue(i) THEN param[i] ELSE Void
      BY <2>2 DEF Begins, Given
    <3>. QED BY <1>7, <3>1 DEF CallFunction
  <2>. QED BY <1>7, <2>1, <2>2, <2>3, CallRefines DEF CallFunction
<1>8. ASSUME NEW i \in Index, EndTask(i) PROVE Abstract!End
  BY <1>8, EndRefines
<1>9. ASSUME NEW i \in Index, Propagate(i) PROVE UNCHANGED Abstract!vars
  <2>1. \A j \in Index : task'[j] = "running" <=> task[j] = "running"
    BY <1>9, FinishUnseen DEF Propagate
  <2>. QED BY <1>0, <1>9, <2>1, Unseen DEF Propagate
<1>10. ASSUME NEW i \in Index,
              output' = MovedOut(i), output[i] # Error
       PROVE  \A j \in Index : output'[j] = Error <=> output[j] = Error
  BY <1>10, StepFacts, DatumFacts DEF MovedOut
<1>11. ASSUME NEW i \in Index, PassOn(i) PROVE UNCHANGED Abstract!vars
  <2>1. \A j \in Index : output'[j] = Error <=> output[j] = Error
    BY <1>10, <1>11 DEF PassOn, Failed
  <2>. QED BY <1>0, <1>11, <2>1, Unseen DEF PassOn
<1>12. ASSUME NEW i \in Index, ReturnOwn(i) PROVE UNCHANGED Abstract!vars
  <2>1. \A j \in Index : output'[j] = Error <=> output[j] = Error
    BY <1>10, <1>12 DEF ReturnOwn, Failed
  <2>2. \A j \in Index : task'[j] = "running" <=> task[j] = "running"
    BY <1>12, FinishUnseen DEF ReturnOwn
  <2>. QED BY <1>0, <1>12, <2>1, <2>2, Unseen DEF ReturnOwn
<1>13. ASSUME NEW i \in Index, ReturnNext(i) PROVE UNCHANGED Abstract!vars
  <2>1. \A j \in Index : task'[j] = "running" <=> task[j] = "running"
    BY <1>13, FinishUnseen DEF ReturnNext
  <2>. QED BY <1>0, <1>13, <2>1, Unseen DEF ReturnNext
<1>. QED BY <1>0, NextCases, <1>1, <1>2, <1>3, <1>4, <1>5, <1>6, <1>7, <1>8, <1>9,
            <1>11, <1>12, <1>13 DEF Abstract!Next

\* The functions of a chain run one after the other, each with what the one
\* before it returned, until the first exception; and the caller gets the value
\* of the last, or the exception.
THEOREM Refinement == Spec => ImplementsPipeline
<1>1. IInv /\ UNCHANGED vars => UNCHANGED Abstract!vars
  BY Unseen DEF vars, IInv
<1>. QED BY Invariant, InitRefines, StepRefines, <1>1, PTL
         DEF Spec, ImplementsPipeline, Abstract!Spec
=============================================================================
