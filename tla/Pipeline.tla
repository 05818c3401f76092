------------------------------- MODULE Pipeline --------------------------------
(***************************************************************************)
(* What a chain of tasks promises (chain_tasks and and_then, as README.md  *)
(* tells it): the steps run one after the other in the order in which they *)
(* were chained, each of them once and with what the step before returned; *)
(* the first exception halts the chain; whoever awaits the chain gets the  *)
(* value of the last step, or the exception.                               *)
(*                                                                         *)
(* Step 0 is the task a chain can start with.                              *)
(***************************************************************************)
EXTENDS Integers

CONSTANT MaxSteps      \* the longest chain

VARIABLES
  steps,               \* the chain: the first and the last step, and which
                       \* of them return a value
  begun,               \* the last step that was called, first - 1 for none
  input,               \* what it was called with
  ending,              \* how it ended: "busy", "value" or "error"
  answer               \* what the caller got

vars == <<steps, begun, input, ending, answer>>

\* A value is named by the step it comes from; these are none.
Nothing   == -1
Void      == -2
Exception == -3

\* What step i returns; the value a chain starts with is that of step 0.
Output(i) == IF i \in steps.values THEN i ELSE Void

Init ==
  /\ steps \in [first : {0, 1}, last : {0}, values : SUBSET {0}]
  /\ begun = steps.first - 1
  /\ input = Nothing
  /\ ending = "value"
  /\ answer = Nothing

\* A step is chained; only one that returns a value has a successor with a
\* parameter.
Extend ==
  /\ begun = steps.first - 1
  /\ steps.last < MaxSteps
  /\ \/ steps' = [steps EXCEPT !.last = @ + 1]
     \/ /\ steps.last \in steps.values
        /\ steps' = [steps EXCEPT !.last = @ + 1, !.values = @ \cup {steps.last + 1}]
  /\ UNCHANGED <<begun, input, ending, answer>>

Call ==
  /\ ending = "value"
  /\ begun < steps.last
  /\ begun' = begun + 1
  /\ input' = IF begun = -1 THEN Void ELSE Output(begun)
  /\ ending' \in {"busy", "error"}
  /\ UNCHANGED <<steps, answer>>

End ==
  /\ ending = "busy"
  /\ ending' \in {"value", "error"}
  /\ UNCHANGED <<steps, begun, input, answer>>

Answer ==
  /\ answer = Nothing
  /\ \/ /\ ending = "value" /\ begun = steps.last /\ steps.first <= steps.last
        /\ answer' = Output(begun)
     \/ /\ ending = "error"
        /\ answer' = Exception
  /\ UNCHANGED <<steps, begun, input, ending>>

Next == Extend \/ Call \/ End \/ Answer

Spec == Init /\ [][Next]_vars
=============================================================================
