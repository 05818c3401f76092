------------------------------- MODULE SubQueue -------------------------------
(***************************************************************************)
(* What one producer's part of a moodycamel queue promises: a sequence to  *)
(* whose end its thread appends and from whose head any consumer may take. *)
(* Both may fail, an enqueue for want of memory, a dequeue because others  *)
(* were faster.  Whoever destroys the queue takes or drops what is left.   *)
(***************************************************************************)
EXTENDS Sequences

CONSTANTS Consumer, Item, None

VARIABLES
  queue,               \* the items that can be dequeued
  got                  \* the item each consumer's dequeue returns

vars == <<queue, got>>

Init == queue = <<>> /\ got = [c \in Consumer |-> None]

Enqueue(x) == queue' = Append(queue, x) /\ UNCHANGED got

Dequeue(c) ==
  /\ queue # <<>>
  /\ got[c] = None
  /\ got' = [got EXCEPT ![c] = Head(queue)]
  /\ queue' = Tail(queue)

Return(c) == got' = [got EXCEPT ![c] = None] /\ UNCHANGED queue

Empty == queue' = <<>> /\ UNCHANGED got

Next ==
  \/ \E x \in Item : Enqueue(x)
  \/ \E c \in Consumer : Dequeue(c) \/ Return(c)
  \/ Empty

Spec == Init /\ [][Next]_vars
=============================================================================
