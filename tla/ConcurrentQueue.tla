---------------------------- MODULE ConcurrentQueue ----------------------------
(***************************************************************************)
(* new_tasks_ as a whole (include/concurrentqueue.h): a part for every     *)
(* thread that enqueues (ImplicitProducer), linked into a list.  A dequeue *)
(* measures some parts, tries the longest and then all others; each try    *)
(* may fail because of another dequeue under way.  The pool's destructor   *)
(* allocates room for what it measures and takes that many.                *)
(*                                                                         *)
(* A part is its four counters: module ImplicitProducer shows how they     *)
(* lead to the elements.                                                   *)
(***************************************************************************)
EXTENDS Integers, Sequences, SequencesExt, FiniteSets

CONSTANTS
  Thread,              \* threads that enqueue
  Consumer,            \* threads that dequeue
  None,                \* null
  MaxEnqueue,          \* bound: elements of each thread
  MaxDequeue           \* bound: tries on each part that are counted

BoundsAssumption ==
  MaxEnqueue \in Nat /\ MaxDequeue \in Nat /\ None \notin Thread

VARIABLES
  list,                \* producerListTail and next, the latest first
  tail, head,          \* tailIndex, headIndex of each part
  optimistic,          \* dequeueOptimisticCount
  overcommit,          \* dequeueOvercommit
  consumer,            \* control and local variables of each dequeue
  phase,               \* "alive" or "drained"
  room,                \* the destructor's vector: its size ...
  drained,             \* ... and how many tasks it was given
  seen,                \* history: the tails when each dequeue began
  rivals               \* history: the parts others have tried meanwhile

counters == <<tail, head, optimistic, overcommit>>
history == <<seen, rivals>>
destructor == <<phase, room, drained>>
vars == <<list, counters, consumer, destructor, history>>

Zero == [p \in Thread |-> 0]
Idle == [pc |-> "idle", rest |-> <<>>, nonEmpty |-> 0, best |-> None,
         size |-> 0, tail |-> 0, part |-> None, over |-> 0, count |-> 0]

Init ==
  /\ list = <<>>
  /\ tail = Zero /\ head = Zero /\ optimistic = Zero /\ overcommit = Zero
  /\ consumer = [c \in Consumer |-> Idle]
  /\ phase = "alive" /\ room = 0 /\ drained = 0
  /\ seen = [c \in Consumer |-> Zero]
  /\ rivals = [c \in Consumer |-> {}]

-----------------------------------------------------------------------------
\* inner_enqueue: the thread's producer, made at its first call, and an
\* element in its part (or none, if there is no memory).
Join(p) ==
  /\ phase = "alive"
  /\ p \notin ToSet(list)
  /\ list' = <<p>> \o list
  /\ UNCHANGED <<counters, consumer, destructor, history>>

Put(p) ==
  /\ phase = "alive"
  /\ p \in ToSet(list)
  /\ tail[p] < MaxEnqueue
  /\ tail' = [tail EXCEPT ![p] = @ + 1]
  /\ UNCHANGED <<list, head, optimistic, overcommit, consumer, destructor,
                 history>>

-----------------------------------------------------------------------------
\* try_dequeue.
At(c, label) == consumer[c].pc = label
Step(c, r) == consumer' = [consumer EXCEPT ![c] = r]

Begin(c) ==
  /\ phase = "alive"
  /\ At(c, "idle")
  /\ Step(c, [Idle EXCEPT !.pc = "score", !.rest = list])
  /\ seen' = [seen EXCEPT ![c] = tail]
  /\ rivals' = [rivals EXCEPT ![c] =
                  {consumer[d].part : d \in {e \in Consumer \ {c} :
                                             At(e, "count") \/ At(e, "claim")}}]
  /\ UNCHANGED <<list, counters, destructor>>

\* size_approx of the next part: its tail, then its head.
Enough == 3
LoadTail(c) ==
  /\ At(c, "score")
  /\ consumer[c].nonEmpty < Enough
  /\ consumer[c].rest # <<>>
  /\ Step(c, [consumer[c] EXCEPT !.pc = "size",
                                 !.tail = tail[Head(consumer[c].rest)]])
  /\ UNCHANGED <<list, counters, destructor, history>>

Measured(t, h) == IF h < t THEN t - h ELSE 0

LoadHead(c) ==
  LET r == consumer[c]
      p == Head(r.rest)
      n == Measured(r.tail, head[p])
  IN  /\ At(c, "size")
      /\ Step(c, [r EXCEPT !.pc = "score", !.rest = Tail(@), !.tail = 0,
                           !.nonEmpty = IF n > 0 THEN @ + 1 ELSE @,
                           !.best = IF n > r.size THEN p ELSE @,
                           !.size = IF n > r.size THEN n ELSE @])
      /\ UNCHANGED <<list, counters, destructor, history>>

\* (mutant) it is not noticed that there is no best part.
NeverNothing(c) == FALSE
Nothing(c) == consumer[c].nonEmpty = 0

Scored(c) ==
  /\ At(c, "score")
  /\ consumer[c].nonEmpty = Enough \/ consumer[c].rest = <<>>
  /\ Step(c, IF Nothing(c) THEN [Idle EXCEPT !.pc = "none"]
             ELSE [Idle EXCEPT !.pc = "check", !.best = consumer[c].best,
                               !.part = consumer[c].best])
  /\ UNCHANGED <<list, counters, destructor, history>>

\* The other parts, once the best has failed.  The walk begins anew.
\* (mutant) it goes on where the measuring stopped.
Stopped(c) == <<>>
Restarted(c) == list
Failed(c) ==
  Step(c, [consumer[c] EXCEPT !.pc = "walk", !.part = None,
             !.over = 0, !.count = 0,
             !.rest = IF consumer[c].part = consumer[c].best
                      THEN Restarted(c) ELSE @])

Walk(c) ==
  LET r == consumer[c]
  IN  /\ At(c, "walk")
      /\ Step(c, IF r.rest = <<>> THEN [Idle EXCEPT !.pc = "none"]
                 ELSE IF Head(r.rest) = r.best THEN [r EXCEPT !.rest = Tail(@)]
                 ELSE [r EXCEPT !.pc = "check", !.part = Head(r.rest),
                                !.rest = Tail(@)])
      /\ UNCHANGED <<list, counters, destructor, history>>

\* dequeue from one part: checked, counted and checked again.
Check(c) ==
  LET p == consumer[c].part
  IN  /\ At(c, "check")
      /\ optimistic[p] < MaxDequeue
      /\ IF optimistic[p] - overcommit[p] < tail[p]
         THEN /\ Step(c, [consumer[c] EXCEPT !.pc = "count",
                                             !.over = overcommit[p]])
              /\ rivals' = [d \in Consumer |->
                              IF d = c \/ At(d, "idle") THEN rivals[d]
                              ELSE rivals[d] \cup {p}]
         ELSE Failed(c) /\ UNCHANGED rivals
      /\ UNCHANGED <<list, counters, destructor, seen>>

Count(c) ==
  LET p == consumer[c].part
  IN  /\ At(c, "count")
      /\ optimistic' = [optimistic EXCEPT ![p] = @ + 1]
      /\ Step(c, [consumer[c] EXCEPT !.pc = "claim", !.count = optimistic[p]])
      /\ UNCHANGED <<list, tail, head, overcommit, destructor, history>>

\* (mutant) without the second check.
ClaimAnyway(c) == TRUE
CanClaim(c) ==
  consumer[c].count - consumer[c].over < tail[consumer[c].part]

Claim(c) ==
  /\ At(c, "claim")
  /\ CanClaim(c)
  /\ head' = [head EXCEPT ![consumer[c].part] = @ + 1]
  /\ Step(c, [Idle EXCEPT !.pc = "some"])
  /\ UNCHANGED <<list, tail, optimistic, overcommit, destructor, history>>

\* (mutant) it stays counted.
StaysCounted(n) == n
GiveBack(n) == n + 1

GiveUp(c) ==
  /\ At(c, "claim")
  /\ ~CanClaim(c)
  /\ overcommit' = [overcommit EXCEPT ![consumer[c].part] = GiveBack(@)]
  /\ Failed(c)
  /\ UNCHANGED <<list, tail, head, optimistic, destructor, history>>

Return(c) ==
  /\ consumer[c].pc \in {"some", "none"}
  /\ Step(c, Idle)
  /\ seen' = [seen EXCEPT ![c] = Zero]
  /\ rivals' = [rivals EXCEPT ![c] = {}]
  /\ UNCHANGED <<list, counters, destructor>>

-----------------------------------------------------------------------------
\* ~ThreadPool, when all have stopped: size_approx, then try_dequeue_bulk for
\* as many, part after part.
Quiet == \A c \in Consumer : At(c, "idle")

\* (mutant) the first part only.
SizeOfFirst ==
  IF list = <<>> THEN 0 ELSE Measured(tail[list[1]], head[list[1]])
Sizes ==
  LET sum[k \in 0..Len(list)] ==
        IF k = 0 THEN 0
        ELSE sum[k-1] + Measured(tail[list[k]], head[list[k]])
  IN  sum
SizeApprox == Sizes[Len(list)]

Bulk(p, max) ==
  LET n == tail[p] - (optimistic[p] - overcommit[p])
  IN  IF n <= 0 THEN 0 ELSE IF n < max THEN n ELSE max

\* How many it has after k parts, and how many of them from p.
Taken ==
  LET sum[k \in 0..Len(list)] ==
        IF k = 0 THEN 0
        ELSE sum[k-1] + Bulk(list[k], SizeApprox - sum[k-1])
  IN  sum
TakenFrom(p) ==
  IF p \notin ToSet(list) THEN 0
  ELSE LET k == CHOOSE i \in DOMAIN list : list[i] = p
       IN  Taken[k] - Taken[k-1]

Drain ==
  /\ phase = "alive" /\ Quiet
  /\ phase' = "drained"
  /\ room' = SizeApprox
  /\ drained' = Taken[Len(list)]
  /\ head' = [p \in Thread |-> head[p] + TakenFrom(p)]
  /\ optimistic' = [p \in Thread |-> optimistic[p] + TakenFrom(p)]
  /\ UNCHANGED <<list, tail, overcommit, consumer, history>>

-----------------------------------------------------------------------------
TryDequeue(c) ==
  \/ Begin(c) \/ LoadTail(c) \/ LoadHead(c) \/ Scored(c) \/ Walk(c)
  \/ Check(c) \/ Count(c) \/ Claim(c) \/ GiveUp(c) \/ Return(c)

Next ==
  \/ \E p \in Thread : Join(p) \/ Put(p)
  \/ \E c \in Consumer : TryDequeue(c)
  \/ Drain

Spec == Init /\ [][Next]_vars

-----------------------------------------------------------------------------
TypeOK ==
  /\ ToSet(list) \subseteq Thread /\ IsInjective(list)
  /\ tail \in [Thread -> 0..MaxEnqueue] /\ head \in [Thread -> Nat]
  /\ optimistic \in [Thread -> Nat] /\ overcommit \in [Thread -> Nat]
  /\ \A c \in Consumer : consumer[c].pc \in {"check", "count", "claim"} =>
       consumer[c].part \in ToSet(list)
  /\ rivals \in [Consumer -> SUBSET Thread]

\* No element is taken that is not there, and no failure is counted for ever:
\* when no dequeue is under way the counters agree.
Consistent ==
  \A p \in Thread :
    /\ head[p] <= tail[p]
    /\ Quiet => optimistic[p] - overcommit[p] = head[p]

\* A dequeue that returns nothing has not overlooked an element that was there
\* when it began and still is, unless another dequeue tried the same part
\* meanwhile: then each may have failed because of the other.
NothingOverlooked ==
  \A c \in Consumer, p \in Thread :
    At(c, "none") /\ p \notin rivals[c] => head[p] >= seen[c][p]

\* The destructor gets exactly as many tasks as it has made room for, and none
\* stays behind: it looks at every place of its vector.
VectorFilled ==
  phase = "drained" => /\ drained = room
                       /\ head = tail

\* The scan over the producers finds what is there.
Safety == TypeOK /\ Consistent /\ NothingOverlooked /\ VectorFilled
=============================================================================
