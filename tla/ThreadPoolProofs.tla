--------------------------- MODULE ThreadPoolProofs ---------------------------
(***************************************************************************)
(* Proofs about ThreadPool, for every set of threads and of tasks, whatever *)
(* each task awaits and enqueues.                                          *)
(*                                                                         *)
(* OnePlace counts the copies of a handle in the deques, in the queue and  *)
(* in the workers' hands.  The proofs reason about the sets of handles in  *)
(* each of them instead (PlaceInv) and count once, in CopiesCounted.       *)
(* CountInv says what remaining_tasks counts and why a parent is suspended *)
(* while a child runs; FrameInv says who has destroyed which frames.       *)
(*                                                                         *)
(* Then the four mechanisms of the queue the pool is built on that         *)
(* MCQueueParts composes: how the end of a thread is told (ExitInv,        *)
(* EndIsTold), the scan over all producers (ScanInv, NothingIsOverlooked), *)
(* the free list of blocks (FreeListInv, NoBlockIsLost) and the search for *)
(* a thread's producer (HashInv, OwnProducerFound).                        *)
(***************************************************************************)
EXTENDS
  ThreadPool, MCQueueParts, FiniteSetTheorems, WellFoundedInduction, TLAPS

Types ==
  /\ stop \in BOOLEAN
  /\ pool \in {"alive", "joining", "drained", "destroyed"}
  /\ control \in [Worker -> {"check", "pop", "steal", "dequeue", "resume",
                             "run", "spawn", "exited"}]
  /\ hand \in [Worker -> Task \cup {Nobody}]
  /\ victims \in [Worker -> SUBSET Worker]
  /\ deques \in [Worker -> Seq(Task)]
  /\ newTasks \in [Thread -> Seq(Task)]
  /\ task \in [Task -> {"created", "queued", "running", "suspended",
                        "resumed", "done"}]
  /\ pending \in [Task -> Nat]
  /\ destroyed \in [Task -> Nat]

\* A worker with a task in its hand, and the state of that task.  While a
\* worker is still scheduling the last children, others may have run them all
\* and the parent to its end.
HandInv ==
  \A w \in Worker :
    /\ control[w] \in {"resume", "run", "spawn"} => hand[w] \in Task
    /\ control[w] = "resume" => task[hand[w]] = "queued"
    /\ control[w] = "run" => task[hand[w]] \in {"running", "resumed"}
    /\ control[w] = "spawn" => task[hand[w]] \in {"suspended", "resumed", "done"}

\* A worker's hand is one of the places of a handle.
Holds(w) == control[w] \in {"resume", "run"}

InDeque(t) == \E w \in Worker : t \in ToSet(deques[w])
InQueue(t) == \E p \in Thread : t \in ToSet(newTasks[p])
InHand(t) == \E w \in Worker : Holds(w) /\ hand[w] = t
Placed(t) == InDeque(t) \/ InQueue(t) \/ InHand(t)

\* No queue holds a handle twice, and no two queues or hands the same one.
PlaceInv ==
  /\ \A w \in Worker :
       IsInjective(deques[w]) /\ \A t \in ToSet(deques[w]) : task[t] = "queued"
  /\ \A p \in Thread :
       /\ IsInjective(newTasks[p])
       /\ \A t \in ToSet(newTasks[p]) : task[t] = "queued" /\ ~InDeque(t)
  /\ \A v, w \in Worker : v # w => ToSet(deques[v]) \cap ToSet(deques[w]) = {}
  /\ \A p, q \in Thread :
       p # q => ToSet(newTasks[p]) \cap ToSet(newTasks[q]) = {}
  /\ \A w \in Worker :
       Holds(w) => /\ ~InDeque(hand[w]) /\ ~InQueue(hand[w])
                   /\ \A v \in Worker : Holds(v) /\ hand[v] = hand[w] => v = w
  /\ \A t \in Task : task[t] \in {"running", "resumed"} => InHand(t)
  /\ \A t \in Task : task[t] = "queued" /\ pool \in {"alive", "joining"} =>
       Placed(t)

Unfinished(p) == {c \in Children[p] : task[c] # "done"}

\* What remaining_tasks counts, and what it says of the parent.
CountInv ==
  \A p \in Task :
    /\ pending[p] = Cardinality(Unfinished(p))
    /\ task[p] \in {"created", "queued", "running"} =>
         \A c \in Children[p] : task[c] = "created"
    /\ task[p] = "suspended" => pending[p] # 0
    /\ task[p] \in {"resumed", "done"} => pending[p] = 0

\* A child's frame goes with its parent, a NoWaitTask's at its end or with the
\* pool, and the frame of a task that a thread outside waits for stays.
FrameInv ==
  /\ \A p \in Task : \A c \in Children[p] :
       destroyed[c] = IF task[p] = "done" THEN 1 ELSE 0
  /\ \A t \in Scope : ~IsChild(t) => destroyed[t] = 0
  /\ \A t \in Managed :
       destroyed[t] = IF task[t] = "done" \/ (task[t] = "queued" /\ ~Placed(t))
                        THEN 1 ELSE 0

\* The destructor takes the queues apart after the workers have ended.
PoolInv ==
  /\ pool \in {"drained", "destroyed"} =>
       Joined /\ \A p \in Thread : newTasks[p] = <<>>
  /\ pool = "destroyed" => \A w \in Worker : deques[w] = <<>>

IInv == Types /\ HandInv /\ PlaceInv /\ CountInv /\ FrameInv /\ PoolInv

-----------------------------------------------------------------------------
(* The queues.                                                             *)

LEMMA EmptyFacts ==
  /\ IsInjective(<<>>)
  /\ ToSet(<<>>) = {}
BY DEF IsInjective, ToSet

LEMMA HeadFacts ==
  ASSUME NEW S, NEW s \in Seq(S), s # <<>>
  PROVE  /\ Head(s) \in S
         /\ Head(s) \in ToSet(s)
         /\ Tail(s) \in Seq(S)
         /\ IsInjective(s) => /\ IsInjective(Tail(s))
                              /\ ToSet(Tail(s)) = ToSet(s) \ {Head(s)}
<1>1. Len(s) \in Nat \ {0} /\ DOMAIN s = 1..Len(s)
  OBVIOUS
<1>2. /\ Tail(s) \in Seq(S)
      /\ DOMAIN Tail(s) = 1..Len(s) - 1
      /\ \A i \in 1..Len(s) - 1 : Tail(s)[i] = s[i + 1]
  BY <1>1
<1>3. Head(s) = s[1]
  OBVIOUS
<1>4. ASSUME IsInjective(s) PROVE IsInjective(Tail(s))
  BY <1>1, <1>2, <1>4 DEF IsInjective
<1>5. ASSUME IsInjective(s) PROVE ToSet(Tail(s)) = ToSet(s) \ {Head(s)}
  <2>1. \A x \in ToSet(Tail(s)) : x \in ToSet(s) \ {Head(s)}
    BY <1>1, <1>2, <1>3, <1>5 DEF IsInjective, ToSet
  <2>2. ASSUME NEW x \in ToSet(s) \ {Head(s)} PROVE x \in ToSet(Tail(s))
    <3>1. PICK i \in 1..Len(s) : x = s[i]
      BY <1>1 DEF ToSet
    <3>2. i - 1 \in 1..Len(s) - 1 /\ Tail(s)[i - 1] = x
      BY <1>1, <1>2, <1>3, <2>2, <3>1
    <3>. QED
      BY <1>2, <3>2 DEF ToSet
  <2>. QED
    BY <2>1, <2>2
<1>6. Head(s) \in S /\ Head(s) \in ToSet(s)
  BY <1>1, <1>3 DEF ToSet
<1>. QED
  BY <1>2, <1>4, <1>5, <1>6

LEMMA LastFacts ==
  ASSUME NEW S, NEW s \in Seq(S), s # <<>>
  PROVE  /\ Last(s) \in S
         /\ Last(s) \in ToSet(s)
         /\ Front(s) \in Seq(S)
         /\ IsInjective(s) => /\ IsInjective(Front(s))
                              /\ ToSet(Front(s)) = ToSet(s) \ {Last(s)}
<1>1. Len(s) \in Nat \ {0} /\ DOMAIN s = 1..Len(s)
  OBVIOUS
<1>2. /\ Front(s) \in Seq(S)
      /\ DOMAIN Front(s) = 1..Len(s) - 1
      /\ \A i \in 1..Len(s) - 1 : Front(s)[i] = s[i]
  BY <1>1 DEF Front
<1>3. Last(s) = s[Len(s)]
  BY DEF Last
<1>4. ASSUME IsInjective(s) PROVE IsInjective(Front(s))
  BY <1>1, <1>2, <1>4 DEF IsInjective
<1>5. ASSUME IsInjective(s) PROVE ToSet(Front(s)) = ToSet(s) \ {Last(s)}
  <2>1. \A x \in ToSet(Front(s)) : x \in ToSet(s) \ {Last(s)}
    BY <1>1, <1>2, <1>3, <1>5 DEF IsInjective, ToSet
  <2>2. ASSUME NEW x \in ToSet(s) \ {Last(s)} PROVE x \in ToSet(Front(s))
    BY <1>1, <1>2, <1>3, <2>2 DEF ToSet
  <2>. QED
    BY <2>1, <2>2
<1>6. Last(s) \in S /\ Last(s) \in ToSet(s)
  BY <1>1, <1>3 DEF ToSet
<1>. QED
  BY <1>2, <1>4, <1>5, <1>6

LEMMA AppendFacts ==
  ASSUME NEW S, NEW s \in Seq(S), NEW x \in S
  PROVE  /\ Append(s, x) \in Seq(S)
         /\ ToSet(Append(s, x)) = ToSet(s) \cup {x}
         /\ IsInjective(s) /\ x \notin ToSet(s) => IsInjective(Append(s, x))
<1>1. Len(s) \in Nat /\ DOMAIN s = 1..Len(s)
  OBVIOUS
<1>2. /\ Append(s, x) \in Seq(S)
      /\ DOMAIN Append(s, x) = 1..Len(s) + 1
      /\ \A i \in 1..Len(s) : Append(s, x)[i] = s[i]
      /\ Append(s, x)[Len(s) + 1] = x
  BY <1>1
<1>3. ToSet(Append(s, x)) = ToSet(s) \cup {x}
  BY <1>1, <1>2 DEF ToSet
<1>4. ASSUME IsInjective(s), x \notin ToSet(s)
      PROVE  IsInjective(Append(s, x))
  BY <1>1, <1>2, <1>4 DEF IsInjective, ToSet
<1>. QED
  BY <1>2, <1>3, <1>4

\* A queue without duplicates is not longer than there are tasks.
LEMMA LengthBound ==
  ASSUME NEW s \in Seq(Task), IsInjective(s)
  PROVE  DOMAIN s \subseteq 1..Cardinality(Task)
<1>1. Len(s) \in Nat /\ DOMAIN s = 1..Len(s)
  OBVIOUS
<1>2. s \in Injection(1..Len(s), Task)
  BY <1>1 DEF Injection
<1>3. Cardinality(1..Len(s)) <= Cardinality(Task)
  BY <1>2, FS_Injection, TasksAssumption
<1>4. Cardinality(1..Len(s)) = Len(s)
  BY <1>1, FS_Interval
<1>5. Cardinality(Task) \in Nat
  BY FS_CardinalityType, TasksAssumption
<1>. QED
  BY <1>1, <1>3, <1>4, <1>5

LEMMA EntryFacts ==
  ASSUME NEW I, NEW q, NEW t
  PROVE  /\ \A j, m : <<j, m>> \in Entries(I, q, t) <=>
                        /\ j \in I
                        /\ m \in DOMAIN q[j]
                        /\ m \in Position
                        /\ q[j][m] = t
         /\ \A e \in Entries(I, q, t) : e = <<e[1], e[2]>>
<1>1. ASSUME NEW j, NEW m
      PROVE  <<j, m>> \in Entries(I, q, t) <=>
               /\ j \in I
               /\ m \in DOMAIN q[j]
               /\ m \in Position
               /\ q[j][m] = t
  BY DEF Entries
<1>2. ASSUME NEW e \in Entries(I, q, t) PROVE e = <<e[1], e[2]>>
  BY DEF Entries
<1>. QED
  BY <1>1, <1>2

\* A handle that only one queue can hold, and only once, has at most one entry.
LEMMA EntriesCounted ==
  ASSUME NEW I, NEW q \in [I -> Seq(Task)], NEW t,
         \A i \in I : IsInjective(q[i]),
         \A i, j \in I : i # j => ToSet(q[i]) \cap ToSet(q[j]) = {}
  PROVE  Cardinality(Entries(I, q, t)) =
           IF \E i \in I : t \in ToSet(q[i]) THEN 1 ELSE 0
<1>2. CASE \E i \in I : t \in ToSet(q[i])
  <2>1. PICK i \in I : t \in ToSet(q[i])
    BY <1>2
  <2>2. PICK n \in DOMAIN q[i] : q[i][n] = t
    BY <2>1 DEF ToSet
  <2>3. n \in Position
    BY LengthBound DEF Position
  <2>4. \A j \in I : \A m \in DOMAIN q[j] :
          q[j][m] = t => j = i /\ m = n
    <3>. SUFFICES ASSUME NEW j \in I, NEW m \in DOMAIN q[j], q[j][m] = t
                  PROVE  j = i /\ m = n
      OBVIOUS
    <3>1. t \in ToSet(q[j])
      BY DEF ToSet
    <3>2. j = i
      BY <2>1, <3>1
    <3>. QED
      BY <2>2, <3>2 DEF IsInjective
  <2>5. <<i, n>> \in Entries(I, q, t)
    BY <2>2, <2>3, EntryFacts
  <2>6. \A e \in Entries(I, q, t) : e = <<i, n>>
    BY <2>4, EntryFacts
  <2>7. Entries(I, q, t) = {<<i, n>>}
    BY <2>5, <2>6
  <2>. QED
    BY <1>2, <2>7, FS_Singleton
<1>3. CASE ~ \E i \in I : t \in ToSet(q[i])
  <2>1. Entries(I, q, t) = {}
    BY <1>3, EntryFacts DEF ToSet
  <2>. QED
    BY <1>3, <2>1, FS_EmptySet
<1>. QED
  BY <1>2, <1>3

\* The count of OnePlace, from the sets of PlaceInv.
LEMMA CopiesCounted ==
  ASSUME Types, PlaceInv, NEW t \in Task
  PROVE  Copies(t) = IF Placed(t) THEN 1 ELSE 0
<1>1. Cardinality(Holders(t)) = IF InHand(t) THEN 1 ELSE 0
  <2>1. CASE InHand(t)
    <3>1. PICK w \in Worker : Holds(w) /\ hand[w] = t
      BY <2>1 DEF InHand
    <3>2. Holders(t) = {w}
      BY <3>1 DEF PlaceInv, Holders, Holds
    <3>. QED
      BY <2>1, <3>2, FS_Singleton
  <2>2. CASE ~InHand(t)
    <3>1. Holders(t) = {}
      BY <2>2 DEF InHand, Holders, Holds
    <3>. QED
      BY <2>2, <3>1, FS_EmptySet
  <2>. QED
    BY <2>1, <2>2
<1>2. Cardinality(Entries(Worker, deques, t)) = IF InDeque(t) THEN 1 ELSE 0
  BY EntriesCounted DEF Types, PlaceInv, InDeque
<1>3. Cardinality(Entries(Thread, newTasks, t)) = IF InQueue(t) THEN 1 ELSE 0
  BY EntriesCounted DEF Types, PlaceInv, InQueue
<1>4. InQueue(t) => ~InDeque(t)
  BY DEF PlaceInv, InQueue
<1>5. InHand(t) => ~InDeque(t) /\ ~InQueue(t)
  BY DEF PlaceInv, InHand
<1>. QED
  BY <1>1, <1>2, <1>3, <1>4, <1>5 DEF Copies, Placed

-----------------------------------------------------------------------------
(* The tree of tasks.                                                      *)

\* A child has one parent, and is no task of new_tasks_.
LEMMA ChildFacts ==
  ASSUME NEW p \in Task, NEW c \in Children[p]
  PROVE  /\ c \in Scope \ External
         /\ IsChild(c)
         /\ \A q \in Task : c \in Children[q] => q = p
         /\ Parent(c) = p
<1>1. c \in Scope \ External
  BY TasksAssumption DEF Scope
<1>. DEFINE origins == {q \in Task : c \in Children[q] \cup Injected[q]}
<1>2. Cardinality(origins) = 1
  BY <1>1, TasksAssumption DEF Scope
<1>3. IsFiniteSet(origins)
  BY TasksAssumption, FS_Subset
<1>4. \E x : origins = {x}
  <2>. HIDE DEF origins
  <2>. QED
    BY <1>2, <1>3, FS_Singleton
<1>5. \A q \in Task : c \in Children[q] => q = p
  BY <1>4
<1>. QED
  BY <1>1, <1>5 DEF IsChild, Parent

LEMMA UnfinishedFacts ==
  ASSUME NEW p \in Task
  PROVE  /\ IsFiniteSet(Unfinished(p))
         /\ Cardinality(Unfinished(p)) \in 0..Cardinality(Task)
         /\ Cardinality(Unfinished(p)) = 0 <=> Unfinished(p) = {}
<1>1. Unfinished(p) \subseteq Task
  BY ChildFacts DEF Unfinished, Scope
<1>. QED
  BY <1>1, TasksAssumption, FS_Subset, FS_CardinalityType, FS_EmptySet

\* While a child is on its way its parent is suspended.
LEMMA ParentSuspended ==
  ASSUME Types, CountInv, NEW p \in Task, NEW c \in Children[p],
         task[c] \notin {"created", "done"}
  PROVE  task[p] = "suspended" /\ pending[p] # 0
<1>1. c \in Unfinished(p)
  BY DEF Unfinished
<1>. QED
  BY <1>1, UnfinishedFacts DEF Types, CountInv

LEMMA InitIInv == Init => IInv
<1>. SUFFICES ASSUME Init PROVE IInv
  OBVIOUS
<1>1. \A p \in Task : Unfinished(p) = Children[p]
  BY ChildFacts DEF Init, Unfinished, Scope
<1>2. CountInv
  BY <1>1, ChildFacts DEF Init, CountInv, Scope
<1>3. \A p \in Task : Cardinality(Children[p]) \in Nat
  BY <1>1, UnfinishedFacts, FS_CardinalityType
<1>4. Types
  <2>1. \A S : <<>> \in Seq(S)
    OBVIOUS
  <2>. QED
    BY <1>3, <2>1 DEF Init, Types
<1>5. HandInv /\ PoolInv
  BY DEF Init, HandInv, PoolInv
<1>6. PlaceInv
  BY EmptyFacts DEF Init, PlaceInv, Holds, InDeque
<1>7. FrameInv
  BY ChildFacts, TasksAssumption DEF Init, FrameInv, Scope
<1>. QED
  BY <1>2, <1>4, <1>5, <1>6, <1>7 DEF IInv

-----------------------------------------------------------------------------
(* Steps that move no handle.                                              *)

\* Workers that hold nothing change their minds.
LEMMA SamePlaces ==
  ASSUME PlaceInv,
         UNCHANGED <<queues, task>>,
         \A w \in Worker : Holds(w)' <=> Holds(w),
         \A w \in Worker : Holds(w) => hand'[w] = hand[w],
         pool' \in {"alive", "joining"} => pool \in {"alive", "joining"}
  PROVE  PlaceInv' /\ \A t : Placed(t)' <=> Placed(t)
<1>1. \A t : InDeque(t)' <=> InDeque(t)
  BY DEF InDeque, queues
<1>2. \A t : InQueue(t)' <=> InQueue(t)
  BY DEF InQueue, queues
<1>3. \A t : InHand(t)' <=> InHand(t)
  BY DEF InHand
<1>4. \A t : Placed(t)' <=> Placed(t)
  BY <1>1, <1>2, <1>3 DEF Placed
<1>. QED
  BY <1>1, <1>2, <1>3, <1>4 DEF PlaceInv, queues

\* What such a step of a worker leaves alone.
Idles(w) ==
  /\ control[w] \notin {"resume", "run", "exited"}
  /\ control' \in [Worker -> {"check", "pop", "steal", "dequeue", "resume",
                              "run", "spawn", "exited"}]
  /\ control'[w] \in {"check", "pop", "steal", "dequeue", "exited"}
  /\ \A v \in Worker \ {w} : control'[v] = control[v]
  /\ hand' \in [Worker -> Task \cup {Nobody}]
  /\ \A v \in Worker \ {w} : hand'[v] = hand[v]
  /\ victims' \in [Worker -> SUBSET Worker]
  /\ UNCHANGED <<stop, pool, queues, frames>>

LEMMA IdlesIInv ==
  ASSUME IInv, NEW w \in Worker, Idles(w)
  PROVE  IInv'
<1>. USE DEF Idles, IInv
<1>1. Types'
  BY DEF Types, queues, frames
<1>2. HandInv'
  <2>1. control'[w] \notin {"resume", "run", "spawn"}
    OBVIOUS
  <2>2. \A v \in Worker \ {w} : control'[v] = control[v] /\ hand'[v] = hand[v]
    OBVIOUS
  <2>3. task' = task /\ HandInv
    BY DEF frames
  <2>. HIDE DEF Idles, IInv
  <2>. QED
    BY <2>1, <2>2, <2>3 DEF HandInv
<1>3. PlaceInv' /\ \A t : Placed(t)' <=> Placed(t)
  <2>1. \A v \in Worker : Holds(v)' <=> Holds(v)
    BY DEF Holds
  <2>2. \A v \in Worker : Holds(v) => hand'[v] = hand[v]
    BY DEF Holds
  <2>. QED
    BY <2>1, <2>2, SamePlaces DEF frames
<1>4. CountInv'
  BY DEF CountInv, Unfinished, frames
<1>5. FrameInv'
  BY <1>3, TasksAssumption DEF FrameInv, frames
<1>6. PoolInv'
  BY DEF PoolInv, Joined, queues
<1>. QED
  BY <1>1, <1>2, <1>3, <1>4, <1>5, <1>6

LEMMA WorkerIdles ==
  ASSUME IInv, NEW w \in Worker,
         \/ Check(w) \/ PopEmpty(w) \/ StealOver(w) \/ DequeueFails(w)
         \/ Suspended(w) \/ \E v \in Worker : StealFails(w, v)
  PROVE  Idles(w)
<1>. USE DEF Idles, IInv, Types, Goto, queues, frames
<1>1. CASE Check(w)
  BY <1>1 DEF Check
<1>2. CASE PopEmpty(w)
  BY <1>2 DEF PopEmpty
<1>3. CASE StealOver(w)
  BY <1>3 DEF StealOver
<1>4. CASE DequeueFails(w)
  BY <1>4 DEF DequeueFails
<1>5. CASE Suspended(w)
  BY <1>5 DEF Suspended
<1>6. ASSUME NEW v \in Worker, StealFails(w, v) PROVE Idles(w)
  BY <1>6 DEF StealFails
<1>. QED
  BY <1>1, <1>2, <1>3, <1>4, <1>5, <1>6

LEMMA StopIInv == IInv /\ Stop => IInv'
<1>. SUFFICES ASSUME IInv, Stop PROVE IInv'
  OBVIOUS
<1>. USE DEF Stop, IInv
<1>1. Types'
  BY DEF Types, queues, frames
<1>2. HandInv'
  BY DEF HandInv, frames
<1>3. PlaceInv' /\ \A t : Placed(t)' <=> Placed(t)
  <2>1. \A v \in Worker : (Holds(v)' <=> Holds(v)) /\ hand'[v] = hand[v]
    BY DEF Holds
  <2>. QED
    BY <2>1, SamePlaces DEF frames
<1>4. CountInv'
  BY DEF CountInv, Unfinished, frames
<1>5. FrameInv'
  BY <1>3, TasksAssumption DEF FrameInv, frames
<1>6. PoolInv'
  BY DEF PoolInv, queues
<1>. QED
  BY <1>1, <1>2, <1>3, <1>4, <1>5, <1>6

-----------------------------------------------------------------------------
(* Steps that take a handle out of a queue.                                *)

\* The handle goes from the queue it was in to the worker's hand.
LEMMA ObtainPlaces ==
  ASSUME Types, PlaceInv, NEW w \in Worker, NEW h \in Task,
         ~Holds(w), Obtain(w, h), InDeque(h) \/ InQueue(h),
         \A v \in Worker : /\ IsInjective(deques'[v])
                           /\ ToSet(deques'[v]) = ToSet(deques[v]) \ {h},
         \A p \in Thread : /\ IsInjective(newTasks'[p])
                           /\ ToSet(newTasks'[p]) = ToSet(newTasks[p]) \ {h},
         UNCHANGED <<pool, task>>
  PROVE  PlaceInv' /\ (\A t : Placed(t)' <=> Placed(t))
<1>1. \A t : InDeque(t)' <=> InDeque(t) /\ t # h
  BY DEF InDeque
<1>2. \A t : InQueue(t)' <=> InQueue(t) /\ t # h
  BY DEF InQueue
<1>3. /\ \A v \in Worker : Holds(v)' <=> Holds(v) \/ v = w
      /\ \A v \in Worker \ {w} : hand'[v] = hand[v]
      /\ hand'[w] = h
  BY DEF Types, Obtain, Goto, Holds
<1>4. \A v \in Worker : Holds(v) => hand[v] # h
  BY DEF PlaceInv
<1>5. \A t : InHand(t)' <=> InHand(t) \/ t = h
  BY <1>3 DEF InHand
<1>6. \A t : Placed(t)' <=> Placed(t)
  BY <1>1, <1>2, <1>5 DEF Placed
<1>7. task[h] = "queued"
  BY DEF PlaceInv, InDeque, InQueue
<1>8. PlaceInv'
  <2>1. \A v \in Worker :
          /\ IsInjective(deques'[v])
          /\ \A t \in ToSet(deques'[v]) : task'[t] = "queued"
    BY DEF PlaceInv
  <2>2. \A p \in Thread :
          /\ IsInjective(newTasks'[p])
          /\ \A t \in ToSet(newTasks'[p]) : task'[t] = "queued" /\ ~InDeque(t)'
    BY <1>1 DEF PlaceInv
  <2>3. \A u, v \in Worker :
          u # v => ToSet(deques'[u]) \cap ToSet(deques'[v]) = {}
    BY DEF PlaceInv
  <2>4. \A p, q \in Thread :
          p # q => ToSet(newTasks'[p]) \cap ToSet(newTasks'[q]) = {}
    BY DEF PlaceInv
  <2>5. \A v \in Worker :
          Holds(v)' => /\ ~InDeque(hand[v])' /\ ~InQueue(hand[v])'
                       /\ \A u \in Worker :
                            Holds(u)' /\ hand'[u] = hand'[v] => u = v
    BY <1>1, <1>2, <1>3, <1>4 DEF PlaceInv
  <2>6. \A t \in Task : task'[t] \in {"running", "resumed"} => InHand(t)'
    BY <1>5 DEF PlaceInv
  <2>7. \A t \in Task : task'[t] = "queued" /\ pool' \in {"alive", "joining"} =>
          Placed(t)'
    BY <1>6 DEF PlaceInv
  <2>. QED
    BY <2>1, <2>2, <2>3, <2>4, <2>5, <2>6, <2>7 DEF PlaceInv
<1>. QED
  BY <1>6, <1>8

\* Apart from the queues, only the worker's control and hand have changed.
LEMMA ObtainIInv ==
  ASSUME IInv, NEW w \in Worker, NEW h \in Task,
         control[w] \in {"pop", "steal", "dequeue"}, Obtain(w, h),
         InDeque(h) \/ InQueue(h),
         deques' \in [Worker -> Seq(Task)],
         newTasks' \in [Thread -> Seq(Task)],
         victims' \in [Worker -> SUBSET Worker],
         \A v \in Worker : /\ IsInjective(deques'[v])
                           /\ ToSet(deques'[v]) = ToSet(deques[v]) \ {h},
         \A p \in Thread : /\ IsInjective(newTasks'[p])
                           /\ ToSet(newTasks'[p]) = ToSet(newTasks[p]) \ {h},
         UNCHANGED <<stop, pool, frames>>
  PROVE  IInv'
<1>1. ~Holds(w)
  BY DEF Holds
<1>2. Types /\ HandInv /\ PlaceInv /\ CountInv /\ FrameInv /\ PoolInv
  BY DEF IInv
<1>3. /\ control' = [control EXCEPT ![w] = "resume"]
      /\ hand' = [hand EXCEPT ![w] = h]
  BY DEF Obtain, Goto
<1>4. UNCHANGED <<task, pending, destroyed>>
  BY DEF frames
<1>5. Types'
  BY <1>2, <1>3, <1>4 DEF Types
<1>6. task[h] = "queued"
  BY <1>2 DEF PlaceInv, InDeque, InQueue
<1>7. HandInv'
  BY <1>2, <1>3, <1>4, <1>6 DEF Types, HandInv
<1>8. PlaceInv' /\ (\A t : Placed(t)' <=> Placed(t))
  BY <1>1, <1>2, <1>4, ObtainPlaces
<1>9. CountInv'
  BY <1>2, <1>4 DEF CountInv, Unfinished
<1>10. FrameInv'
  BY <1>2, <1>4, <1>8, TasksAssumption DEF FrameInv
<1>11. pool \notin {"drained", "destroyed"}
  BY <1>2 DEF PoolInv, Joined
<1>12. PoolInv'
  BY <1>11 DEF PoolInv
<1>. QED
  BY <1>5, <1>7, <1>8, <1>9, <1>10, <1>12 DEF IInv

\* In a deque, one end or the other.
LEMMA TakeFromDequeIInv ==
  ASSUME IInv, NEW w \in Worker, NEW v \in Worker, NEW h,
         control[w] \in {"pop", "steal"}, Obtain(w, h), deques[v] # <<>>,
         \/ h = Last(deques[v]) /\ deques' = [deques EXCEPT ![v] = Front(@)]
         \/ h = Head(deques[v]) /\ deques' = [deques EXCEPT ![v] = Tail(@)],
         victims' \in [Worker -> SUBSET Worker],
         UNCHANGED <<stop, pool, newTasks, frames>>
  PROVE  IInv'
<1>1. deques \in [Worker -> Seq(Task)] /\ newTasks \in [Thread -> Seq(Task)]
  BY DEF IInv, Types
<1>2. IsInjective(deques[v])
  BY DEF IInv, PlaceInv
<1>3. deques[v] \in Seq(Task)
  BY <1>1
<1>4. /\ h \in Task
      /\ h \in ToSet(deques[v])
      /\ deques' \in [Worker -> Seq(Task)]
      /\ IsInjective(deques'[v])
      /\ ToSet(deques'[v]) = ToSet(deques[v]) \ {h}
      /\ \A u \in Worker \ {v} : deques'[u] = deques[u]
  <2>1. CASE h = Last(deques[v]) /\ deques' = [deques EXCEPT ![v] = Front(@)]
    BY <1>1, <1>2, <1>3, <2>1, LastFacts
  <2>2. CASE h = Head(deques[v]) /\ deques' = [deques EXCEPT ![v] = Tail(@)]
    BY <1>1, <1>2, <1>3, <2>2, HeadFacts
  <2>. QED
    BY <2>1, <2>2
<1>5. \A u \in Worker \ {v} : h \notin ToSet(deques[u])
  BY <1>4 DEF IInv, PlaceInv
<1>6. InDeque(h)
  BY <1>4 DEF InDeque
<1>7. \A p \in Thread : h \notin ToSet(newTasks[p])
  BY <1>6 DEF IInv, PlaceInv
<1>8. \A u \in Worker : /\ IsInjective(deques'[u])
                        /\ ToSet(deques'[u]) = ToSet(deques[u]) \ {h}
  BY <1>4, <1>5 DEF IInv, PlaceInv
<1>9. \A p \in Thread : /\ IsInjective(newTasks'[p])
                        /\ ToSet(newTasks'[p]) = ToSet(newTasks[p]) \ {h}
  BY <1>7 DEF IInv, PlaceInv
<1>. QED
  BY <1>1, <1>4, <1>6, <1>8, <1>9, ObtainIInv

LEMMA PopOwnIInv == \A w \in Worker : IInv /\ PopOwn(w) => IInv'
<1>. SUFFICES ASSUME IInv, NEW w \in Worker, PopOwn(w) PROVE IInv'
  OBVIOUS
<1>. DEFINE h == Last(deques[w])
<1>1. victims' \in [Worker -> SUBSET Worker]
  BY DEF IInv, Types, PopOwn
<1>2. /\ control[w] = "pop"
      /\ deques[w] # <<>>
      /\ Obtain(w, h)
      /\ \/ h = Last(deques[w]) /\ deques' = [deques EXCEPT ![w] = Front(@)]
         \/ h = Head(deques[w]) /\ deques' = [deques EXCEPT ![w] = Tail(@)]
      /\ UNCHANGED <<stop, pool, newTasks, frames>>
  BY DEF PopOwn
<1>. HIDE DEF h
<1>. QED
  BY <1>1, <1>2, TakeFromDequeIInv

LEMMA StealFromIInv ==
  \A w \in Worker : \A v \in Worker : IInv /\ StealFrom(w, v) => IInv'
<1>. SUFFICES ASSUME IInv, NEW w \in Worker, NEW v \in Worker, StealFrom(w, v)
              PROVE  IInv'
  OBVIOUS
<1>. DEFINE h == Head(deques[v])
<1>1. victims' \in [Worker -> SUBSET Worker]
  BY DEF IInv, Types, StealFrom
<1>2. /\ control[w] = "steal"
      /\ deques[v] # <<>>
      /\ Obtain(w, h)
      /\ \/ h = Last(deques[v]) /\ deques' = [deques EXCEPT ![v] = Front(@)]
         \/ h = Head(deques[v]) /\ deques' = [deques EXCEPT ![v] = Tail(@)]
      /\ UNCHANGED <<stop, pool, newTasks, frames>>
  BY DEF StealFrom, RemoveTop
<1>. HIDE DEF h
<1>. QED
  BY <1>1, <1>2, TakeFromDequeIInv

LEMMA DequeueIInv ==
  \A w \in Worker : \A p \in Thread : IInv /\ Dequeue(w, p) => IInv'
<1>. SUFFICES ASSUME IInv, NEW w \in Worker, NEW p \in Thread, Dequeue(w, p)
              PROVE  IInv'
  OBVIOUS
<1>. DEFINE h == Head(newTasks[p])
<1>1. deques \in [Worker -> Seq(Task)] /\ newTasks \in [Thread -> Seq(Task)]
  BY DEF IInv, Types
<1>2. IsInjective(newTasks[p])
  BY DEF IInv, PlaceInv
<1>3. newTasks[p] \in Seq(Task) /\ newTasks[p] # <<>>
  BY <1>1 DEF Dequeue
<1>4. /\ h \in Task
      /\ h \in ToSet(newTasks[p])
      /\ Tail(newTasks[p]) \in Seq(Task)
      /\ IsInjective(Tail(newTasks[p]))
      /\ ToSet(Tail(newTasks[p])) = ToSet(newTasks[p]) \ {h}
  BY <1>2, <1>3, HeadFacts
<1>5. /\ newTasks' \in [Thread -> Seq(Task)]
      /\ newTasks'[p] = Tail(newTasks[p])
      /\ \A q \in Thread \ {p} : newTasks'[q] = newTasks[q]
  BY <1>1, <1>4 DEF Dequeue
<1>6. /\ control[w] = "dequeue"
      /\ Obtain(w, h)
      /\ victims' \in [Worker -> SUBSET Worker]
      /\ UNCHANGED <<stop, pool, deques, frames>>
  BY DEF Dequeue, IInv, Types
<1>. HIDE DEF h
<1>7. \A q \in Thread \ {p} : h \notin ToSet(newTasks[q])
  BY <1>4 DEF IInv, PlaceInv
<1>8. InQueue(h) /\ ~InDeque(h)
  BY <1>4 DEF InQueue, IInv, PlaceInv
<1>9. \A u \in Worker : /\ IsInjective(deques'[u])
                        /\ ToSet(deques'[u]) = ToSet(deques[u]) \ {h}
  BY <1>6, <1>8 DEF InDeque, IInv, PlaceInv
<1>10. \A q \in Thread : /\ IsInjective(newTasks'[q])
                         /\ ToSet(newTasks'[q]) = ToSet(newTasks[q]) \ {h}
  <2>1. /\ IsInjective(newTasks'[p])
        /\ ToSet(newTasks'[p]) = ToSet(newTasks[p]) \ {h}
    BY <1>4, <1>5
  <2>2. ASSUME NEW q \in Thread \ {p}
        PROVE  /\ IsInjective(newTasks'[q])
               /\ ToSet(newTasks'[q]) = ToSet(newTasks[q]) \ {h}
    <3>1. newTasks'[q] = newTasks[q] /\ h \notin ToSet(newTasks[q])
      BY <1>5, <1>7
    <3>2. IsInjective(newTasks[q])
      BY DEF IInv, PlaceInv
    <3>3. ToSet(newTasks[q]) \ {h} = ToSet(newTasks[q])
      BY <3>1
    <3>. QED
      BY <3>1, <3>2, <3>3
  <2>. QED
    BY <2>1, <2>2
<1>. QED
  BY <1>1, <1>4, <1>5, <1>6, <1>8, <1>9, <1>10, ObtainIInv

-----------------------------------------------------------------------------
(* Steps that schedule a task.                                             *)

\* A task that was only created is nowhere.
LEMMA CreatedNotPlaced ==
  ASSUME HandInv, PlaceInv, NEW t \in Task, task[t] = "created"
  PROVE  ~InDeque(t) /\ ~InQueue(t) /\ ~InHand(t)
BY DEF HandInv, PlaceInv, InDeque, InQueue, InHand, Holds

\* Its handle goes to one queue.
LEMMA EnterPlaces ==
  ASSUME Types, HandInv, PlaceInv, NEW t \in Task, task[t] = "created",
         task' = [task EXCEPT ![t] = "queued"],
         \A v \in Worker : /\ IsInjective(deques'[v])
                           /\ ToSet(deques'[v]) \ {t} = ToSet(deques[v]),
         \A p \in Thread : /\ IsInjective(newTasks'[p])
                           /\ ToSet(newTasks'[p]) \ {t} = ToSet(newTasks[p]),
         InDeque(t)' <=> ~InQueue(t)',
         \A u, v \in Worker :
           t \in ToSet(deques'[u]) /\ t \in ToSet(deques'[v]) => u = v,
         \A p, q \in Thread :
           t \in ToSet(newTasks'[p]) /\ t \in ToSet(newTasks'[q]) => p = q,
         UNCHANGED <<pool, control, hand>>
  PROVE  PlaceInv' /\ (\A x : Placed(x)' <=> Placed(x) \/ x = t)
<1>0. ~InDeque(t) /\ ~InQueue(t) /\ ~InHand(t)
  BY CreatedNotPlaced
<1>1. \A x : x # t => (InDeque(x)' <=> InDeque(x))
  BY DEF InDeque
<1>2. \A x : x # t => (InQueue(x)' <=> InQueue(x))
  BY DEF InQueue
<1>3. /\ \A x : InHand(x)' <=> InHand(x)
      /\ \A v \in Worker : Holds(v)' <=> Holds(v)
  BY DEF InHand, Holds
<1>4. \A x : Placed(x)' <=> Placed(x) \/ x = t
  BY <1>0, <1>1, <1>2, <1>3 DEF Placed
<1>5. PlaceInv'
  <2>1. \A v \in Worker :
          /\ IsInjective(deques'[v])
          /\ \A x \in ToSet(deques'[v]) : task'[x] = "queued"
    BY DEF Types, PlaceInv
  <2>2. \A p \in Thread :
          /\ IsInjective(newTasks'[p])
          /\ \A x \in ToSet(newTasks'[p]) : task'[x] = "queued" /\ ~InDeque(x)'
    <3>1. ASSUME NEW p \in Thread, NEW x \in ToSet(newTasks'[p])
          PROVE  task'[x] = "queued" /\ ~InDeque(x)'
      <4>1. CASE x = t
        <5>1. InQueue(t)'
          BY <4>1 DEF InQueue
        <5>. QED
          BY <4>1, <5>1 DEF Types
      <4>2. CASE x # t
        BY <1>1, <4>2 DEF Types, PlaceInv
      <4>. QED
        BY <4>1, <4>2
    <3>. QED
      BY <3>1
  <2>3. \A u, v \in Worker :
          u # v => ToSet(deques'[u]) \cap ToSet(deques'[v]) = {}
    BY DEF PlaceInv
  <2>4. \A p, q \in Thread :
          p # q => ToSet(newTasks'[p]) \cap ToSet(newTasks'[q]) = {}
    BY DEF PlaceInv
  <2>5. \A v \in Worker :
          Holds(v)' => /\ ~InDeque(hand[v])' /\ ~InQueue(hand[v])'
                       /\ \A u \in Worker :
                            Holds(u)' /\ hand'[u] = hand'[v] => u = v
    BY <1>0, <1>1, <1>2, <1>3 DEF PlaceInv, InHand
  <2>6. \A x \in Task : task'[x] \in {"running", "resumed"} => InHand(x)'
    BY <1>3 DEF Types, PlaceInv
  <2>7. \A x \in Task : task'[x] = "queued" /\ pool' \in {"alive", "joining"} =>
          Placed(x)'
    BY <1>4 DEF Types, PlaceInv
  <2>. QED
    BY <2>1, <2>2, <2>3, <2>4, <2>5, <2>6, <2>7 DEF PlaceInv
<1>. QED
  BY <1>4, <1>5

\* Its parent, if it has one, is already suspended.
LEMMA EnterIInv ==
  ASSUME IInv, NEW t \in Task, task[t] = "created",
         \A p \in Task : t \in Children[p] =>
           task[p] \notin {"created", "queued", "running"},
         task' = [task EXCEPT ![t] = "queued"],
         deques' \in [Worker -> Seq(Task)],
         newTasks' \in [Thread -> Seq(Task)],
         pool \in {"drained", "destroyed"} => UNCHANGED queues,
         PlaceInv',
         \A x : Placed(x)' <=> Placed(x) \/ x = t,
         UNCHANGED <<stop, pool, control, hand, victims, pending, destroyed>>
  PROVE  IInv'
<1>. USE DEF IInv
<1>1. Types'
  BY DEF Types
<1>2. HandInv'
  BY DEF Types, HandInv
<1>3. CountInv'
  <2>. SUFFICES ASSUME NEW p \in Task
                PROVE  /\ pending'[p] = Cardinality(Unfinished(p)')
                       /\ task'[p] \in {"created", "queued", "running"} =>
                            \A c \in Children[p] : task'[c] = "created"
                       /\ task'[p] = "suspended" => pending'[p] # 0
                       /\ task'[p] \in {"resumed", "done"} => pending'[p] = 0
    BY DEF CountInv, Unfinished
  <2>1. Unfinished(p)' = Unfinished(p)
    BY ChildFacts DEF Types, Unfinished, Scope
  <2>. QED
    BY <2>1 DEF Types, CountInv
<1>4. FrameInv'
  <2>1. /\ \A x \in Task : x # t => task'[x] = task[x]
        /\ task'[t] = "queued"
    BY DEF Types
  <2>. QED
    BY <2>1, TasksAssumption DEF FrameInv, Scope
<1>5. PoolInv'
  BY DEF PoolInv, Joined, queues
<1>. QED
  BY <1>1, <1>2, <1>3, <1>4, <1>5

LEMMA AddTaskIInv ==
  \A w \in Worker : \A t \in Task : IInv /\ AddTask(w, t) => IInv'
<1>. SUFFICES ASSUME IInv, NEW w \in Worker, NEW t \in Task, AddTask(w, t)
              PROVE  IInv'
  OBVIOUS
<1>1. /\ control[w] = "spawn"
      /\ t \in Children[hand[w]]
      /\ task[t] = "created"
      /\ deques' = [deques EXCEPT ![w] = Append(@, t)]
      /\ task' = [task EXCEPT ![t] = "queued"]
      /\ UNCHANGED <<stop, pool, control, hand, victims, newTasks, pending,
                     destroyed>>
  BY DEF AddTask
<1>2. Types /\ HandInv /\ PlaceInv
  BY DEF IInv
<1>3. deques \in [Worker -> Seq(Task)] /\ newTasks \in [Thread -> Seq(Task)]
  BY <1>2 DEF Types
<1>4. deques[w] \in Seq(Task) /\ IsInjective(deques[w])
  BY <1>2, <1>3 DEF PlaceInv
<1>5. ~InDeque(t) /\ ~InQueue(t)
  BY <1>1, <1>2, CreatedNotPlaced
<1>6. /\ deques' \in [Worker -> Seq(Task)]
      /\ IsInjective(deques'[w])
      /\ ToSet(deques'[w]) = ToSet(deques[w]) \cup {t}
      /\ \A v \in Worker \ {w} : deques'[v] = deques[v]
  BY <1>1, <1>3, <1>4, <1>5, AppendFacts DEF InDeque
<1>7. /\ InDeque(t)'
      /\ ~InQueue(t)'
      /\ \A v \in Worker : t \in ToSet(deques'[v]) => v = w
      /\ \A p \in Thread : t \notin ToSet(newTasks'[p])
  BY <1>1, <1>5, <1>6 DEF InDeque, InQueue
<1>8. PlaceInv' /\ (\A x : Placed(x)' <=> Placed(x) \/ x = t)
  <2>1. \A v \in Worker : /\ IsInjective(deques'[v])
                          /\ ToSet(deques'[v]) \ {t} = ToSet(deques[v])
    BY <1>2, <1>5, <1>6 DEF PlaceInv, InDeque
  <2>2. \A p \in Thread : /\ IsInjective(newTasks'[p])
                          /\ ToSet(newTasks'[p]) \ {t} = ToSet(newTasks[p])
    BY <1>1, <1>2, <1>5 DEF PlaceInv, InQueue
  <2>. QED
    BY <1>1, <1>2, <1>7, <2>1, <2>2, EnterPlaces
<1>9. hand[w] \in Task /\ task[hand[w]] \in {"suspended", "resumed", "done"}
  BY <1>1, <1>2 DEF HandInv
<1>10. \A p \in Task : t \in Children[p] =>
         task[p] \notin {"created", "queued", "running"}
  BY <1>1, <1>9, ChildFacts
<1>11. pool \notin {"drained", "destroyed"}
  BY <1>1 DEF IInv, PoolInv, Joined
<1>. QED
  BY <1>1, <1>3, <1>6, <1>8, <1>10, <1>11, EnterIInv

\* add_task_from_outside, of a thread outside or of a running task.
LEMMA EnqueueIInv ==
  ASSUME IInv, NEW p \in Thread, NEW t \in Task, Enqueue(p, t),
         \A q \in Task : t \notin Children[q],
         pool \in {"alive", "joining"},
         UNCHANGED <<stop, pool, control, hand, victims, deques, pending,
                     destroyed>>
  PROVE  IInv'
<1>1. /\ task[t] = "created"
      /\ newTasks' = [newTasks EXCEPT ![p] = Append(@, t)]
      /\ task' = [task EXCEPT ![t] = "queued"]
  BY DEF Enqueue
<1>2. Types /\ HandInv /\ PlaceInv
  BY DEF IInv
<1>3. deques \in [Worker -> Seq(Task)] /\ newTasks \in [Thread -> Seq(Task)]
  BY <1>2 DEF Types
<1>4. newTasks[p] \in Seq(Task) /\ IsInjective(newTasks[p])
  BY <1>2, <1>3 DEF PlaceInv
<1>5. ~InDeque(t) /\ ~InQueue(t)
  BY <1>1, <1>2, CreatedNotPlaced
<1>6. /\ newTasks' \in [Thread -> Seq(Task)]
      /\ IsInjective(newTasks'[p])
      /\ ToSet(newTasks'[p]) = ToSet(newTasks[p]) \cup {t}
      /\ \A q \in Thread \ {p} : newTasks'[q] = newTasks[q]
  BY <1>1, <1>3, <1>4, <1>5, AppendFacts DEF InQueue
<1>7. /\ InQueue(t)'
      /\ ~InDeque(t)'
      /\ \A q \in Thread : t \in ToSet(newTasks'[q]) => q = p
      /\ \A v \in Worker : t \notin ToSet(deques'[v])
  BY <1>5, <1>6 DEF InDeque, InQueue
<1>8. PlaceInv' /\ (\A x : Placed(x)' <=> Placed(x) \/ x = t)
  <2>1. \A v \in Worker : /\ IsInjective(deques'[v])
                          /\ ToSet(deques'[v]) \ {t} = ToSet(deques[v])
    BY <1>2, <1>5 DEF PlaceInv, InDeque
  <2>2. \A q \in Thread : /\ IsInjective(newTasks'[q])
                          /\ ToSet(newTasks'[q]) \ {t} = ToSet(newTasks[q])
    BY <1>2, <1>5, <1>6 DEF PlaceInv, InQueue
  <2>. QED
    BY <1>1, <1>2, <1>7, <2>1, <2>2, EnterPlaces
<1>. QED
  BY <1>1, <1>3, <1>6, <1>8, EnterIInv

LEMMA EnqueueOutsideIInv ==
  \A t \in External : IInv /\ EnqueueOutside(t) => IInv'
<1>. SUFFICES ASSUME IInv, NEW t \in External, EnqueueOutside(t) PROVE IInv'
  OBVIOUS
<1>1. t \in Task /\ By[t] \in Thread /\ \A q \in Task : t \notin Children[q]
  BY TasksAssumption DEF Thread
<1>. QED
  BY <1>1, EnqueueIInv DEF EnqueueOutside

LEMMA InjectIInv ==
  \A w \in Worker : \A t \in Task : IInv /\ Inject(w, t) => IInv'
<1>. SUFFICES ASSUME IInv, NEW w \in Worker, NEW t \in Task, Inject(w, t)
              PROVE  IInv'
  OBVIOUS
<1>1. hand[w] \in Task
  BY DEF IInv, HandInv, Inject
<1>2. \A q \in Task : t \notin Children[q]
  BY <1>1, TasksAssumption DEF Inject
<1>3. pool \in {"alive", "joining"}
  BY DEF IInv, Types, PoolInv, Joined, Inject
<1>. QED
  BY <1>2, <1>3, EnqueueIInv DEF Inject, Thread

-----------------------------------------------------------------------------
(* Steps of the task in a worker's hand.                                   *)

LEMMA ResumeIInv == \A w \in Worker : IInv /\ Resume(w) => IInv'
<1>. SUFFICES ASSUME IInv, NEW w \in Worker, Resume(w) PROVE IInv'
  OBVIOUS
<1>. DEFINE h == hand[w]
<1>1. /\ control[w] = "resume"
      /\ task' = [task EXCEPT ![h] = "running"]
      /\ control' = [control EXCEPT ![w] = "run"]
      /\ UNCHANGED <<stop, pool, hand, victims, deques, newTasks, pending,
                     destroyed>>
  BY DEF Resume, Goto, queues
<1>2. Types /\ HandInv /\ PlaceInv /\ CountInv /\ FrameInv /\ PoolInv
  BY DEF IInv
<1>3. h \in Task /\ task[h] = "queued"
  BY <1>1, <1>2 DEF HandInv
<1>4. /\ ~InDeque(h)
      /\ ~InQueue(h)
      /\ InHand(h)
      /\ \A v \in Worker : Holds(v) /\ hand[v] = h => v = w
  BY <1>1, <1>2 DEF PlaceInv, Holds, InHand
<1>. HIDE DEF h
<1>5. Types'
  BY <1>1, <1>2, <1>3 DEF Types
<1>6. HandInv'
  <2>. SUFFICES ASSUME NEW v \in Worker
       PROVE  /\ control'[v] \in {"resume", "run", "spawn"} => hand'[v] \in Task
              /\ control'[v] = "resume" => task'[hand'[v]] = "queued"
              /\ control'[v] = "run" => task'[hand'[v]] \in {"running", "resumed"}
              /\ control'[v] = "spawn" =>
                   task'[hand'[v]] \in {"suspended", "resumed", "done"}
    BY DEF HandInv
  <2>1. CASE v = w
    BY <1>1, <1>2, <1>3, <2>1 DEF Types, h
  <2>2. CASE v # w
    <3>1. control'[v] = control[v] /\ hand'[v] = hand[v]
      BY <1>1, <1>2, <2>2 DEF Types
    <3>2. Holds(v) => hand[v] # h
      BY <1>4, <2>2
    <3>. QED
      BY <1>1, <1>2, <1>3, <3>1, <3>2 DEF Types, HandInv, Holds
  <2>. QED
    BY <2>1, <2>2
<1>7. /\ \A v \in Worker : (Holds(v)' <=> Holds(v)) /\ hand'[v] = hand[v]
      /\ \A t : InHand(t)' <=> InHand(t)
  BY <1>1, <1>2 DEF Types, Holds, InHand
<1>8. \A t : /\ InDeque(t)' <=> InDeque(t)
             /\ InQueue(t)' <=> InQueue(t)
             /\ Placed(t)' <=> Placed(t)
  BY <1>1, <1>7 DEF InDeque, InQueue, Placed
<1>9. /\ task'[h] = "running"
      /\ \A t \in Task : t # h => task'[t] = task[t]
      /\ \A v \in Worker : ToSet(deques[v]) \subseteq Task /\ h \notin ToSet(deques[v])
      /\ \A p \in Thread : ToSet(newTasks[p]) \subseteq Task /\ h \notin ToSet(newTasks[p])
  BY <1>1, <1>2, <1>3, <1>4 DEF Types, InDeque, InQueue, ToSet
<1>10. PlaceInv'
  BY <1>1, <1>2, <1>4, <1>7, <1>8, <1>9 DEF PlaceInv
<1>11. CountInv'
  <2>1. \A p \in Task : Unfinished(p)' = Unfinished(p)
    BY <1>3, <1>9, ChildFacts DEF Unfinished, Scope
  <2>2. \A p \in Task : h \in Children[p] =>
          task[p] = "suspended"
    BY <1>2, <1>3, ParentSuspended
  <2>. QED
    BY <1>1, <1>2, <1>3, <1>9, <2>1, <2>2, ChildFacts DEF CountInv, Scope
<1>12. FrameInv'
  BY <1>1, <1>2, <1>3, <1>4, <1>8, <1>9, TasksAssumption
     DEF FrameInv, Scope, Placed
<1>13. PoolInv'
  BY <1>1, <1>2 DEF PoolInv, Joined
<1>. QED
  BY <1>5, <1>6, <1>10, <1>11, <1>12, <1>13 DEF IInv

LEMMA AwaitIInv == \A w \in Worker : IInv /\ Await(w) => IInv'
<1>. SUFFICES ASSUME IInv, NEW w \in Worker, Await(w) PROVE IInv'
  OBVIOUS
<1>. DEFINE h == hand[w]
<1>1. /\ control[w] = "run"
      /\ task[h] = "running"
      /\ Children[h] # {}
      /\ task' = [task EXCEPT ![h] = "suspended"]
      /\ control' = [control EXCEPT ![w] = "spawn"]
      /\ UNCHANGED <<stop, pool, hand, victims, deques, newTasks, pending,
                     destroyed>>
  BY DEF Await, Goto, queues
<1>2. Types /\ HandInv /\ PlaceInv /\ CountInv /\ FrameInv /\ PoolInv
  BY DEF IInv
<1>3. h \in Task
  BY <1>1, <1>2 DEF HandInv
<1>4. /\ ~InDeque(h)
      /\ ~InQueue(h)
      /\ \A v \in Worker : Holds(v) /\ hand[v] = h => v = w
  BY <1>1, <1>2 DEF PlaceInv, Holds
<1>. HIDE DEF h
<1>5. Types'
  BY <1>1, <1>2, <1>3 DEF Types
<1>6. HandInv'
  <2>. SUFFICES ASSUME NEW v \in Worker
       PROVE  /\ control'[v] \in {"resume", "run", "spawn"} => hand'[v] \in Task
              /\ control'[v] = "resume" => task'[hand'[v]] = "queued"
              /\ control'[v] = "run" => task'[hand'[v]] \in {"running", "resumed"}
              /\ control'[v] = "spawn" =>
                   task'[hand'[v]] \in {"suspended", "resumed", "done"}
    BY DEF HandInv
  <2>1. CASE v = w
    BY <1>1, <1>2, <1>3, <2>1 DEF Types, h
  <2>2. CASE v # w
    <3>1. control'[v] = control[v] /\ hand'[v] = hand[v]
      BY <1>1, <1>2, <2>2 DEF Types
    <3>2. Holds(v) => hand[v] # h
      BY <1>4, <2>2
    <3>. QED
      BY <1>1, <1>2, <1>3, <3>1, <3>2 DEF Types, HandInv, Holds
  <2>. QED
    BY <2>1, <2>2
<1>7. /\ \A v \in Worker : (Holds(v)' <=> Holds(v) /\ v # w) /\ hand'[v] = hand[v]
      /\ \A t : InHand(t)' <=> InHand(t) /\ t # h
  <2>1. \A v \in Worker : (Holds(v)' <=> Holds(v) /\ v # w) /\ hand'[v] = hand[v]
    BY <1>1, <1>2 DEF Types, Holds
  <2>2. hand[w] = h
    BY DEF h
  <2>. QED
    BY <1>4, <2>1, <2>2 DEF InHand
<1>8. \A t : /\ InDeque(t)' <=> InDeque(t)
             /\ InQueue(t)' <=> InQueue(t)
             /\ Placed(t)' <=> Placed(t) /\ t # h
  BY <1>1, <1>4, <1>7 DEF InDeque, InQueue, Placed
<1>9. /\ task'[h] = "suspended"
      /\ \A t \in Task : t # h => task'[t] = task[t]
      /\ \A v \in Worker : ToSet(deques[v]) \subseteq Task /\ h \notin ToSet(deques[v])
      /\ \A p \in Thread : ToSet(newTasks[p]) \subseteq Task /\ h \notin ToSet(newTasks[p])
  BY <1>1, <1>2, <1>3, <1>4 DEF Types, InDeque, InQueue, ToSet
<1>10. PlaceInv'
  BY <1>1, <1>2, <1>4, <1>7, <1>8, <1>9 DEF PlaceInv
<1>11. CountInv'
  <2>1. \A p \in Task : Unfinished(p)' = Unfinished(p)
    BY <1>1, <1>3, <1>9, ChildFacts DEF Unfinished, Scope
  <2>2. \A p \in Task : h \in Children[p] =>
          task[p] = "suspended"
    BY <1>1, <1>2, <1>3, ParentSuspended
  <2>3. Unfinished(h) # {}
    BY <1>1, <1>2, <1>3 DEF Unfinished, CountInv
  <2>4. pending[h] # 0
    BY <1>2, <1>3, <2>3, UnfinishedFacts DEF CountInv
  <2>. QED
    BY <1>1, <1>2, <1>3, <1>9, <2>1, <2>2, <2>4, ChildFacts DEF CountInv, Scope
<1>12. FrameInv'
  BY <1>1, <1>2, <1>3, <1>8, <1>9, TasksAssumption
     DEF FrameInv, Scope
<1>13. PoolInv'
  BY <1>1, <1>2 DEF PoolInv, Joined
<1>. QED
  BY <1>5, <1>6, <1>10, <1>11, <1>12, <1>13 DEF IInv

\* The parent that the worker of h goes on with, if h was the last child.
Transfers(h) == IsChild(h) /\ LastChild(pending[Parent(h)])

\* How a task that runs to its end changes the tasks and their counts.
LEMMA FinishFacts ==
  ASSUME IInv, NEW w \in Worker, Finish(w), NEW h, h = hand[w]
  PROVE  /\ control[w] = "run"
         /\ h \in Task
         /\ task[h] \in {"running", "resumed"}
         /\ Unfinished(h) = {}
         /\ \A q \in Task : h \in Children[q] =>
              task[q] = "suspended" /\ q = Parent(h) /\ pending[q] \in Nat \ {0}
         /\ Transfers(h) =>
              /\ Parent(h) \in Task
              /\ h \in Children[Parent(h)]
              /\ task[Parent(h)] = "suspended"
              /\ pending[Parent(h)] = 1
         /\ task' = [u \in Task |-> IF u = h THEN "done"
                                    ELSE IF Transfers(h) /\ u = Parent(h)
                                    THEN "resumed" ELSE task[u]]
         /\ pending' = [u \in Task |-> IF h \in Children[u] THEN pending[u] - 1
                                       ELSE pending[u]]
         /\ destroyed' = [u \in Task |-> destroyed[u] +
                                           IF u \in Ends(h) THEN 1 ELSE 0]
         /\ hand' = [hand EXCEPT ![w] = IF Transfers(h) THEN Parent(h)
                                        ELSE Nobody]
         /\ control' = [control EXCEPT ![w] = IF Transfers(h) THEN "run"
                                              ELSE "check"]
         /\ UNCHANGED <<stop, pool, victims, deques, newTasks>>
<1>1. /\ control[w] = "run"
      /\ h \in Task
      /\ task[h] \in {"running", "resumed"}
  BY DEF IInv, HandInv, Finish
<1>2. Types /\ CountInv
  BY DEF IInv
<1>3. Unfinished(h) = {}
  <2>1. CASE task[h] = "resumed"
    BY <1>1, <1>2, <2>1, UnfinishedFacts DEF CountInv
  <2>2. CASE Children[h] = {}
    BY <2>2 DEF Unfinished
  <2>. QED
    BY <1>1, <2>1, <2>2 DEF Finish
<1>4. \A q \in Task : h \in Children[q] =>
        task[q] = "suspended" /\ q = Parent(h) /\ pending[q] \in Nat \ {0}
  BY <1>1, <1>2, ParentSuspended, ChildFacts DEF Types
<1>5. Transfers(h) =>
        /\ Parent(h) \in Task
        /\ h \in Children[Parent(h)]
        /\ task[Parent(h)] = "suspended"
        /\ pending[Parent(h)] = 1
  BY <1>4 DEF Transfers, IsChild, LastChild
<1>6. /\ task' = [u \in Task |-> IF u = h THEN "done"
                                 ELSE IF Transfers(h) /\ u = Parent(h)
                                 THEN "resumed" ELSE task[u]]
      /\ pending' = [u \in Task |-> IF h \in Children[u] THEN pending[u] - 1
                                    ELSE pending[u]]
      /\ destroyed' = [u \in Task |-> destroyed[u] +
                                        IF u \in Ends(h) THEN 1 ELSE 0]
      /\ hand' = [hand EXCEPT ![w] = IF Transfers(h) THEN Parent(h) ELSE Nobody]
      /\ control' = [control EXCEPT ![w] = IF Transfers(h) THEN "run"
                                           ELSE "check"]
      /\ UNCHANGED <<stop, pool, victims, deques, newTasks>>
  BY DEF Finish, Goto, Destroy, Transfers, queues
<1>. QED
  BY <1>1, <1>3, <1>4, <1>5, <1>6

LEMMA FinishCount ==
  ASSUME IInv, NEW w \in Worker, Finish(w)
  PROVE  CountInv'
<1>. DEFINE h == hand[w]
<1>0. h = hand[w]
  OBVIOUS
<1>. HIDE DEF h
<1>1. /\ h \in Task
      /\ task[h] \in {"running", "resumed"}
      /\ Unfinished(h) = {}
      /\ \A q \in Task : h \in Children[q] =>
           task[q] = "suspended" /\ q = Parent(h) /\ pending[q] \in Nat \ {0}
      /\ Transfers(h) =>
           /\ Parent(h) \in Task
           /\ h \in Children[Parent(h)]
           /\ task[Parent(h)] = "suspended"
           /\ pending[Parent(h)] = 1
      /\ task' = [u \in Task |-> IF u = h THEN "done"
                                 ELSE IF Transfers(h) /\ u = Parent(h)
                                 THEN "resumed" ELSE task[u]]
      /\ pending' = [u \in Task |-> IF h \in Children[u] THEN pending[u] - 1
                                    ELSE pending[u]]
  BY <1>0, FinishFacts
<1>2. Types /\ CountInv
  BY DEF IInv
<1>. SUFFICES ASSUME NEW q \in Task
              PROVE  /\ pending'[q] = Cardinality(Unfinished(q)')
                     /\ task'[q] \in {"created", "queued", "running"} =>
                          \A c \in Children[q] : task'[c] = "created"
                     /\ task'[q] = "suspended" => pending'[q] # 0
                     /\ task'[q] \in {"resumed", "done"} => pending'[q] = 0
  BY DEF CountInv, Unfinished
<1>3. \A c \in Task : task'[c] = "done" <=> c = h \/ task[c] = "done"
  BY <1>1
<1>4. Unfinished(q)' = Unfinished(q) \ {h}
  BY <1>3, ChildFacts DEF Unfinished, Scope
<1>5. pending[q] = Cardinality(Unfinished(q)) /\ IsFiniteSet(Unfinished(q))
  BY <1>2, UnfinishedFacts DEF CountInv
<1>6. h \in Children[q] <=> h \in Unfinished(q)
  BY <1>1 DEF Unfinished
<1>7. pending'[q] = Cardinality(Unfinished(q)')
  <2>1. Cardinality(Unfinished(q) \ {h}) =
          IF h \in Unfinished(q) THEN Cardinality(Unfinished(q)) - 1
          ELSE Cardinality(Unfinished(q))
    BY <1>5, FS_RemoveElement
  <2>2. pending'[q] = IF h \in Children[q] THEN pending[q] - 1 ELSE pending[q]
    BY <1>1
  <2>. QED
    BY <1>4, <1>5, <1>6, <2>1, <2>2
<1>8. task'[q] \in {"created", "queued", "running"} =>
        \A c \in Children[q] : task'[c] = "created"
  <2>. SUFFICES ASSUME task'[q] \in {"created", "queued", "running"},
                       NEW c \in Children[q]
                PROVE  task'[c] = "created"
    OBVIOUS
  <2>1. task[q] \in {"created", "queued", "running"}
    BY <1>1
  <2>2. c \in Task /\ task[c] = "created"
    BY <1>2, <2>1, ChildFacts DEF CountInv, Scope
  <2>. QED
    BY <1>1, <2>2
<1>9. task'[q] = "suspended" => pending'[q] # 0
  <2>. SUFFICES ASSUME task'[q] = "suspended" PROVE pending'[q] # 0
    OBVIOUS
  <2>1. task[q] = "suspended" /\ pending[q] # 0
    BY <1>1, <1>2 DEF CountInv
  <2>2. CASE h \in Children[q]
    <3>1. q = Parent(h) /\ IsChild(h) /\ ~Transfers(h)
      BY <1>1, <2>2 DEF IsChild
    <3>2. pending[q] # 1
      BY <3>1 DEF Transfers, LastChild
    <3>. QED
      BY <1>1, <2>2, <3>2
  <2>. QED
    BY <1>1, <2>1, <2>2
<1>10. task'[q] \in {"resumed", "done"} => pending'[q] = 0
  <2>1. CASE q = h
    BY <1>4, <1>7, <2>1, <1>1, FS_EmptySet
  <2>2. CASE q # h /\ Transfers(h) /\ q = Parent(h)
    BY <1>1, <2>2
  <2>3. CASE q # h /\ ~(Transfers(h) /\ q = Parent(h))
    <3>1. task'[q] = task[q]
      BY <1>1, <2>3
    <3>. QED
      BY <1>1, <1>2, <3>1 DEF CountInv
  <2>. QED
    BY <2>1, <2>2, <2>3
<1>. QED
  BY <1>7, <1>8, <1>9, <1>10

LEMMA FinishIInv == \A w \in Worker : IInv /\ Finish(w) => IInv'
<1>. SUFFICES ASSUME IInv, NEW w \in Worker, Finish(w) PROVE IInv'
  OBVIOUS
<1>. DEFINE h == hand[w]
<1>0. h = hand[w]
  OBVIOUS
<1>. HIDE DEF h
<1>1. /\ control[w] = "run"
      /\ h \in Task
      /\ task[h] \in {"running", "resumed"}
      /\ \A q \in Task : h \in Children[q] =>
           task[q] = "suspended" /\ q = Parent(h) /\ pending[q] \in Nat \ {0}
      /\ Transfers(h) =>
           /\ Parent(h) \in Task
           /\ h \in Children[Parent(h)]
           /\ task[Parent(h)] = "suspended"
           /\ pending[Parent(h)] = 1
      /\ task' = [u \in Task |-> IF u = h THEN "done"
                                 ELSE IF Transfers(h) /\ u = Parent(h)
                                 THEN "resumed" ELSE task[u]]
      /\ pending' = [u \in Task |-> IF h \in Children[u] THEN pending[u] - 1
                                    ELSE pending[u]]
      /\ destroyed' = [u \in Task |-> destroyed[u] +
                                        IF u \in Ends(h) THEN 1 ELSE 0]
      /\ hand' = [hand EXCEPT ![w] = IF Transfers(h) THEN Parent(h) ELSE Nobody]
      /\ control' = [control EXCEPT ![w] = IF Transfers(h) THEN "run"
                                           ELSE "check"]
      /\ UNCHANGED <<stop, pool, victims, deques, newTasks>>
  BY <1>0, FinishFacts
<1>2. Types /\ HandInv /\ PlaceInv /\ FrameInv /\ PoolInv
  BY DEF IInv
<1>3. /\ ~InDeque(h)
      /\ ~InQueue(h)
      /\ \A v \in Worker : Holds(v) /\ hand[v] = h => v = w
  BY <1>0, <1>1, <1>2 DEF PlaceInv, Holds
<1>4. Types'
  BY <1>1, <1>2 DEF Types
<1>5. \A t \in Task :
        /\ t # h /\ task[t] # "suspended" => task'[t] = task[t]
        /\ task[t] = "suspended" => task'[t] \in {"suspended", "resumed"}
        /\ task'[t] = "queued" => task[t] = "queued"
        /\ task'[t] = "done" <=> t = h \/ task[t] = "done"
  BY <1>1
<1>6. HandInv'
  <2>. SUFFICES ASSUME NEW v \in Worker
       PROVE  /\ control'[v] \in {"resume", "run", "spawn"} => hand'[v] \in Task
              /\ control'[v] = "resume" => task'[hand'[v]] = "queued"
              /\ control'[v] = "run" => task'[hand'[v]] \in {"running", "resumed"}
              /\ control'[v] = "spawn" =>
                   task'[hand'[v]] \in {"suspended", "resumed", "done"}
    BY DEF HandInv
  <2>1. CASE v = w
    BY <1>1, <1>2, <2>1 DEF Types
  <2>2. CASE v # w
    <3>1. control'[v] = control[v] /\ hand'[v] = hand[v]
      BY <1>1, <1>2, <2>2 DEF Types
    <3>2. Holds(v) => hand[v] # h
      BY <1>3, <2>2
    <3>. QED
      BY <1>1, <1>2, <1>5, <3>1, <3>2 DEF HandInv, Holds
  <2>. QED
    BY <2>1, <2>2
<1>7. /\ \A v \in Worker \ {w} : (Holds(v)' <=> Holds(v)) /\ hand'[v] = hand[v]
      /\ Holds(w)' <=> Transfers(h)
      /\ Transfers(h) => hand'[w] = Parent(h)
  BY <1>1, <1>2 DEF Types, Holds
<1>8. Transfers(h) => /\ ~InDeque(Parent(h))
                      /\ ~InQueue(Parent(h))
                      /\ ~InHand(Parent(h))
  BY <1>1, <1>2 DEF PlaceInv, HandInv, InDeque, InQueue, InHand, Holds
<1>9. \A t : InHand(t)' <=> \/ InHand(t) /\ t # h
                            \/ Transfers(h) /\ t = Parent(h)
  <2>1. \A t : InHand(t)' => \/ InHand(t) /\ t # h
                             \/ Transfers(h) /\ t = Parent(h)
    BY <1>3, <1>7 DEF InHand
  <2>2. \A t : InHand(t) /\ t # h => InHand(t)'
    BY <1>0, <1>7 DEF InHand
  <2>3. \A t : Transfers(h) /\ t = Parent(h) => InHand(t)'
    BY <1>7 DEF InHand
  <2>. QED
    BY <2>1, <2>2, <2>3
<1>10. \A t : (InDeque(t)' <=> InDeque(t)) /\ (InQueue(t)' <=> InQueue(t))
  BY <1>1 DEF InDeque, InQueue
<1>11. \A t \in Task : task[t] = "queued" => (Placed(t)' <=> Placed(t))
  BY <1>1, <1>9, <1>10 DEF Placed
<1>12. /\ \A v \in Worker : \A t \in ToSet(deques[v]) : t \in Task /\ t # h
       /\ \A p \in Thread : \A t \in ToSet(newTasks[p]) : t \in Task /\ t # h
  BY <1>2, <1>3 DEF Types, InDeque, InQueue, ToSet
<1>13. PlaceInv'
  <2>1. \A v \in Worker :
          /\ IsInjective(deques'[v])
          /\ \A t \in ToSet(deques'[v]) : task'[t] = "queued"
    BY <1>1, <1>2, <1>5, <1>12 DEF PlaceInv
  <2>2. \A p \in Thread :
          /\ IsInjective(newTasks'[p])
          /\ \A t \in ToSet(newTasks'[p]) : task'[t] = "queued" /\ ~InDeque(t)'
    BY <1>1, <1>2, <1>5, <1>10, <1>12 DEF PlaceInv
  <2>3. /\ \A u, v \in Worker :
             u # v => ToSet(deques'[u]) \cap ToSet(deques'[v]) = {}
        /\ \A p, q \in Thread :
             p # q => ToSet(newTasks'[p]) \cap ToSet(newTasks'[q]) = {}
    BY <1>1, <1>2 DEF PlaceInv
  <2>4. \A v \in Worker :
          Holds(v)' => /\ ~InDeque(hand[v])' /\ ~InQueue(hand[v])'
                       /\ \A u \in Worker :
                            Holds(u)' /\ hand'[u] = hand'[v] => u = v
    <3>. SUFFICES ASSUME NEW v \in Worker, Holds(v)'
         PROVE  /\ ~InDeque(hand[v])' /\ ~InQueue(hand[v])'
                /\ \A u \in Worker : Holds(u)' /\ hand'[u] = hand'[v] => u = v
      OBVIOUS
    <3>1. CASE v = w
      BY <1>7, <1>8, <1>10, <3>1 DEF InHand
    <3>2. CASE v # w
      BY <1>2, <1>7, <1>8, <1>10, <3>2 DEF PlaceInv, InHand
    <3>. QED
      BY <3>1, <3>2
  <2>5. \A t \in Task : task'[t] \in {"running", "resumed"} => InHand(t)'
    BY <1>1, <1>2, <1>9 DEF PlaceInv
  <2>6. \A t \in Task : task'[t] = "queued" /\ pool' \in {"alive", "joining"} =>
          Placed(t)'
    BY <1>1, <1>2, <1>5, <1>11 DEF PlaceInv
  <2>. QED
    BY <2>1, <2>2, <2>3, <2>4, <2>5, <2>6 DEF PlaceInv
<1>14. FrameInv'
  <2>1. ASSUME NEW p \in Task, NEW c \in Children[p]
        PROVE  destroyed'[c] = IF task'[p] = "done" THEN 1 ELSE 0
    <3>1. /\ c \in Task \ Managed
          /\ c \in Children[h] <=> p = h
      BY <1>1, <2>1, ChildFacts DEF Scope
    <3>2. destroyed[c] = IF task[p] = "done" THEN 1 ELSE 0
      BY <1>2, <2>1 DEF FrameInv
    <3>3. c \in Ends(h) <=> p = h
      BY <3>1 DEF Ends
    <3>. QED
      BY <1>1, <1>5, <3>1, <3>2, <3>3
  <2>2. ASSUME NEW t \in Scope, ~IsChild(t)
        PROVE  destroyed'[t] = 0
    <3>1. t \in Task /\ t \notin Ends(h)
      BY <1>1, <2>2 DEF Ends, Scope, IsChild
    <3>. QED
      BY <1>1, <1>2, <2>2, <3>1 DEF FrameInv
  <2>3. ASSUME NEW t \in Managed
        PROVE  destroyed'[t] =
                 IF task'[t] = "done" \/ (task'[t] = "queued" /\ ~Placed(t)')
                   THEN 1 ELSE 0
    <3>1. t \in Task /\ (t \in Ends(h) <=> t = h)
      BY <1>1, ChildFacts, TasksAssumption DEF Ends, Scope
    <3>2. destroyed[t] = IF task[t] = "done" \/ (task[t] = "queued" /\ ~Placed(t))
                           THEN 1 ELSE 0
      BY <1>2 DEF FrameInv
    <3>3. CASE t = h
      BY <1>1, <3>1, <3>2, <3>3
    <3>4. CASE t # h
      BY <1>1, <1>5, <1>11, <3>1, <3>2, <3>4
    <3>. QED
      BY <3>3, <3>4
  <2>. QED
    BY <2>1, <2>2, <2>3 DEF FrameInv, IsChild
<1>15. PoolInv'
  BY <1>1, <1>2 DEF PoolInv, Joined
<1>. QED
  BY <1>4, <1>6, <1>13, <1>14, <1>15, FinishCount DEF IInv

-----------------------------------------------------------------------------
(* The destructor.                                                         *)

\* Whichever queues are emptied, the handles in them are those of tasks that
\* nobody else has, and their frames were not destroyed before.
LEMMA EmptiedIInv ==
  ASSUME IInv, Joined, NEW gone \in SUBSET Task,
         \/ /\ \A t \in Task : t \in gone <=> InQueue(t)
            /\ \A p \in Thread : newTasks'[p] = <<>>
            /\ deques' = deques
            /\ pool' = "drained"
         \/ /\ \A t \in Task : t \in gone <=> InDeque(t)
            /\ \A w \in Worker : deques'[w] = <<>>
            /\ newTasks' = newTasks
            /\ pool = "drained" /\ pool' = "destroyed",
         deques' \in [Worker -> Seq(Task)],
         newTasks' \in [Thread -> Seq(Task)],
         Destroy(gone \cap Managed),
         UNCHANGED <<stop, control, hand, victims, task, pending>>
  PROVE  IInv'
<1>1. Types /\ HandInv /\ PlaceInv /\ CountInv /\ FrameInv /\ PoolInv
  BY DEF IInv
<1>2. \A w \in Worker : ~Holds(w) /\ ~Holds(w)'
  BY DEF Joined, Holds
<1>3. /\ \A t : ~InHand(t) /\ ~InHand(t)'
      /\ \A t \in Task : task[t] \notin {"running", "resumed"}
  BY <1>1, <1>2 DEF InHand, PlaceInv
<1>4. destroyed' = [t \in Task |-> destroyed[t] +
                                     IF t \in gone \cap Managed THEN 1 ELSE 0]
  BY DEF Destroy
<1>5. Types'
  BY <1>1, <1>4 DEF Types
<1>6. HandInv'
  BY <1>1 DEF HandInv
<1>7. \A t \in Task :
        /\ Placed(t)' <=> Placed(t) /\ t \notin gone
        /\ t \in gone => Placed(t) /\ task[t] = "queued"
  <2>1. CASE /\ \A t \in Task : t \in gone <=> InQueue(t)
             /\ \A p \in Thread : newTasks'[p] = <<>>
             /\ deques' = deques
    <3>1. \A t : ~InQueue(t)' /\ (InDeque(t)' <=> InDeque(t))
      BY <2>1, EmptyFacts DEF InQueue, InDeque
    <3>2. \A t : InQueue(t) => ~InDeque(t) /\ task[t] = "queued"
      BY <1>1 DEF InQueue, PlaceInv
    <3>. QED
      BY <1>3, <2>1, <3>1, <3>2 DEF Placed
  <2>2. CASE /\ \A t \in Task : t \in gone <=> InDeque(t)
             /\ \A w \in Worker : deques'[w] = <<>>
             /\ newTasks' = newTasks
    <3>1. \A t : ~InDeque(t)' /\ (InQueue(t)' <=> InQueue(t))
      BY <2>2, EmptyFacts DEF InQueue, InDeque
    <3>2. \A t : InDeque(t) => ~InQueue(t) /\ task[t] = "queued"
      BY <1>1 DEF InQueue, InDeque, PlaceInv
    <3>. QED
      BY <1>3, <2>2, <3>1, <3>2 DEF Placed
  <2>. QED
    BY <2>1, <2>2
<1>8. PlaceInv'
  <2>1. CASE /\ \A p \in Thread : newTasks'[p] = <<>>
             /\ deques' = deques
    <3>1. \A t : ~InQueue(t)' /\ (InDeque(t)' <=> InDeque(t))
      BY <2>1, EmptyFacts DEF InQueue, InDeque
    <3>. QED
      BY <1>1, <1>2, <1>3, <2>1, <3>1, EmptyFacts DEF PlaceInv
  <2>2. CASE /\ \A w \in Worker : deques'[w] = <<>>
             /\ newTasks' = newTasks
    <3>1. \A t : ~InDeque(t)' /\ (InQueue(t)' <=> InQueue(t))
      BY <2>2, EmptyFacts DEF InQueue, InDeque
    <3>. QED
      BY <1>1, <1>2, <1>3, <2>2, <3>1, EmptyFacts DEF PlaceInv
  <2>. QED
    BY <2>1, <2>2
<1>9. CountInv'
  BY <1>1 DEF CountInv, Unfinished
<1>10. FrameInv'
  <2>1. ASSUME NEW p \in Task, NEW c \in Children[p]
        PROVE  destroyed'[c] = IF task'[p] = "done" THEN 1 ELSE 0
    <3>1. c \in Task \ Managed
      BY <2>1, ChildFacts DEF Scope
    <3>2. destroyed[c] = IF task[p] = "done" THEN 1 ELSE 0
      BY <1>1, <2>1 DEF FrameInv
    <3>. QED
      BY <1>1, <1>4, <3>1, <3>2 DEF Types
  <2>2. ASSUME NEW t \in Scope, ~IsChild(t)
        PROVE  destroyed'[t] = 0
    <3>1. t \in Task \ Managed /\ destroyed[t] = 0
      BY <1>1, <2>2 DEF FrameInv, Scope
    <3>. QED
      BY <1>4, <3>1
  <2>3. ASSUME NEW t \in Managed
        PROVE  destroyed'[t] =
                 IF task'[t] = "done" \/ (task'[t] = "queued" /\ ~Placed(t)')
                   THEN 1 ELSE 0
    <3>1. t \in Task
      BY TasksAssumption
    <3>2. destroyed[t] = IF task[t] = "done" \/ (task[t] = "queued" /\ ~Placed(t))
                           THEN 1 ELSE 0
      BY <1>1 DEF FrameInv
    <3>3. CASE t \in gone
      BY <1>4, <1>7, <3>1, <3>2, <3>3
    <3>4. CASE t \notin gone
      BY <1>4, <1>7, <3>1, <3>2, <3>4
    <3>. QED
      BY <3>3, <3>4
  <2>. QED
    BY <2>1, <2>2, <2>3 DEF FrameInv, IsChild
<1>11. PoolInv'
  BY <1>1 DEF PoolInv, Joined
<1>. QED
  BY <1>5, <1>6, <1>8, <1>9, <1>10, <1>11 DEF IInv

LEMMA DrainIInv == IInv /\ Drain => IInv'
<1>. SUFFICES ASSUME IInv, Drain PROVE IInv'
  OBVIOUS
<1>. DEFINE gone == Elements(newTasks)
<1>1. DOMAIN newTasks = Thread /\ newTasks \in [Thread -> Seq(Task)]
  BY DEF IInv, Types
<1>2. \A t : t \in gone <=> InQueue(t)
  BY <1>1 DEF Elements, InQueue
<1>3. gone \in SUBSET Task
  BY <1>1, <1>2 DEF InQueue, ToSet
<1>4. /\ Joined
      /\ newTasks' = [p \in Thread |-> <<>>]
      /\ deques' = deques
      /\ pool' = "drained"
      /\ Destroy(gone \cap Managed)
      /\ UNCHANGED <<stop, control, hand, victims, task, pending>>
  BY DEF Drain, DestroyManaged
<1>5. newTasks' \in [Thread -> Seq(Task)] /\ deques' \in [Worker -> Seq(Task)]
  BY <1>4 DEF IInv, Types
<1>6. \A p \in Thread : newTasks'[p] = <<>>
  BY <1>4
<1>. HIDE DEF gone
<1>. QED
  BY <1>2, <1>3, <1>4, <1>5, <1>6, EmptiedIInv

LEMMA DestroyDequesIInv == IInv /\ DestroyDeques => IInv'
<1>. SUFFICES ASSUME IInv, DestroyDeques PROVE IInv'
  OBVIOUS
<1>. DEFINE gone == Elements(deques)
<1>1. DOMAIN deques = Worker /\ deques \in [Worker -> Seq(Task)]
  BY DEF IInv, Types
<1>2. \A t : t \in gone <=> InDeque(t)
  BY <1>1 DEF Elements, InDeque
<1>3. gone \in SUBSET Task
  BY <1>1, <1>2 DEF InDeque, ToSet
<1>4. /\ Joined
      /\ deques' = [w \in Worker |-> <<>>]
      /\ newTasks' = newTasks
      /\ pool = "drained" /\ pool' = "destroyed"
      /\ Destroy(gone \cap Managed)
      /\ UNCHANGED <<stop, control, hand, victims, task, pending>>
  BY DEF DestroyDeques, DestroyManaged, IInv, PoolInv
<1>5. newTasks' \in [Thread -> Seq(Task)] /\ deques' \in [Worker -> Seq(Task)]
  BY <1>4 DEF IInv, Types
<1>6. \A w \in Worker : deques'[w] = <<>>
  BY <1>4
<1>. HIDE DEF gone
<1>. QED
  BY <1>2, <1>3, <1>4, <1>5, <1>6, EmptiedIInv

-----------------------------------------------------------------------------
LEMMA NextIInv == IInv /\ [Next]_vars => IInv'
<1>. SUFFICES ASSUME IInv, [Next]_vars PROVE IInv'
  OBVIOUS
<1>1. CASE UNCHANGED vars
  <2>1. UNCHANGED <<stop, pool, control, hand, victims, deques, newTasks, task,
                    pending, destroyed>>
    BY <1>1 DEF vars, queues, frames
  <2>2. Types' /\ HandInv' /\ CountInv' /\ PoolInv'
    <3>1. Types' /\ HandInv'
      BY <2>1 DEF IInv, Types, HandInv
    <3>2. CountInv'
      BY <2>1 DEF IInv, CountInv, Unfinished
    <3>3. PoolInv'
      BY <2>1 DEF IInv, PoolInv, Joined
    <3>. QED
      BY <3>1, <3>2, <3>3
  <2>3. PlaceInv' /\ \A t : Placed(t)' <=> Placed(t)
    BY <2>1, SamePlaces DEF IInv, queues, Holds
  <2>4. FrameInv'
    BY <2>1, <2>3 DEF IInv, FrameInv
  <2>. QED
    BY <2>2, <2>3, <2>4 DEF IInv
<1>2. ASSUME NEW w \in Worker, WorkerStep(w) PROVE IInv'
  BY <1>2, WorkerIdles, IdlesIInv, PopOwnIInv, StealFromIInv, DequeueIInv,
     ResumeIInv, InjectIInv, AwaitIInv, AddTaskIInv, FinishIInv DEF WorkerStep
<1>. QED
  BY <1>1, <1>2, EnqueueOutsideIInv, StopIInv, DrainIInv, DestroyDequesIInv
     DEF Next

LEMMA Invariant == Spec => []IInv
BY InitIInv, NextIInv, PTL DEF Spec

\* Every variable keeps its type, and a suspended parent's remaining_tasks is
\* the number of its unfinished children, zero exactly when it was resumed.
THEOREM TypeCorrect == Spec => []TypeOK
<1>1. IInv => TypeOK
  <2>. SUFFICES ASSUME IInv PROVE TypeOK
    OBVIOUS
  <2>. USE DEF IInv
  <2>1. pending \in [Task -> 0..Cardinality(Task)]
    BY UnfinishedFacts DEF Types, CountInv
  <2>2. ParentsWait
    BY DEF ParentsWait, CountInv, Unfinished
  <2>. QED
    BY <2>1, <2>2 DEF TypeOK, Types
<1>. QED
  BY <1>1, Invariant, PTL

\* A scheduled task is in exactly one place, a running one in one hand: no two
\* workers ever resume the same coroutine, and none is lost.
THEOREM EveryTaskInOnePlace == Spec => []OnePlace
<1>1. IInv => OnePlace
  <2>. SUFFICES ASSUME IInv, NEW t \in Task
                PROVE  /\ Copies(t) <= 1
                       /\ Copies(t) = 1 =>
                            task[t] \in {"queued", "running", "resumed"}
                       /\ task[t] \in {"queued", "running", "resumed"}
                            /\ pool \in {"alive", "joining"} => Copies(t) = 1
    BY DEF OnePlace
  <2>1. Copies(t) = IF Placed(t) THEN 1 ELSE 0
    BY CopiesCounted DEF IInv
  <2>2. Placed(t) => task[t] \in {"queued", "running", "resumed"}
    BY DEF IInv, HandInv, PlaceInv, Placed, InDeque, InQueue, InHand, Holds
  <2>3. task[t] \in {"queued", "running", "resumed"}
          /\ pool \in {"alive", "joining"} => Placed(t)
    BY DEF IInv, PlaceInv, Placed
  <2>. QED
    BY <2>1, <2>2, <2>3
<1>. QED
  BY <1>1, Invariant, PTL

\* No frame is destroyed twice, and no handle of a destroyed frame is in a queue
\* or in a worker's hand.
THEOREM FramesDestroyedOnce == Spec => []DestroyedOnce
<1>1. IInv => DestroyedOnce
  <2>. SUFFICES ASSUME IInv, NEW t \in Task
                PROVE  destroyed[t] <= 1 /\ (destroyed[t] = 1 => Copies(t) = 0)
    BY DEF DestroyedOnce
  <2>1. Copies(t) = IF Placed(t) THEN 1 ELSE 0
    BY CopiesCounted DEF IInv
  <2>2. Placed(t) => task[t] \in {"queued", "running", "resumed"}
    BY DEF IInv, HandInv, PlaceInv, Placed, InDeque, InQueue, InHand, Holds
  <2>3. CASE t \in Managed
    BY <2>1, <2>2, <2>3 DEF IInv, FrameInv
  <2>4. CASE t \notin Managed /\ ~IsChild(t)
    BY <2>4 DEF IInv, FrameInv, Scope
  <2>5. CASE IsChild(t)
    <3>1. PICK p \in Task : t \in Children[p]
      BY <2>5 DEF IsChild
    <3>2. destroyed[t] = IF task[p] = "done" THEN 1 ELSE 0
      BY <3>1 DEF IInv, FrameInv
    <3>3. task[p] = "done" => task[t] \in {"created", "done"}
      BY <3>1, ParentSuspended DEF IInv
    <3>. QED
      BY <2>1, <2>2, <3>2, <3>3
  <2>. QED
    BY <2>3, <2>4, <2>5
<1>. QED
  BY <1>1, Invariant, PTL

\* After ~ThreadPool every pool-managed task is destroyed that was not waiting
\* for its children.
THEOREM PoolDestroysItsTasks == Spec => []DestroyedWithPool
<1>1. IInv => DestroyedWithPool
  <2>. SUFFICES ASSUME IInv, pool = "destroyed", NEW t \in Managed
                PROVE  destroyed[t] = 1 \/ task[t] \in {"created", "suspended"}
    BY DEF DestroyedWithPool
  <2>1. /\ \A w \in Worker : control[w] = "exited" /\ deques[w] = <<>>
        /\ \A p \in Thread : newTasks[p] = <<>>
    BY DEF IInv, PoolInv, Joined
  <2>2. ~Placed(t)
    BY <2>1, EmptyFacts DEF Placed, InDeque, InQueue, InHand, Holds
  <2>3. t \in Task /\ task[t] \notin {"running", "resumed"}
    BY <2>1, TasksAssumption DEF IInv, PlaceInv, InHand, Holds
  <2>. QED
    BY <2>2, <2>3 DEF IInv, Types, FrameInv
<1>. QED
  BY <1>1, Invariant, PTL

-----------------------------------------------------------------------------
\* The end of a thread (ThreadExit, as instantiated in MCQueueParts).
ExitTypes ==
  /\ exitTail \in [Pair -> Producer \cup {None}]
  /\ exitNext \in [Producer -> Producer \cup {None}]
  /\ chain \in [Producer -> Pair \cup {None}]
  /\ exitInactive \subseteq Producer
  /\ queueOf \in [Producer -> Queue \cup {None}]
  /\ user \in [Producer -> Pair \cup {None}]
  /\ exitThread \in [Pair ->
       [pc : {"running", "subscribe", "ended"}
               \cup {"unchain", "callback", "next"},
        ptr : Producer \cup {None}]]
  /\ queue \in [Queue ->
       [pc : {"alive", "producers", "unsubscribe", "free", "gone"},
        ptr : Producer \cup {None}]]

\* A thread that walks over its list, with the mutex locked.
Walking(t) == exitThread[t].pc \in {"unchain", "callback", "next"}
MutexInv ==
  /\ mutex \in Pair \cup {None}
  /\ \A t \in Pair : mutex = t <=> Walking(t)

\* A listener that is in a list belongs to a live producer of that thread.
ProducerLife ==
  \A p \in Producer :
    /\ queueOf[p] # None => queue[queueOf[p]].pc # "gone" /\ user[p] # None
    /\ p \in exitInactive => chain[p] = None /\ user[p] # None
    /\ chain[p] # None => queueOf[p] # None /\ user[p] = chain[p]

\* Whom a destructor is about to free nobody calls back.
DestructorInv ==
  \A q \in Queue :
    LET p == queue[q].ptr
    IN  /\ queue[q].pc \in {"unsubscribe", "free"} =>
             p \in Producer /\ queueOf[p] = q
        /\ queue[q].pc = "free" =>
             /\ chain[p] = None
             /\ \A t \in Pair :
                  exitThread[t].pc = "callback" => exitThread[t].ptr # p

\* What a thread's pointer points to.
PointerInv ==
  \A t \in Pair :
    LET p == exitThread[t].ptr
    IN  /\ exitThread[t].pc = "subscribe" =>
             /\ p \in Producer /\ user[p] = t
             /\ chain[p] = None /\ p \notin exitInactive
             /\ queueOf[p] # None /\ queue[queueOf[p]].pc = "alive"
        /\ Walking(t) => p \in Producer
        /\ exitThread[t].pc = "unchain" => chain[p] = t
        /\ exitThread[t].pc \in {"callback", "next"} => chain[p] = None
        /\ exitThread[t].pc = "callback" =>
             user[p] = t /\ queueOf[p] # None /\ p \notin exitInactive

\* Whom nobody told that the thread has ended it will still tell.
UserInv ==
  \A t \in Pair, p \in Producer :
    queueOf[p] # None /\ user[p] = t /\ queue[queueOf[p]].pc = "alive" =>
      \/ p \in exitInactive
      \/ chain[p] = t
      \/ exitThread[t].pc \in {"subscribe", "callback"} /\ exitThread[t].ptr = p

\* A thread's list, and what is left of it once the thread walks: the listener
\* it is at, and those still to come.
Members(t) ==
  {p \in Producer : chain[p] = t \/ (Walking(t) /\ exitThread[t].ptr = p)}
First(t) ==
  IF Walking(t) THEN exitThread[t].ptr
  ELSE IF exitThread[t].pc = "ended" THEN None ELSE exitTail[t]

\* The list has a beginning, every other listener has one predecessor, and next
\* leads down from rank to rank: so the list ends, and whoever follows it from
\* the beginning reaches all.
ListOf(t, rank) ==
  /\ First(t) = None \/ First(t) \in Members(t)
  /\ \A p \in Members(t) :
       /\ exitNext[p] = None
            \/ (exitNext[p] \in Members(t) /\ rank[exitNext[p]] < rank[p])
       /\ p = First(t) \/ \E r \in Members(t) : exitNext[r] = p
       /\ exitNext[p] # None =>
            /\ exitNext[p] # First(t)
            /\ \A r \in Members(t) : exitNext[r] = exitNext[p] => r = p
Ranked(bound) ==
  \E rank \in [Producer -> 0..bound] : \A t \in Pair : ListOf(t, rank)
ListInv == \E bound \in Nat : Ranked(bound)

ExitInv ==
  /\ ExitTypes /\ MutexInv /\ ProducerLife /\ DestructorInv /\ PointerInv
  /\ UserInv /\ ListInv

LEMMA NoneApart == None \notin Producer \cup Pair \cup Queue
BY PartsAssumption DEF Exit!NoneAssumption

LEMMA ExitInit == Exit!Init => ExitInv
<1>. SUFFICES ASSUME Exit!Init
              PROVE  ExitInv
  OBVIOUS
<1>1. /\ ExitTypes /\ MutexInv /\ ProducerLife /\ DestructorInv /\ PointerInv
      /\ UserInv
  BY NoneApart DEF Exit!Init, ExitTypes, MutexInv,
    Walking, ProducerLife, DestructorInv, PointerInv, UserInv
<1>2. \A t \in Pair : Members(t) = {} /\ First(t) = None
  BY NoneApart DEF Exit!Init, Members, First, Walking
<1>3. [p \in Producer |-> 0] \in [Producer -> 0..0]
  OBVIOUS
<1>4. Ranked(0)
  BY <1>2, <1>3 DEF Ranked, ListOf
<1>. QED
  BY <1>1, <1>4 DEF ExitInv, ListInv

\* Nothing is left behind the last listener.
LEMMA NothingLeft ==
  ASSUME ExitInv, NEW t \in Pair,
         First(t) = None \/ exitNext[First(t)] = None
  PROVE  \A p \in Members(t) : p = First(t)
<1>. SUFFICES ASSUME NEW p \in Members(t), p # First(t)
              PROVE  FALSE
  OBVIOUS
<1>1. PICK bound \in Nat :
        \E rank \in [Producer -> 0..bound] : \A u \in Pair : ListOf(u, rank)
  BY DEF ExitInv, ListInv, Ranked
<1>2. PICK rank \in [Producer -> 0..bound] : \A u \in Pair : ListOf(u, rank)
  BY <1>1
<1>. DEFINE Rest == Members(t) \ {First(t)}
            Depth == {bound - rank[r] : r \in Rest}
<1>3. Rest \subseteq Producer
  BY DEF Members
<1>4. Depth \subseteq Nat /\ Depth # {}
  BY <1>3
<1>5. PICK d \in Depth : \A e \in Depth : ~(<<e, d>> \in OpToRel(<, Nat))
  BY <1>4, NatLessThanWellFounded, WFMin
<1>6. PICK q \in Rest : d = bound - rank[q]
  OBVIOUS
<1>7. PICK r \in Members(t) : exitNext[r] = q
  BY <1>2, <1>6 DEF ListOf
<1>8. q \in Producer /\ r \in Producer /\ q # None
  BY <1>3, NoneApart DEF Members
<1>9. r \in Rest
  BY <1>7, <1>8, NoneApart DEF Members
<1>10. rank[q] < rank[r]
  BY <1>2, <1>7, <1>8 DEF ListOf
<1>11. bound - rank[r] \in Depth /\ bound - rank[r] < d
  BY <1>6, <1>8, <1>9, <1>10
<1>12. <<bound - rank[r], d>> \in OpToRel(<, Nat)
  BY <1>4, <1>11 DEF OpToRel
<1>. QED
  BY <1>5, <1>11, <1>12

LEMMA ListsSame ==
  ASSUME ListInv, exitNext' = exitNext,
         \A t \in Pair : Members(t)' = Members(t) /\ First(t)' = First(t)
  PROVE  ListInv'
BY DEF ListInv, Ranked, ListOf

\* The listeners do not change where a thread begins to use a producer ...
LEMMA RecycleInv ==
  ASSUME ExitInv, NEW t \in Pair, NEW p \in Producer, Exit!Recycle(t, p)
  PROVE  ExitInv'
<1>. USE NoneApart DEF ExitInv, Exit!Recycle,
       Exit!At, Exit!Step, Exit!Alive, Exit!listeners
<1>1. ExitTypes' /\ MutexInv'
  BY DEF ExitTypes, MutexInv, Walking
<1>2. ProducerLife'
  BY DEF ExitTypes, ProducerLife
<1>3. DestructorInv'
  BY DEF ExitTypes, DestructorInv
<1>4. PointerInv'
  BY DEF ExitTypes, PointerInv, ProducerLife, Walking
<1>5. UserInv'
  BY DEF ExitTypes, UserInv
<1>6. ListInv'
  BY ListsSame DEF ExitTypes, Members, First, Walking
<1>. QED
  BY <1>1, <1>2, <1>3, <1>4, <1>5, <1>6

LEMMA CreateInv ==
  ASSUME ExitInv, NEW t \in Pair, NEW p \in Producer, NEW q \in Queue,
         Exit!Create(t, p, q)
  PROVE  ExitInv'
<1>. USE NoneApart DEF ExitInv, Exit!Create,
       Exit!At, Exit!Step, Exit!Alive, Exit!listeners
<1>1. ExitTypes' /\ MutexInv'
  BY DEF ExitTypes, MutexInv, Walking
<1>2. ProducerLife'
  BY DEF ExitTypes, ProducerLife
<1>3. DestructorInv'
  BY DEF ExitTypes, DestructorInv, ProducerLife
<1>4. PointerInv'
  BY DEF ExitTypes, PointerInv, ProducerLife, Walking
<1>5. UserInv'
  BY DEF ExitTypes, UserInv
<1>6. ListInv'
  BY ListsSame DEF ExitTypes, Members, First, Walking
<1>. QED
  BY <1>1, <1>2, <1>3, <1>4, <1>5, <1>6

\* ... nor where a queue is destroyed, but for the unsubscription.
LEMMA BeginInv ==
  ASSUME ExitInv, NEW q \in Queue, Exit!Begin(q)
  PROVE  ExitInv'
<1>. USE NoneApart DEF ExitInv, Exit!Begin,
       Exit!Unused, Exit!At, Exit!Destroy, Exit!listeners
<1>1. ExitTypes' /\ MutexInv'
  BY DEF ExitTypes, MutexInv, Walking
<1>2. ProducerLife'
  BY DEF ExitTypes, ProducerLife
<1>3. DestructorInv'
  BY DEF ExitTypes, DestructorInv
<1>4. PointerInv'
  BY DEF ExitTypes, PointerInv, Walking
<1>5. UserInv'
  BY DEF ExitTypes, UserInv
<1>6. ListInv'
  BY ListsSame DEF ExitTypes, Members, First, Walking
<1>. QED
  BY <1>1, <1>2, <1>3, <1>4, <1>5, <1>6

LEMMA LookInv ==
  ASSUME ExitInv, NEW q \in Queue, NEW p \in Producer, Exit!Look(q, p)
  PROVE  ExitInv'
<1>. USE NoneApart DEF ExitInv, Exit!Look,
       Exit!Destroy, Exit!listeners
<1>1. ExitTypes' /\ MutexInv'
  BY DEF ExitTypes, MutexInv, Walking
<1>2. ProducerLife'
  BY DEF ExitTypes, ProducerLife
<1>3. DestructorInv'
  BY DEF ExitTypes, DestructorInv, ProducerLife, PointerInv
<1>4. PointerInv'
  BY DEF ExitTypes, PointerInv, Walking
<1>5. UserInv'
  BY DEF ExitTypes, UserInv
<1>6. ListInv'
  BY ListsSame DEF ExitTypes, Members, First, Walking
<1>. QED
  BY <1>1, <1>2, <1>3, <1>4, <1>5, <1>6

LEMMA FreeInv ==
  ASSUME ExitInv, NEW q \in Queue, Exit!Free(q)
  PROVE  ExitInv'
<1>. USE NoneApart DEF ExitInv, Exit!Free,
       Exit!Destroy, Exit!listeners
<1>1. ExitTypes' /\ MutexInv'
  BY DEF ExitTypes, MutexInv, Walking, DestructorInv
<1>2. ProducerLife'
  BY DEF ExitTypes, ProducerLife, DestructorInv
<1>3. DestructorInv'
  BY DEF ExitTypes, DestructorInv
<1>4. PointerInv'
  BY DEF ExitTypes, PointerInv, DestructorInv, Walking
<1>5. UserInv'
  BY DEF ExitTypes, UserInv, DestructorInv
<1>6. ListInv'
  BY ListsSame DEF ExitTypes, Members, First, Walking
<1>. QED
  BY <1>1, <1>2, <1>3, <1>4, <1>5, <1>6

LEMMA FinishInv ==
  ASSUME ExitInv, NEW q \in Queue, Exit!Finish(q)
  PROVE  ExitInv'
<1>. USE NoneApart DEF ExitInv, Exit!Finish,
       Exit!Destroy, Exit!listeners
<1>1. ExitTypes' /\ MutexInv'
  BY DEF ExitTypes, MutexInv, Walking
<1>2. ProducerLife'
  BY DEF ExitTypes, ProducerLife
<1>3. DestructorInv'
  BY DEF ExitTypes, DestructorInv
<1>4. PointerInv'
  BY DEF ExitTypes, PointerInv, Walking
<1>5. UserInv'
  BY DEF ExitTypes, UserInv
<1>6. ListInv'
  BY ListsSame DEF ExitTypes, Members, First, Walking
<1>. QED
  BY <1>1, <1>2, <1>3, <1>4, <1>5, <1>6

LEMMA CallbackInv ==
  ASSUME ExitInv, NEW t \in Pair, Exit!Callback(t)
  PROVE  ExitInv'
<1>. USE NoneApart DEF ExitInv, Exit!Callback,
       Exit!At, Exit!Step, Exit!listeners
<1>1. ExitTypes' /\ MutexInv'
  BY DEF ExitTypes, MutexInv, Walking, PointerInv
<1>2. ProducerLife'
  BY DEF ExitTypes, ProducerLife, PointerInv, Walking
<1>3. DestructorInv'
  BY DEF ExitTypes, DestructorInv
<1>4. PointerInv'
  BY DEF ExitTypes, PointerInv, MutexInv, Walking
<1>5. UserInv'
  BY DEF ExitTypes, UserInv
<1>6. ListInv'
  BY ListsSame DEF ExitTypes, Members, First, Walking
<1>. QED
  BY <1>1, <1>2, <1>3, <1>4, <1>5, <1>6

\* A new listener is first in its list.
LEMMA SubscribeInv ==
  ASSUME ExitInv, NEW t \in Pair, Exit!Subscribe(t)
  PROVE  ExitInv'
<1>. USE NoneApart DEF ExitInv, Exit!Subscribe, Exit!Lockable, Exit!At,
       Exit!Step
<1>. PICK a : a = exitThread[t].ptr
  OBVIOUS
<1>1. ExitTypes' /\ MutexInv'
  BY DEF ExitTypes, MutexInv, Walking, PointerInv
<1>2. ProducerLife'
  BY DEF ExitTypes, ProducerLife, PointerInv
<1>3. DestructorInv'
  BY DEF ExitTypes, DestructorInv, PointerInv
<1>4. PointerInv'
  BY DEF ExitTypes, PointerInv, MutexInv, Walking
<1>5. UserInv'
  BY DEF ExitTypes, UserInv, PointerInv
<1>6. ListInv'
  <2>1. PICK bound \in Nat :
          \E rank \in [Producer -> 0..bound] : \A u \in Pair : ListOf(u, rank)
    BY DEF ListInv, Ranked
  <2>2. PICK rank \in [Producer -> 0..bound] : \A u \in Pair : ListOf(u, rank)
    BY <2>1
  <2>3. PICK above : above = [rank EXCEPT ![a] = bound + 1]
    OBVIOUS
  <2>4. \A u \in Pair : ~Walking(u) /\ ~Walking(u)'
    BY DEF ExitTypes, MutexInv, Walking
  <2>5. a \in Producer /\ chain[a] = None
    BY DEF PointerInv
  <2>6. \A u \in Pair : Members(u)' = IF u = t THEN Members(t) \cup {a} ELSE Members(u)
    BY <2>4, <2>5 DEF ExitTypes, Members
  <2>7. \A u \in Pair : First(u)' = IF u = t THEN a ELSE First(u)
    BY <2>4, <2>5 DEF ExitTypes, First
  <2>8. First(t) = exitTail[t]
    BY <2>4 DEF First
  <2>9. \A u \in Pair : a \notin Members(u) /\ Members(u) \subseteq Producer
    BY <2>4, <2>5 DEF Members
  <2>10. exitNext' = [exitNext EXCEPT ![a] = exitTail[t]]
    OBVIOUS
  <2>11. ASSUME NEW u \in Pair
         PROVE  ListOf(u, above)'
    <3>1. CASE u = t
      <4>1. /\ Members(t)' = Members(t) \cup {a} /\ First(t)' = a
        BY <2>6, <2>7
      <4>2. ASSUME NEW p \in Members(t)'
            PROVE  /\ exitNext'[p] = None
                        \/ (/\ exitNext'[p] \in Members(t)'
                            /\ above[exitNext'[p]] < above[p])
                   /\ p = a \/ \E r \in Members(t)' : exitNext'[r] = p
                   /\ exitNext'[p] # None =>
                        /\ exitNext'[p] # a
                        /\ \A r \in Members(t)' :
                             exitNext'[r] = exitNext'[p] => r = p
        <5>1. CASE p = a
          <6>1. exitNext'[a] = First(t)
            BY <2>5, <2>8, <2>10 DEF ExitTypes
          <6>2. First(t) = None \/ First(t) \in Members(t)
            BY <2>2 DEF ListOf
          <6>3. \A r \in Members(t) : above[r] < above[a]
            BY <2>3, <2>5, <2>9
          <6>4. \A r \in Members(t) :
                  /\ exitNext'[r] = exitNext[r]
                  /\ exitNext[r] # None => exitNext[r] # First(t)
            BY <2>2, <2>9, <2>10 DEF ListOf, ExitTypes
          <6>5. First(t) # a
            BY <2>5, <2>9, <6>2
          <6>. QED
            BY <4>1, <5>1, <6>1, <6>2, <6>3, <6>4, <6>5
        <5>2. CASE p # a
          <6>1. p \in Members(t) /\ exitNext'[p] = exitNext[p]
            BY <4>1, <5>2, <2>9, <2>10 DEF ExitTypes
          <6>2. exitNext[p] = None
                  \/ (exitNext[p] \in Members(t) /\ rank[exitNext[p]] < rank[p])
            BY <6>1, <2>2 DEF ListOf
          <6>3. \A r \in Members(t) : above[r] = rank[r]
            BY <2>3, <2>9
          <6>4. p = First(t) \/ \E r \in Members(t) : exitNext[r] = p
            BY <6>1, <2>2 DEF ListOf
          <6>5. \A r \in Members(t) : exitNext'[r] = exitNext[r]
            BY <2>9, <2>10 DEF ExitTypes
          <6>6. exitNext'[a] = First(t)
            BY <2>5, <2>8, <2>10 DEF ExitTypes
          <6>7. exitNext[p] # None =>
                  /\ exitNext[p] # First(t) /\ exitNext[p] # a
                  /\ \A r \in Members(t) : exitNext[r] = exitNext[p] => r = p
            BY <6>1, <6>2, <2>2, <2>9 DEF ListOf
          <6>. QED
            BY <4>1, <6>1, <6>2, <6>3, <6>4, <6>5, <6>6, <6>7
        <5>. QED
          BY <5>1, <5>2
      <4>. QED
        BY <3>1, <4>1, <4>2 DEF ListOf
    <3>2. CASE u # t
      <4>1. Members(u)' = Members(u) /\ First(u)' = First(u)
        BY <3>2, <2>6, <2>7
      <4>2. \A r \in Members(u) :
              exitNext'[r] = exitNext[r] /\ above[r] = rank[r]
        BY <2>3, <2>9, <2>10 DEF ExitTypes
      <4>. QED
        BY <4>1, <4>2, <2>2 DEF ListOf
    <3>. QED
      BY <3>1, <3>2
  <2>12. above \in [Producer -> 0..bound + 1] /\ bound + 1 \in Nat
    BY <2>3, <2>5
  <2>13. Ranked(bound + 1)'
    BY <2>11, <2>12 DEF Ranked
  <2>. QED
    BY <2>12, <2>13 DEF ListInv
<1>. QED
  BY <1>1, <1>2, <1>3, <1>4, <1>5, <1>6

\* The thread ends: it begins to walk, ...
LEMMA EndInv ==
  ASSUME ExitInv, NEW t \in Pair, Exit!End(t)
  PROVE  ExitInv'
<1>. USE NoneApart DEF ExitInv, Exit!End, Exit!Visit, Exit!Released, Exit!At,
       Exit!Step, Exit!listeners
<1>1. /\ First(t) = exitTail[t] /\ ~Walking(t)
      /\ First(t) = None \/ (First(t) \in Producer /\ chain[First(t)] = t)
  <2>1. ~Walking(t) /\ First(t) = exitTail[t]
    BY DEF First, Walking
  <2>2. First(t) = None \/ First(t) \in Members(t)
    BY DEF ListInv, Ranked, ListOf
  <2>. QED
    BY <2>1, <2>2 DEF Members
<1>2. First(t) = None => \A p \in Producer : chain[p] # t
  BY <1>1, NothingLeft DEF Members
<1>3. ExitTypes' /\ MutexInv'
  <2>1. CASE exitTail[t] = None
    BY <2>1 DEF ExitTypes, MutexInv, Walking
  <2>2. CASE exitTail[t] # None
    BY <1>1, <2>2 DEF ExitTypes, MutexInv, Walking
  <2>. QED
    BY <2>1, <2>2
<1>4. ProducerLife'
  BY DEF ExitTypes, ProducerLife
<1>5. DestructorInv'
  BY DEF ExitTypes, DestructorInv
<1>6. PointerInv'
  <2>0. /\ UNCHANGED <<chain, queueOf, user, queue, exitInactive>>
        /\ \A u \in Pair \ {t} : exitThread'[u] = exitThread[u]
    BY DEF ExitTypes
  <2>1. ASSUME NEW u \in Pair \ {t}
        PROVE  LET p == exitThread'[u].ptr
               IN  /\ exitThread'[u].pc = "subscribe" =>
                        /\ p \in Producer /\ user'[p] = u
                        /\ chain'[p] = None /\ p \notin exitInactive'
                        /\ queueOf'[p] # None /\ queue'[queueOf'[p]].pc = "alive"
                   /\ Walking(u)' => p \in Producer
                   /\ exitThread'[u].pc = "unchain" => chain'[p] = u
                   /\ exitThread'[u].pc \in {"callback", "next"} => chain'[p] = None
                   /\ exitThread'[u].pc = "callback" =>
                        user'[p] = u /\ queueOf'[p] # None /\ p \notin exitInactive'
    BY <2>0 DEF PointerInv, Walking
  <2>2. \/ exitThread'[t].pc = "ended"
        \/ exitThread'[t].pc = "unchain" /\ exitThread'[t].ptr = First(t)
                                        /\ First(t) # None
    BY <1>1 DEF ExitTypes
  <2>3. chain' = chain
    OBVIOUS
  <2>. QED
    BY <1>1, <2>1, <2>2, <2>3 DEF PointerInv, Walking
<1>7. UserInv'
  <2>1. /\ UNCHANGED <<chain, queueOf, user, queue, exitInactive>>
        /\ exitThread[t].pc = "running"
    OBVIOUS
  <2>2. \A u \in Pair \ {t} : exitThread'[u] = exitThread[u]
    BY DEF ExitTypes
  <2>. QED
    BY <2>1, <2>2 DEF UserInv
<1>8. ListInv'
  <2>1. \A u \in Pair : Members(u)' = Members(u)
    BY <1>1 DEF ExitTypes, Members, Walking
  <2>2. \A u \in Pair : First(u)' = First(u)
    BY <1>1 DEF ExitTypes, First, Walking
  <2>. QED
    BY <2>1, <2>2, ListsSame
<1>. QED
  BY <1>3, <1>4, <1>5, <1>6, <1>7, <1>8

\* ... takes each listener out ...
LEMMA UnchainInv ==
  ASSUME ExitInv, NEW t \in Pair, Exit!Unchain(t)
  PROVE  ExitInv'
<1>. USE NoneApart DEF ExitInv, Exit!Unchain, Exit!At, Exit!Step
<1>1. exitThread[t].ptr \in Producer /\ chain[exitThread[t].ptr] = t
  BY DEF PointerInv, Walking
<1>2. ExitTypes' /\ MutexInv'
  BY <1>1 DEF ExitTypes, MutexInv, Walking
<1>3. ProducerLife'
  BY <1>1 DEF ExitTypes, ProducerLife
<1>4. DestructorInv'
  BY <1>1 DEF ExitTypes, DestructorInv
<1>5. PointerInv'
  BY <1>1 DEF ExitTypes, PointerInv, ProducerLife, MutexInv, Walking
<1>6. UserInv'
  BY <1>1 DEF ExitTypes, UserInv, ProducerLife
<1>7. ListInv'
  <2>1. \A u \in Pair : Members(u)' = Members(u)
    BY <1>1 DEF ExitTypes, Members, Walking
  <2>2. \A u \in Pair : First(u)' = First(u)
    BY <1>1 DEF ExitTypes, First, Walking
  <2>. QED
    BY <2>1, <2>2, ListsSame
<1>. QED
  BY <1>2, <1>3, <1>4, <1>5, <1>6, <1>7

\* ... and goes on to the next one.
LEMMA AdvanceInv ==
  ASSUME ExitInv, NEW t \in Pair, Exit!Advance(t), Exit!Alive(exitThread[t].ptr)
  PROVE  ExitInv'
<1>0. /\ exitThread[t].pc = "next" /\ Exit!Visit(t, exitNext[exitThread[t].ptr])
      /\ UNCHANGED <<exitTail, exitNext, chain, exitInactive, queueOf, queue, user>>
  BY DEF Exit!Advance, Exit!At, Exit!listeners
<1>. USE <1>0, NoneApart DEF ExitInv, Exit!Visit, Exit!Released, Exit!Step
<1>1. PICK a \in Producer : a = exitThread[t].ptr /\ chain[a] = None
  BY DEF PointerInv, Walking
<1>2. PICK b \in Producer \cup {None} : b = exitNext[a]
  BY <1>1 DEF ExitTypes
<1>3. Walking(t) /\ First(t) = a /\ a \in Members(t)
  BY <1>1 DEF First, Members, Walking
<1>4. b # None => chain[b] = t
  <2>1. b # None => b \in Members(t) /\ b # a
    BY <1>2, <1>3 DEF ListInv, Ranked, ListOf
  <2>. QED
    BY <1>1, <2>1 DEF Members
<1>5. b = None => \A p \in Producer : chain[p] # t
  BY <1>1, <1>2, <1>3, NothingLeft DEF Members
<1>6. ExitTypes' /\ MutexInv'
  <2>1. CASE b = None
    BY <1>1, <1>2, <2>1 DEF ExitTypes, MutexInv, Walking
  <2>2. CASE b # None
    BY <1>1, <1>2, <2>2 DEF ExitTypes, MutexInv, Walking
  <2>. QED
    BY <2>1, <2>2
<1>7. ProducerLife'
  BY DEF ExitTypes, ProducerLife
<1>8. DestructorInv'
  BY DEF ExitTypes, DestructorInv
<1>9. PointerInv'
  BY <1>1, <1>2, <1>4 DEF ExitTypes, PointerInv, Walking
<1>10. UserInv'
  BY <1>1, <1>2 DEF ExitTypes, UserInv
<1>11. ListInv'
  <2>1. PICK bound \in Nat :
          \E rank \in [Producer -> 0..bound] : \A u \in Pair : ListOf(u, rank)
    BY DEF ListInv, Ranked
  <2>2. PICK rank \in [Producer -> 0..bound] : \A u \in Pair : ListOf(u, rank)
    BY <2>1
  <2>3. \A u \in Pair :
          Members(u)' = IF u = t THEN Members(t) \ {a} ELSE Members(u)
    BY <1>1, <1>2, <1>4, <1>5 DEF ExitTypes, Members, Walking
  <2>4. \A u \in Pair : First(u)' = IF u = t THEN b ELSE First(u)
    BY <1>1, <1>2 DEF ExitTypes, First, Walking
  <2>5. ASSUME NEW u \in Pair
        PROVE  ListOf(u, rank)'
    <3>1. CASE u = t
      <4>1. /\ Members(t)' = Members(t) \ {a} /\ First(t)' = b
            /\ exitNext' = exitNext
        BY <2>3, <2>4
      <4>2. b = None \/ b \in Members(t) \ {a}
        BY <1>1, <1>4 DEF Members
      <4>3. ASSUME NEW p \in Members(t) \ {a}
            PROVE  /\ exitNext[p] = None
                        \/ (/\ exitNext[p] \in Members(t) \ {a}
                            /\ rank[exitNext[p]] < rank[p])
                   /\ p = b \/ \E r \in Members(t) \ {a} : exitNext[r] = p
                   /\ exitNext[p] # None =>
                        /\ exitNext[p] # b
                        /\ \A r \in Members(t) \ {a} :
                             exitNext[r] = exitNext[p] => r = p
        BY <1>2, <1>3, <2>2 DEF ListOf
      <4>. QED
        BY <3>1, <4>1, <4>2, <4>3 DEF ListOf
    <3>2. CASE u # t
      BY <3>2, <2>2, <2>3, <2>4 DEF ListOf
    <3>. QED
      BY <3>1, <3>2
  <2>6. Ranked(bound)'
    BY <2>5 DEF Ranked
  <2>. QED
    BY <2>6 DEF ListInv
<1>. QED
  BY <1>6, <1>7, <1>8, <1>9, <1>10, <1>11

\* A listener is taken out of its list, if it still is in one.
LEMMA UnsubscribeInv ==
  ASSUME ExitInv, NEW q \in Queue, Exit!Unsubscribe(q)
  PROVE  ExitInv'
<1>. USE NoneApart DEF ExitInv, Exit!Unsubscribe, Exit!Lockable, Exit!Destroy,
       Exit!listeners
<1>1. PICK a \in Producer : a = queue[q].ptr /\ queueOf[a] = q
  BY DEF DestructorInv
<1>2. \A u \in Pair : ~Walking(u) /\ ~Walking(u)'
  BY DEF ExitTypes, MutexInv, Walking
<1>3. chain' = [chain EXCEPT ![a] = None]
  BY <1>1 DEF ExitTypes
<1>4. /\ exitTail' \in [Pair -> Producer \cup {None}]
      /\ exitNext' \in [Producer -> Producer \cup {None}]
  <2>1. CASE chain[a] = None
    BY <1>1, <2>1 DEF ExitTypes
  <2>2. CASE chain[a] # None
    <3>1. /\ exitTail' = [exitTail EXCEPT ![chain[a]] =
                            IF @ = a THEN exitNext[a] ELSE @]
          /\ exitNext' = [r \in Producer |->
               IF chain[r] = chain[a] /\ exitNext[r] = a THEN exitNext[a]
               ELSE exitNext[r]]
      BY <1>1, <2>2 DEF Exit!Mended
    <3>. QED
      BY <1>1, <2>2, <3>1 DEF ExitTypes
  <2>. QED
    BY <2>1, <2>2
<1>5. ExitTypes' /\ MutexInv'
  BY <1>1, <1>3, <1>4 DEF ExitTypes, MutexInv, Walking
<1>6. ProducerLife'
  BY <1>1, <1>3 DEF ExitTypes, ProducerLife
<1>7. DestructorInv'
  BY <1>1, <1>2, <1>3 DEF ExitTypes, DestructorInv, Walking
<1>8. PointerInv'
  BY <1>1, <1>2, <1>3 DEF ExitTypes, PointerInv, Walking
<1>9. UserInv'
  BY <1>1, <1>3 DEF ExitTypes, UserInv
<1>10. ListInv'
  <2>1. CASE chain[a] = None
    <3>1. chain' = chain /\ exitNext' = exitNext /\ exitTail' = exitTail
      BY <1>1, <2>1
    <3>2. \A u \in Pair : Members(u)' = Members(u) /\ First(u)' = First(u)
      BY <1>2, <3>1 DEF Members, First
    <3>. QED
      BY <3>1, <3>2, ListsSame
  <2>2. CASE chain[a] # None
    <3>1. PICK bound \in Nat :
            \E rank \in [Producer -> 0..bound] : \A u \in Pair : ListOf(u, rank)
      BY DEF ListInv, Ranked
    <3>2. PICK rank \in [Producer -> 0..bound] : \A u \in Pair : ListOf(u, rank)
      BY <3>1
    <3>3. PICK t \in Pair : t = chain[a]
      BY <2>2 DEF ExitTypes
    <3>4. /\ exitTail' = [exitTail EXCEPT ![t] = IF @ = a THEN exitNext[a] ELSE @]
          /\ exitNext' = [r \in Producer |->
               IF chain[r] = t /\ exitNext[r] = a THEN exitNext[a]
               ELSE exitNext[r]]
      BY <1>1, <2>2, <3>3 DEF Exit!Mended
    <3>5. \A u \in Pair :
            /\ Members(u)' = IF u = t THEN Members(t) \ {a} ELSE Members(u)
            /\ Members(u) = {p \in Producer : chain[p] = u}
      BY <1>2, <1>3, <3>3 DEF ExitTypes, Members
    <3>6. a \in Members(t) /\ First(t) # None
      BY <3>3, <3>5, NothingLeft DEF First
    <3>7. exitThread' = exitThread /\ First(t) = exitTail[t]
          /\ exitThread[t].pc # "ended"
      BY <1>2, <3>6 DEF First
    <3>8. \A u \in Pair :
            First(u)' = IF u = t THEN (IF First(t) = a THEN exitNext[a] ELSE First(t))
                        ELSE First(u)
      BY <1>2, <3>4, <3>7 DEF ExitTypes, First
    <3>9. ASSUME NEW u \in Pair
          PROVE  ListOf(u, rank)'
      <4>1. CASE u = t
        <5>1. Members(t)' = Members(t) \ {a}
          BY <3>5
        <5>2. First(t)' = IF First(t) = a THEN exitNext[a] ELSE First(t)
          BY <3>8
        <5>3. \A r \in Members(t) :
                exitNext'[r] = IF exitNext[r] = a THEN exitNext[a] ELSE exitNext[r]
          BY <3>4, <3>5
        <5>4. exitNext[a] # a
          BY <3>2, <3>6 DEF ListOf
        <5>5. First(t)' = None \/ First(t)' \in Members(t)'
          BY <3>2, <3>6, <5>1, <5>2, <5>4 DEF ListOf
        <5>6. ASSUME NEW p \in Members(t) \ {a}
              PROVE  /\ exitNext'[p] = None
                          \/ (/\ exitNext'[p] \in Members(t) \ {a}
                              /\ rank[exitNext'[p]] < rank[p])
                     /\ p = First(t)'
                          \/ \E r \in Members(t) \ {a} : exitNext'[r] = p
                     /\ exitNext'[p] # None =>
                          /\ exitNext'[p] # First(t)'
                          /\ \A r \in Members(t) \ {a} :
                               exitNext'[r] = exitNext'[p] => r = p
          <6>1. Members(t) \subseteq Producer
            BY <3>5
          <6>2. exitNext'[p] = None
                  \/ (/\ exitNext'[p] \in Members(t) \ {a}
                      /\ rank[exitNext'[p]] < rank[p])
            BY <3>2, <3>6, <5>3, <5>4, <6>1 DEF ListOf
          <6>3. p = First(t)'
                  \/ \E r \in Members(t) \ {a} : exitNext'[r] = p
            BY <3>2, <3>6, <5>2, <5>3, <5>4, <6>1 DEF ListOf
          <6>4. exitNext'[p] # None => exitNext'[p] # First(t)'
            BY <3>2, <3>6, <5>2, <5>3, <5>4, <6>1 DEF ListOf
          <6>5. ASSUME exitNext'[p] # None, NEW r \in Members(t) \ {a},
                       exitNext'[r] = exitNext'[p]
                PROVE  r = p
            BY <3>2, <3>6, <5>3, <5>4, <6>1, <6>5 DEF ListOf
          <6>. QED
            BY <6>2, <6>3, <6>4, <6>5
        <5>. QED
          BY <4>1, <5>1, <5>5, <5>6 DEF ListOf
      <4>2. CASE u # t
        <5>1. Members(u)' = Members(u) /\ First(u)' = First(u)
          BY <4>2, <3>5, <3>8
        <5>2. \A r \in Members(u) : exitNext'[r] = exitNext[r]
          BY <4>2, <3>4, <3>5
        <5>. QED
          BY <5>1, <5>2, <3>2 DEF ListOf
      <4>. QED
        BY <4>1, <4>2
    <3>10. Ranked(bound)'
      BY <3>9 DEF Ranked
    <3>. QED
      BY <3>10 DEF ListInv
  <2>. QED
    BY <2>1, <2>2
<1>. QED
  BY <1>5, <1>6, <1>7, <1>8, <1>9, <1>10

\* ... unless it reads a listener that was freed.
LEMMA AdvanceAstray ==
  ASSUME ExitInv, NEW t \in Pair, Exit!Advance(t), ~Exit!Alive(exitThread[t].ptr)
  PROVE  ~Exit!WalkOnLive'
BY DEF ExitInv, ExitTypes, Exit!Advance, Exit!Step, Exit!At, Exit!WalkOnLive

\* What holds of a listener at every step, until a thread goes astray.
LEMMA ExitStepInv ==
  (Exit!WalkOnLive => ExitInv) /\ [Exit!Next]_(Exit!vars)
    => (Exit!WalkOnLive => ExitInv)'
<1>. SUFFICES ASSUME Exit!WalkOnLive => ExitInv, [Exit!Next]_(Exit!vars),
                     Exit!WalkOnLive'
              PROVE  ExitInv'
  OBVIOUS
<1>0. ExitInv
  BY DEF Exit!Next, Exit!WalkOnLive, Exit!vars, Exit!At
<1>1. CASE UNCHANGED Exit!vars
  <2>. USE <1>0, <1>1 DEF ExitInv, Exit!vars, Exit!listeners
  <2>1. /\ ExitTypes' /\ MutexInv' /\ ProducerLife' /\ DestructorInv'
        /\ PointerInv' /\ UserInv'
    BY DEF ExitTypes, MutexInv, Walking, ProducerLife, DestructorInv,
      PointerInv, UserInv
  <2>2. ListInv'
    BY ListsSame DEF Members, First, Walking
  <2>. QED
    BY <2>1, <2>2
<1>2. CASE \E t \in Pair :
             \/ \E p \in Producer :
                  Exit!Recycle(t, p) \/ \E q \in Queue : Exit!Create(t, p, q)
             \/ Exit!Subscribe(t) \/ Exit!End(t) \/ Exit!Unchain(t)
             \/ Exit!Callback(t) \/ Exit!Advance(t)
  BY <1>0, <1>2, RecycleInv, CreateInv, SubscribeInv, EndInv, UnchainInv,
    CallbackInv, AdvanceInv, AdvanceAstray
<1>3. CASE \E q \in Queue :
             \/ Exit!Begin(q) \/ \E p \in Producer : Exit!Look(q, p)
             \/ Exit!Unsubscribe(q) \/ Exit!Free(q) \/ Exit!Finish(q)
  BY <1>0, <1>3, BeginInv, LookInv, UnsubscribeInv, FreeInv, FinishInv
<1>. QED
  BY <1>1, <1>2, <1>3 DEF Exit!Next

LEMMA ExitSafe == ExitInv => Exit!Safety
<1>. SUFFICES ASSUME ExitInv
              PROVE  Exit!Safety
  OBVIOUS
<1>. USE NoneApart DEF ExitInv
<1>1. Exit!TypeOK
  BY DEF Exit!TypeOK, ExitTypes, MutexInv, Walking
<1>2. Exit!CallbackOnLive
  BY DEF Exit!CallbackOnLive, Exit!Alive, PointerInv, ProducerLife, Walking
<1>3. Exit!Told
  <2>1. \A t \in Pair, p \in Producer :
          exitThread[t].pc = "ended" => chain[p] # t
    <3>. SUFFICES ASSUME NEW t \in Pair, NEW p \in Producer,
                         exitThread[t].pc = "ended", chain[p] = t
                  PROVE  FALSE
      OBVIOUS
    <3>1. First(t) = None /\ p \in Members(t)
      BY DEF First, Members, Walking
    <3>. QED
      BY <3>1, NothingLeft
  <2>. QED
    BY <2>1 DEF Exit!Told, Exit!At, Exit!Alive, UserInv
<1>4. Exit!NoDangling
  <2>. SUFFICES ASSUME NEW t \in Pair, exitThread[t].pc # "ended", mutex # t
                PROVE  /\ exitTail[t] # None => queueOf[exitTail[t]] # None
                       /\ \A p \in Producer :
                            chain[p] = t /\ exitNext[p] # None
                              => queueOf[exitNext[p]] # None
    BY DEF Exit!NoDangling, Exit!At, Exit!Alive
  <2>1. ~Walking(t) /\ First(t) = exitTail[t]
    BY DEF MutexInv, First
  <2>2. \A p \in Members(t) : queueOf[p] # None
    BY <2>1 DEF Members, ProducerLife
  <2>3. /\ First(t) = None \/ First(t) \in Members(t)
        /\ \A p \in Members(t) :
             exitNext[p] = None \/ exitNext[p] \in Members(t)
    BY DEF ListInv, Ranked, ListOf
  <2>. QED
    BY <2>1, <2>2, <2>3 DEF Members
<1>. QED
  BY <1>1, <1>2, <1>3, <1>4 DEF Exit!Safety

\* Until a thread reads a listener that was freed, the end of a thread is told
\* to all producers it used and that still exist, and to no other, however many
\* threads end and queues are destroyed at once.
THEOREM EndIsTold == PartSpec => []ThreadExitSafety
<1>. DEFINE Inv == Exit!WalkOnLive => ExitInv
<1>1. PartInit => Inv
  BY ExitInit DEF PartInit
<1>2. Inv /\ [PartNext]_<<part, listVars, hashVars, exitVars, scanVars>> => Inv'
  <2>. SUFFICES ASSUME [PartNext]_<<part, listVars, hashVars, exitVars, scanVars>>
                PROVE  [Exit!Next]_(Exit!vars)
    BY ExitStepInv
  <2>1. UNCHANGED exitVars => UNCHANGED Exit!vars
    BY DEF exitVars, Exit!vars, Exit!listeners
  <2>. QED
    BY <2>1 DEF PartNext, ListStep, HashStep, ExitStep, ScanStep
<1>3. Inv => ThreadExitSafety
  BY ExitSafe DEF ThreadExitSafety, Exit!Safety
<1>. QED
  BY <1>1, <1>2, <1>3, PTL DEF PartSpec

-----------------------------------------------------------------------------
\* Of a part's n counted dequeues those with the numbers K have claimed an
\* element, those with the numbers G have given up, and C have still to choose.
\* As many as claimed an element there are elements.
Before(G, i) == {g \in G : g < i}
Tally(n, tl, C, R, K, G) ==
  /\ K \cap G = {}
  /\ \A c \in C : /\ R[c].count \in (0..n-1) \ (K \cup G)
                  /\ R[c].over <= Cardinality(Before(G, R[c].count))
  /\ \A c, d \in C : R[c].count = R[d].count => c = d
  /\ \A i \in (0..n-1) \ (K \cup G) : \E c \in C : R[c].count = i
  /\ \A i \in K : i - Cardinality(Before(G, i)) < tl
Accounted(n, h, g, tl, C, R) ==
  \E K \in SUBSET (0..n-1) : \E G \in SUBSET (0..n-1) :
    Cardinality(K) = h /\ Cardinality(G) = g /\ Tally(n, tl, C, R, K, G)

\* The scan over the parts (ConcurrentQueue, as instantiated in MCQueueParts).
Trying == {"count", "claim"}
ScanRecord ==
  [pc : {"idle", "score", "size", "check", "walk", "some", "none"} \cup Trying,
   rest : Seq(Pair), nonEmpty : Nat, best : Pair \cup {None}, size : Nat,
   tail : Nat, part : Pair \cup {None}, over : Nat, count : Nat]
ScanTypes ==
  /\ list \in Seq(Pair)
  /\ \A i, j \in 1..Len(list) : list[i] = list[j] => i = j
  /\ tail \in [Pair -> 0..MaxPut] /\ head \in [Pair -> Nat]
  /\ optimistic \in [Pair -> Nat] /\ overcommit \in [Pair -> Nat]
  /\ consumer \in [Consumer -> ScanRecord]
  /\ seen \in [Consumer -> [Pair -> Nat]]
  /\ rivals \in [Consumer -> SUBSET Pair]

Occurs(s, p) == \E i \in 1..Len(s) : s[i] = p
InList(p) == Occurs(list, p)
Pc(c) == consumer[c].pc

\* A part that no longer needs to be looked at: what was there when the dequeue
\* began is gone, or there was a rival.
Cleared(c, p) == p \in rivals[c] \/ seen[c][p] <= head[p]

\* What a dequeue with record r knows: while it measures, that the parts it has
\* measured are empty, unless it counted one that is not; when it has failed at
\* the best one, that those it no longer has before it are cleared.
Measures(c, r) ==
  /\ r.pc \in {"score", "size"} =>
       IF r.nonEmpty = 0
       THEN r.size = 0 /\ \A p \in Pair : Cleared(c, p) \/ Occurs(r.rest, p)
       ELSE InList(r.best)
  /\ r.pc = "size" => r.rest # <<>> /\ seen[c][Head(r.rest)] <= r.tail
Tries(c, r) ==
  /\ r.pc \in Trying \cup {"check"} => InList(r.part)
  /\ r.pc \in Trying \cup {"check", "walk"} => InList(r.best)
  /\ r.pc = "walk" => r.part = None
  /\ r.pc \in Trying \cup {"check", "walk"} /\ r.part # r.best =>
       /\ Cleared(c, r.best)
       /\ \A p \in Pair : Cleared(c, p) \/ Occurs(r.rest, p) \/ p = r.part
  /\ r.pc = "none" => \A p \in Pair : Cleared(c, p)
Knows(c, r) ==
  /\ \A p \in Pair : Occurs(r.rest, p) => InList(p)
  /\ Measures(c, r) /\ Tries(c, r)

\* Parts are filled once they are in the list.
PartInv ==
  /\ \A p \in Pair : InList(p) \/ tail[p] = 0
  /\ \A c \in Consumer, p \in Pair : seen[c][p] <= tail[p]
KnowInv == \A c \in Consumer : Knows(c, consumer[c])

\* Whoever tries a part is a rival of all others under way; without a rival
\* nobody counts but oneself.
RivalInv ==
  /\ \A c, d \in Consumer :
       c # d /\ Pc(c) # "idle" /\ Pc(d) \in Trying =>
         consumer[d].part \in rivals[c]
  /\ \A c \in Consumer :
       Pc(c) \in Trying /\ consumer[c].part \notin rivals[c] =>
         /\ consumer[c].over = overcommit[consumer[c].part]
         /\ Pc(c) = "claim" =>
              consumer[c].count + 1 = optimistic[consumer[c].part]

ClaimingFrom(p) == {c \in Consumer : Pc(c) = "claim" /\ consumer[c].part = p}
TallyInv ==
  /\ \A c \in Consumer :
       Pc(c) = "count" => consumer[c].over <= overcommit[consumer[c].part]
  /\ \A p \in Pair :
       Accounted(optimistic[p], head[p], overcommit[p], tail[p],
                 ClaimingFrom(p), consumer)

\* Until the pool's destructor has emptied the queue.
AliveInv == PartInv /\ KnowInv /\ RivalInv /\ TallyInv
DrainedInv ==
  /\ \A c \in Consumer : Pc(c) = "idle"
  /\ drained = room /\ head = tail
  /\ \A p \in Pair : optimistic[p] - overcommit[p] = head[p]
ScanInv ==
  /\ phase \in {"alive", "drained"} /\ ScanTypes
  /\ IF phase = "alive" THEN AliveInv ELSE DrainedInv

-----------------------------------------------------------------------------
\* A non-empty set of numbers up to N has a largest.
LEMMA Largest ==
  ASSUME NEW N \in Nat, NEW K, K \subseteq 0..N, K # {}
  PROVE  \E m \in K : \A i \in K : i <= m
<1>. DEFINE T == {N - i : i \in K}
<1>1. T \subseteq Nat /\ T # {}
  <2>1. \A i \in K : N - i \in Nat
    OBVIOUS
  <2>. QED
    BY <2>1
<1>2. PICK x \in T : \A y \in T : ~(<<y, x>> \in OpToRel(<, Nat))
  BY <1>1, NatLessThanWellFounded, WFMin
<1>3. PICK m \in K : x = N - m
  BY <1>2
<1>4. ASSUME NEW i \in K
      PROVE  i <= m
  <2>1. N - i \in T /\ N - i \in Nat /\ x \in Nat
    BY <1>1, <1>2
  <2>2. ~(N - i < x)
    BY <1>2, <2>1 DEF OpToRel
  <2>. QED
    BY <2>1, <2>2, <1>3
<1>. QED
  BY <1>4

LEMMA BeforeFacts ==
  ASSUME NEW n \in Nat, NEW G \in SUBSET (0..n-1)
  PROVE  /\ IsFiniteSet(G) /\ Cardinality(G) \in Nat
         /\ \A i : IsFiniteSet(Before(G, i)) /\ Cardinality(Before(G, i)) \in Nat
         /\ \A H \in SUBSET G : \A i :
              Cardinality(Before(H, i)) <= Cardinality(Before(G, i))
<1>1. IsFiniteSet(0..n-1)
  BY FS_Interval
<1>2. IsFiniteSet(G) /\ Cardinality(G) \in Nat
  BY <1>1, FS_Subset, FS_CardinalityType
<1>3. \A i : IsFiniteSet(Before(G, i)) /\ Cardinality(Before(G, i)) \in Nat
  <2>1. \A i : Before(G, i) \in SUBSET G
    BY DEF Before
  <2>. QED
    BY <1>2, <2>1, FS_Subset, FS_CardinalityType
<1>4. ASSUME NEW H \in SUBSET G, NEW i
      PROVE  Cardinality(Before(H, i)) <= Cardinality(Before(G, i))
  <2>1. Before(H, i) \in SUBSET Before(G, i)
    BY DEF Before
  <2>. QED
    BY <1>3, <2>1, FS_Subset
<1>. QED
  BY <1>2, <1>3, <1>4

\* The largest number that claimed bounds how many claimed.
LEMMA ClaimsFit ==
  ASSUME NEW n \in Nat, NEW tl \in Nat, NEW K \in SUBSET (0..n-1),
         NEW G \in SUBSET (0..n-1), K \cap G = {},
         \A i \in K : i - Cardinality(Before(G, i)) < tl
  PROVE  Cardinality(K) <= tl
<1>1. CASE K = {}
  BY <1>1, FS_EmptySet
<1>2. CASE K # {}
  <2>1. PICK m \in K : \A i \in K : i <= m
    <3>1. K \subseteq 0..n
      OBVIOUS
    <3>. QED
      BY <1>2, <3>1, Largest
  <2>. DEFINE S == 0..m
              B == Before(G, m)
  <2>2. m \in Nat /\ m - Cardinality(B) < tl
    BY <2>1
  <2>3. IsFiniteSet(S) /\ Cardinality(S) = m + 1
    BY <2>2, FS_Interval
  <2>4. B \subseteq S /\ K \subseteq S \ B /\ S \cap B = B
    <3>1. B \subseteq G /\ \A i \in B : i \in 0..n-1 /\ i < m
      BY DEF Before
    <3>2. \A i \in K : i \in 0..m
      BY <2>1, <2>2
    <3>3. \A i \in B : i \in 0..m
      BY <3>1, <2>2
    <3>. QED
      BY <3>1, <3>2, <3>3
  <2>5. Cardinality(B) \in Nat
    BY BeforeFacts
  <2>. HIDE DEF S, B
  <2>6. /\ IsFiniteSet(S \ B)
        /\ Cardinality(S \ B) = Cardinality(S) - Cardinality(S \cap B)
    BY <2>3, FS_Difference
  <2>7. Cardinality(S \ B) = m + 1 - Cardinality(B)
    <3>1. Cardinality(S \cap B) = Cardinality(B)
      BY <2>4
    <3>. QED
      BY <2>2, <2>3, <2>5, <2>6, <3>1
  <2>8. Cardinality(K) <= Cardinality(S \ B)
    BY <2>4, <2>6, FS_Subset
  <2>9. Cardinality(K) \in Nat
    BY BeforeFacts
  <2>. QED
    BY <2>2, <2>5, <2>7, <2>8, <2>9
<1>. QED
  BY <1>1, <1>2

\* The counters tell how many dequeues have still to choose, and no more
\* elements were claimed than there are.
LEMMA AccountedSums ==
  ASSUME NEW n \in Nat, NEW h, NEW g, NEW tl \in Nat, NEW C, NEW R,
         Accounted(n, h, g, tl, C, R)
  PROVE  /\ h \in Nat /\ g \in Nat /\ h <= tl
         /\ IsFiniteSet(C) /\ Cardinality(C) = n - g - h
<1>0. IsFiniteSet(0..n-1) /\ Cardinality(0..n-1) = n
  <2>1. n - 1 \in Int /\ 0 \in Int
    OBVIOUS
  <2>2. Cardinality(0..n-1) = IF 0 > n - 1 THEN 0 ELSE (n - 1) - 0 + 1
    BY <2>1, FS_Interval
  <2>3. IsFiniteSet(0..n-1)
    BY <2>1, FS_Interval
  <2>. QED
    BY <2>2, <2>3
<1>. DEFINE N == 0..n-1
<1>1. PICK K \in SUBSET N, G \in SUBSET N :
        Cardinality(K) = h /\ Cardinality(G) = g /\ Tally(n, tl, C, R, K, G)
  BY DEF Accounted
<1>2. IsFiniteSet(N) /\ Cardinality(N) = n
  BY <1>0
<1>3. IsFiniteSet(K) /\ IsFiniteSet(G) /\ h \in Nat /\ g \in Nat
  BY <1>1, <1>2, FS_Subset, FS_CardinalityType
<1>4. h <= tl
  BY <1>1, ClaimsFit DEF Tally
<1>. DEFINE KG == K \cup G
            Rest == N \ KG
            f == [c \in C |-> R[c].count]
<1>5. Cardinality(KG) = h + g
  <2>1. Cardinality(K \cup G)
          = Cardinality(K) + Cardinality(G) - Cardinality(K \cap G)
    BY <1>3, FS_Union
  <2>2. Cardinality(K \cap G) = 0
    BY <1>1, FS_EmptySet DEF Tally
  <2>. QED
    BY <2>1, <2>2, <1>1, <1>3
<1>6. f \in Injection(C, Rest) /\ f \in Surjection(C, Rest)
  BY <1>1 DEF Tally, Injection, Surjection, IsInjective
<1>7. N \cap KG = KG
  OBVIOUS
<1>. HIDE DEF N, KG
<1>8. IsFiniteSet(Rest) /\ Cardinality(Rest) = Cardinality(N) - Cardinality(N \cap KG)
  BY <1>2, FS_Difference
<1>9. Cardinality(Rest) = n - g - h
  <2>1. Cardinality(N \cap KG) = h + g
    BY <1>5, <1>7
  <2>. QED
    BY <1>2, <1>3, <1>8, <2>1
<1>10. IsFiniteSet(C) /\ Cardinality(C) = Cardinality(Rest)
  <2>1. f \in Bijection(C, Rest)
    BY <1>6 DEF Bijection
  <2>. HIDE DEF f, Rest
  <2>2. IsFiniteSet(C)
    BY <1>6, <1>8, FS_Injection
  <2>3. Cardinality(C) = Cardinality(Rest)
    BY <1>6, <1>8, FS_Injection
  <2>. QED
    BY <2>2, <2>3
<1>. QED
  BY <1>3, <1>4, <1>9, <1>10

\* A part gets more elements.
LEMMA AccountedMore ==
  ASSUME NEW n \in Nat, NEW h, NEW g, NEW t1 \in Nat, NEW t2 \in Nat,
         NEW C, NEW R1, NEW R2,
         Accounted(n, h, g, t1, C, R1), t1 <= t2, \A c \in C : R2[c] = R1[c]
  PROVE  Accounted(n, h, g, t2, C, R2)
<1>1. PICK K \in SUBSET (0..n-1), G \in SUBSET (0..n-1) :
        Cardinality(K) = h /\ Cardinality(G) = g /\ Tally(n, t1, C, R1, K, G)
  BY DEF Accounted
<1>2. \A i \in K : i - Cardinality(Before(G, i)) < t2
  <2>. SUFFICES ASSUME NEW i \in K
                PROVE  i - Cardinality(Before(G, i)) < t2
    OBVIOUS
  <2>1. i \in Nat
    OBVIOUS
  <2>2. Cardinality(Before(G, i)) \in Nat
    BY BeforeFacts
  <2>3. i - Cardinality(Before(G, i)) < t1
    BY <1>1 DEF Tally
  <2>. QED
    BY <2>1, <2>2, <2>3
<1>3. Tally(n, t2, C, R2, K, G)
  BY <1>1, <1>2 DEF Tally
<1>. QED
  BY <1>1, <1>3 DEF Accounted

\* A dequeue is counted.
LEMMA AccountedCount ==
  ASSUME NEW n \in Nat, NEW h, NEW g, NEW tl, NEW C, NEW R1, NEW R2, NEW c,
         Accounted(n, h, g, tl, C, R1), c \notin C,
         \A d \in C : R2[d] = R1[d],
         R2[c].count = n, R2[c].over <= g
  PROVE  Accounted(n + 1, h, g, tl, C \cup {c}, R2)
<1>1. PICK K \in SUBSET (0..n-1), G \in SUBSET (0..n-1) :
        Cardinality(K) = h /\ Cardinality(G) = g /\ Tally(n, tl, C, R1, K, G)
  BY DEF Accounted
<1>2. 0..(n+1)-1 = (0..n-1) \cup {n} /\ n \notin 0..n-1
  OBVIOUS
<1>3. Before(G, n) = G
  <2>1. \A i \in G : i < n
    OBVIOUS
  <2>. QED
    BY <2>1 DEF Before
<1>4. ASSUME NEW d \in C \cup {c}
      PROVE  /\ R2[d].count \in (0..(n+1)-1) \ (K \cup G)
             /\ R2[d].over <= Cardinality(Before(G, R2[d].count))
  BY <1>1, <1>2, <1>3 DEF Tally
<1>5. \A d, e \in C \cup {c} : R2[d].count = R2[e].count => d = e
  BY <1>1, <1>2 DEF Tally
<1>6. \A i \in (0..(n+1)-1) \ (K \cup G) : \E d \in C \cup {c} : R2[d].count = i
  BY <1>1, <1>2 DEF Tally
<1>7. Tally(n + 1, tl, C \cup {c}, R2, K, G)
  BY <1>1, <1>4, <1>5, <1>6 DEF Tally
<1>8. K \in SUBSET (0..(n+1)-1) /\ G \in SUBSET (0..(n+1)-1)
  BY <1>2
<1>. QED
  BY <1>1, <1>7, <1>8 DEF Accounted

\* It claims an element ...
LEMMA AccountedClaim ==
  ASSUME NEW n \in Nat, NEW h, NEW g, NEW tl \in Nat, NEW C, NEW R1, NEW R2,
         NEW c \in C, Accounted(n, h, g, tl, C, R1),
         \A d \in C \ {c} : R2[d] = R1[d],
         R1[c].over \in Nat, R1[c].count - R1[c].over < tl
  PROVE  Accounted(n, h + 1, g, tl, C \ {c}, R2)
<1>1. PICK K \in SUBSET (0..n-1), G \in SUBSET (0..n-1) :
        Cardinality(K) = h /\ Cardinality(G) = g /\ Tally(n, tl, C, R1, K, G)
  BY DEF Accounted
<1>2. PICK m : m = R1[c].count
  OBVIOUS
<1>3. m \in (0..n-1) \ (K \cup G) /\ R1[c].over <= Cardinality(Before(G, m))
  BY <1>1, <1>2 DEF Tally
<1>4. Cardinality(K \cup {m}) = h + 1
  BY <1>1, <1>3, BeforeFacts, FS_AddElement
<1>5. m - Cardinality(Before(G, m)) < tl
  <2>1. Cardinality(Before(G, m)) \in Nat
    BY BeforeFacts
  <2>2. m \in Nat
    BY <1>3
  <2>. QED
    BY <2>1, <2>2, <1>2, <1>3
<1>6. \A i \in K \cup {m} : i - Cardinality(Before(G, i)) < tl
  BY <1>1, <1>5 DEF Tally
<1>7. /\ \A d \in C \ {c} :
           /\ R2[d].count \in (0..n-1) \ ((K \cup {m}) \cup G)
           /\ R2[d].over <= Cardinality(Before(G, R2[d].count))
      /\ \A d, e \in C \ {c} : R2[d].count = R2[e].count => d = e
      /\ \A i \in (0..n-1) \ ((K \cup {m}) \cup G) :
           \E d \in C \ {c} : R2[d].count = i
  BY <1>1, <1>2 DEF Tally
<1>8. Tally(n, tl, C \ {c}, R2, K \cup {m}, G)
  BY <1>1, <1>3, <1>6, <1>7 DEF Tally
<1>9. K \cup {m} \in SUBSET (0..n-1)
  BY <1>3
<1>. QED
  BY <1>1, <1>4, <1>8, <1>9 DEF Accounted

\* ... or gives up.
LEMMA AccountedGiveUp ==
  ASSUME NEW n \in Nat, NEW h, NEW g, NEW tl \in Nat, NEW C, NEW R1, NEW R2,
         NEW c \in C, Accounted(n, h, g, tl, C, R1),
         \A d \in C : R1[d].over \in Nat,
         \A d \in C \ {c} : R2[d] = R1[d]
  PROVE  Accounted(n, h, g + 1, tl, C \ {c}, R2)
<1>1. PICK K \in SUBSET (0..n-1), G \in SUBSET (0..n-1) :
        Cardinality(K) = h /\ Cardinality(G) = g /\ Tally(n, tl, C, R1, K, G)
  BY DEF Accounted
<1>2. PICK m : m = R1[c].count
  OBVIOUS
<1>3. m \in (0..n-1) \ (K \cup G)
  BY <1>1, <1>2 DEF Tally
<1>4. Cardinality(G \cup {m}) = g + 1
  BY <1>1, <1>3, BeforeFacts, FS_AddElement
<1>5. PICK H \in SUBSET (0..n-1) : H = G \cup {m}
  BY <1>3
<1>6. \A i : /\ Cardinality(Before(G, i)) \in Nat
             /\ Cardinality(Before(H, i)) \in Nat
             /\ Cardinality(Before(G, i)) <= Cardinality(Before(H, i))
  <2>1. G \in SUBSET H
    BY <1>5
  <2>. QED
    BY <2>1, BeforeFacts
<1>7. \A i \in K : i - Cardinality(Before(H, i)) < tl
  <2>. SUFFICES ASSUME NEW i \in K
                PROVE  i - Cardinality(Before(H, i)) < tl
    OBVIOUS
  <2>1. i \in Nat /\ i - Cardinality(Before(G, i)) < tl
    BY <1>1 DEF Tally
  <2>. QED
    BY <2>1, <1>6
<1>8. ASSUME NEW d \in C \ {c}
      PROVE  R2[d].over <= Cardinality(Before(H, R2[d].count))
  <2>1. R1[d].over <= Cardinality(Before(G, R1[d].count)) /\ R1[d].over \in Nat
    BY <1>1 DEF Tally
  <2>2. PICK i : i = R1[d].count
    OBVIOUS
  <2>3. R1[d].over <= Cardinality(Before(H, i))
    BY <2>1, <2>2, <1>6
  <2>. QED
    BY <2>2, <2>3
<1>9. /\ \A d \in C \ {c} : R2[d].count \in (0..n-1) \ (K \cup H)
      /\ \A d, e \in C \ {c} : R2[d].count = R2[e].count => d = e
      /\ \A i \in (0..n-1) \ (K \cup H) : \E d \in C \ {c} : R2[d].count = i
  BY <1>1, <1>2, <1>5 DEF Tally
<1>10. K \cap H = {}
  BY <1>1, <1>3, <1>5 DEF Tally
<1>11. Tally(n, tl, C \ {c}, R2, K, H)
  BY <1>7, <1>8, <1>9, <1>10 DEF Tally
<1>. QED
  BY <1>1, <1>4, <1>5, <1>11 DEF Accounted

-----------------------------------------------------------------------------
\* Which members a sequence has.
LEMMA OccursTail ==
  ASSUME NEW S, NEW s \in Seq(S), s # <<>>
  PROVE  /\ Tail(s) \in Seq(S) /\ Head(s) \in S /\ Occurs(s, Head(s))
         /\ \A p : Occurs(s, p) <=> p = Head(s) \/ Occurs(Tail(s), p)
<1>1. /\ Tail(s) \in Seq(S) /\ Head(s) \in S /\ Len(s) \in Nat \ {0}
      /\ Head(s) = s[1] /\ Len(Tail(s)) = Len(s) - 1
      /\ \A i \in 1..Len(s) - 1 : Tail(s)[i] = s[i + 1]
  OBVIOUS
<1>2. Occurs(s, Head(s))
  BY <1>1 DEF Occurs
<1>3. ASSUME NEW p, Occurs(s, p), p # Head(s)
      PROVE  Occurs(Tail(s), p)
  <2>1. PICK i \in 1..Len(s) : s[i] = p
    BY <1>3 DEF Occurs
  <2>2. i - 1 \in 1..Len(s) - 1 /\ Tail(s)[i - 1] = s[i]
    BY <1>1, <1>3, <2>1
  <2>. QED
    BY <1>1, <2>1, <2>2 DEF Occurs
<1>4. ASSUME NEW p, Occurs(Tail(s), p)
      PROVE  Occurs(s, p)
  <2>1. PICK i \in 1..Len(s) - 1 : Tail(s)[i] = p
    BY <1>1, <1>4 DEF Occurs
  <2>2. i + 1 \in 1..Len(s) /\ s[i + 1] = p
    BY <1>1, <2>1
  <2>. QED
    BY <2>2 DEF Occurs
<1>. QED
  BY <1>1, <1>2, <1>3, <1>4

LEMMA OccursFirst ==
  ASSUME NEW S, NEW s \in Seq(S), NEW q \in S
  PROVE  /\ <<q>> \o s \in Seq(S)
         /\ \A p : Occurs(s, p) => Occurs(<<q>> \o s, p)
         /\ Occurs(<<q>> \o s, q)
         /\ (\A i, j \in 1..Len(s) : s[i] = s[j] => i = j) /\ ~Occurs(s, q) =>
              \A i, j \in 1..Len(<<q>> \o s) :
                (<<q>> \o s)[i] = (<<q>> \o s)[j] => i = j
<1>. DEFINE t == <<q>> \o s
<1>1. /\ t \in Seq(S) /\ Len(s) \in Nat /\ Len(t) = Len(s) + 1
      /\ t[1] = q /\ \A i \in 1..Len(s) : t[i + 1] = s[i]
  OBVIOUS
<1>. HIDE DEF t
<1>2. \A i \in 1..Len(t) : i = 1 \/ (i - 1 \in 1..Len(s) /\ t[i] = s[i - 1])
  BY <1>1
<1>3. ASSUME NEW p, Occurs(s, p)
      PROVE  Occurs(t, p)
  <2>1. PICK i \in 1..Len(s) : s[i] = p
    BY <1>3 DEF Occurs
  <2>2. i + 1 \in 1..Len(t) /\ t[i + 1] = p
    BY <1>1, <2>1
  <2>. QED
    BY <2>2 DEF Occurs
<1>4. Occurs(t, q)
  BY <1>1 DEF Occurs
<1>5. ASSUME \A i, j \in 1..Len(s) : s[i] = s[j] => i = j, ~Occurs(s, q),
             NEW i \in 1..Len(t), NEW j \in 1..Len(t), t[i] = t[j]
      PROVE  i = j
  <2>1. \A x \in 1..Len(t) : x # 1 => t[x] # q
    BY <1>2, <1>5 DEF Occurs
  <2>2. i = 1 <=> j = 1
    BY <1>1, <1>5, <2>1
  <2>3. CASE i # 1 /\ j # 1
    <3>1. /\ i - 1 \in 1..Len(s) /\ t[i] = s[i - 1]
          /\ j - 1 \in 1..Len(s) /\ t[j] = s[j - 1]
      BY <1>2, <2>3
    <3>2. i - 1 = j - 1
      BY <1>5, <3>1
    <3>. QED
      BY <3>2
  <2>. QED
    BY <2>2, <2>3
<1>. QED
  BY <1>1, <1>3, <1>4, <1>5 DEF t

LEMMA SetOccurs ==
  ASSUME NEW S, NEW s \in Seq(S)
  PROVE  \A p : p \in Scan!ToSet(s) <=> Occurs(s, p)
BY DEF Scan!ToSet, Occurs

LEMMA ListMembers == ScanTypes => \A p : InList(p) => p \in Pair
BY DEF ScanTypes, InList, Occurs

-----------------------------------------------------------------------------
\* What a dequeue knows stays true while the list and the heads only grow.
LEMMA KnowsStays ==
  ASSUME ScanTypes, NEW c, NEW r, Knows(c, r), seen'[c] = seen[c],
         \A p : InList(p) => InList(p)',
         \A p \in Pair : Cleared(c, p) => Cleared(c, p)'
  PROVE  Knows(c, r)'
<1>1. Measures(c, r)'
  BY DEF Knows, Measures
<1>2. Tries(c, r)'
  BY ListMembers DEF Knows, Tries
<1>. QED
  BY <1>1, <1>2 DEF Knows

\* A step of one dequeue: the others know what they knew.
LEMMA OthersKnow ==
  ASSUME ScanTypes, KnowInv, NEW c \in Consumer, NEW r,
         consumer' = [consumer EXCEPT ![c] = r], list' = list,
         \A d \in Consumer \ {c} :
           /\ seen'[d] = seen[d]
           /\ \A p \in Pair : Cleared(d, p) => Cleared(d, p)',
         Knows(c, r)'
  PROVE  KnowInv'
<1>1. consumer'[c] = r
  BY DEF ScanTypes
<1>2. ASSUME NEW d \in Consumer, d # c
      PROVE  Knows(d, consumer[d])'
  <2>1. PICK s : s = consumer[d]
    OBVIOUS
  <2>2. consumer'[d] = s
    BY <1>2, <2>1 DEF ScanTypes
  <2>3. Knows(d, s)
    BY <2>1 DEF KnowInv
  <2>4. Knows(d, s)'
    BY <1>2, <2>3, KnowsStays DEF InList
  <2>. QED
    BY <2>2, <2>4
<1>. QED
  BY <1>1, <1>2 DEF KnowInv

\* Nothing but the tails changes in what is counted.
LEMMA TallySame ==
  ASSUME ScanTypes, TallyInv, ScanTypes',
         UNCHANGED <<head, optimistic, overcommit>>,
         \A p \in Pair : tail[p] <= tail'[p],
         \A c \in Consumer :
           /\ Pc(c)' = "count" => consumer'[c].over <= overcommit[consumer'[c].part]
           /\ (Pc(c) = "claim") <=> (Pc(c)' = "claim")
           /\ Pc(c) = "claim" => consumer'[c] = consumer[c]
  PROVE  TallyInv'
<1>1. ASSUME NEW p \in Pair
      PROVE  Accounted(optimistic[p], head[p], overcommit[p], tail[p],
                       ClaimingFrom(p), consumer)'
  <2>1. ClaimingFrom(p)' = ClaimingFrom(p)
    BY DEF ClaimingFrom, Pc
  <2>2. \A c \in ClaimingFrom(p) : consumer'[c] = consumer[c]
    BY DEF ClaimingFrom
  <2>3. /\ optimistic[p] \in Nat /\ tail[p] \in Nat /\ tail'[p] \in Nat
        /\ tail[p] <= tail'[p]
    BY DEF ScanTypes
  <2>4. PICK C, R : C = ClaimingFrom(p) /\ R = consumer'
    OBVIOUS
  <2>5. Accounted(optimistic[p], head[p], overcommit[p], tail[p], C, consumer)
    BY <2>4 DEF TallyInv
  <2>6. Accounted(optimistic[p], head[p], overcommit[p], tail'[p], C, R)
    BY <2>2, <2>3, <2>4, <2>5, AccountedMore
  <2>. QED
    BY <2>1, <2>4, <2>6
<1>. QED
  BY <1>1 DEF TallyInv

\* A dequeue that does not count before or after its step.
LEMMA OwnStep ==
  ASSUME ScanInv, phase = "alive", NEW c \in Consumer, NEW r \in ScanRecord,
         consumer' = [consumer EXCEPT ![c] = r],
         UNCHANGED <<list, tail, head, optimistic, overcommit, phase, seen, rivals>>,
         Pc(c) \notin Trying \cup {"idle"}, r.pc \notin Trying,
         Knows(c, r)
  PROVE  ScanInv'
<1>. USE DEF ScanInv, AliveInv
<1>1. ScanTypes'
  BY DEF ScanTypes
<1>2. PartInv'
  BY DEF PartInv, InList
<1>3. KnowInv'
  <2>1. Knows(c, r)'
    BY KnowsStays DEF InList, Cleared
  <2>. QED
    BY <2>1, OthersKnow DEF Cleared
<1>4. /\ consumer'[c] = r
      /\ \A d \in Consumer \ {c} : consumer'[d] = consumer[d]
  BY DEF ScanTypes
<1>5. RivalInv'
  BY <1>4 DEF RivalInv, Pc, Trying
<1>6. TallyInv'
  <2>1. \A p \in Pair : tail[p] <= tail'[p]
    BY DEF ScanTypes
  <2>2. \A d \in Consumer :
          /\ Pc(d)' = "count" => consumer'[d].over <= overcommit[consumer'[d].part]
          /\ (Pc(d) = "claim") <=> (Pc(d)' = "claim")
          /\ Pc(d) = "claim" => consumer'[d] = consumer[d]
    BY <1>4 DEF TallyInv, Pc, Trying
  <2>. QED
    BY <1>1, <2>1, <2>2, TallySame
<1>. QED
  BY <1>1, <1>2, <1>3, <1>5, <1>6

\* The parts of an action that only name variables.
LEMMA ScanAlive ==
  ASSUME ScanInv, NEW c \in Consumer, Pc(c) # "idle"
  PROVE  phase = "alive"
BY DEF ScanInv, DrainedInv

LEMMA RecordFacts ==
  ASSUME ScanTypes, NEW c \in Consumer
  PROVE  /\ consumer[c] \in ScanRecord
         /\ consumer[c].rest \in Seq(Pair)
         /\ Scan!Idle \in ScanRecord
         /\ Scan!Idle.rest = <<>>
         /\ \A p : ~Occurs(<<>>, p)
BY DEF ScanTypes, ScanRecord, Scan!Idle, Occurs

LEMMA ScanLoadTail ==
  ASSUME ScanInv, NEW c \in Consumer, Scan!LoadTail(c)
  PROVE  ScanInv'
<1>. USE DEF Scan!LoadTail, Scan!At, Scan!counters, Scan!destructor, Scan!history
<1>. DEFINE r == consumer[c]
            q == [r EXCEPT !.pc = "size", !.tail = tail[Head(r.rest)]]
<1>1. phase = "alive"
  BY ScanAlive DEF Pc
<1>2. ScanTypes /\ PartInv /\ Knows(c, r)
  BY <1>1 DEF ScanInv, AliveInv, KnowInv
<1>3. r \in ScanRecord /\ r.pc = "score" /\ r.rest # <<>>
  BY <1>2, RecordFacts
<1>4. Head(r.rest) \in Pair /\ tail[Head(r.rest)] \in Nat
  BY <1>2, <1>3, RecordFacts, OccursTail DEF ScanTypes
<1>5. q \in ScanRecord /\ q.pc = "size" /\ q.rest = r.rest
      /\ q.nonEmpty = r.nonEmpty /\ q.size = r.size /\ q.best = r.best
      /\ q.tail = tail[Head(r.rest)]
  BY <1>3, <1>4 DEF ScanRecord
<1>. HIDE DEF q
<1>6. Knows(c, q)
  <2>1. Measures(c, q)
    BY <1>2, <1>3, <1>4, <1>5 DEF Knows, Measures, PartInv
  <2>2. Tries(c, q)
    BY <1>5 DEF Tries, Trying
  <2>. QED
    BY <1>2, <1>5, <2>1, <2>2 DEF Knows
<1>7. consumer' = [consumer EXCEPT ![c] = q]
  BY DEF Scan!Step, q
<1>8. UNCHANGED <<list, tail, head, optimistic, overcommit, phase, seen, rivals>>
  OBVIOUS
<1>9. Pc(c) \notin Trying \cup {"idle"} /\ q.pc \notin Trying
  BY <1>3, <1>5 DEF Pc, Trying
<1>. QED
  BY <1>1, <1>5, <1>6, <1>7, <1>8, <1>9, OwnStep

LEMMA ScanLoadHead ==
  ASSUME ScanInv, NEW c \in Consumer, Scan!LoadHead(c)
  PROVE  ScanInv'
<1>. USE DEF Scan!At, Scan!counters, Scan!destructor, Scan!history
<1>. DEFINE r == consumer[c]
            p == Head(r.rest)
            n == Scan!Measured(r.tail, head[p])
            q == [r EXCEPT !.pc = "score", !.rest = Tail(@), !.tail = 0,
                           !.nonEmpty = IF n > 0 THEN @ + 1 ELSE @,
                           !.best = IF n > r.size THEN p ELSE @,
                           !.size = IF n > r.size THEN n ELSE @]
<1>0. /\ r.pc = "size" /\ consumer' = [consumer EXCEPT ![c] = q]
      /\ UNCHANGED <<list, tail, head, optimistic, overcommit, phase, seen, rivals>>
  BY DEF Scan!LoadHead, Scan!Step
<1>1. phase = "alive"
  BY <1>0, ScanAlive DEF Pc
<1>2. ScanTypes /\ Knows(c, r)
  BY <1>1 DEF ScanInv, AliveInv, KnowInv
<1>3. r \in ScanRecord /\ r.rest # <<>> /\ seen[c][p] <= r.tail
  BY <1>0, <1>2, RecordFacts DEF Knows, Measures
<1>4. /\ Tail(r.rest) \in Seq(Pair) /\ p \in Pair /\ Occurs(r.rest, p)
      /\ \A x : Occurs(r.rest, x) <=> x = p \/ Occurs(Tail(r.rest), x)
  BY <1>2, <1>3, RecordFacts, OccursTail
<1>5. /\ n \in Nat
      /\ n = 0 => seen[c][p] <= head[p]
      /\ r.nonEmpty \in Nat /\ r.size \in Nat
  <2>1. r.tail \in Nat /\ r.nonEmpty \in Nat /\ r.size \in Nat
    BY <1>3 DEF ScanRecord
  <2>2. head[p] \in Nat /\ seen[c][p] \in Nat
    BY <1>2, <1>4 DEF ScanTypes
  <2>3. n = IF head[p] < r.tail THEN r.tail - head[p] ELSE 0
    BY DEF Scan!Measured
  <2>. QED
    BY <1>3, <2>1, <2>2, <2>3
<1>. HIDE DEF p, n
<1>6. /\ q \in ScanRecord /\ q.pc = "score" /\ q.rest = Tail(r.rest)
      /\ q.nonEmpty = IF n > 0 THEN r.nonEmpty + 1 ELSE r.nonEmpty
      /\ q.best = IF n > r.size THEN p ELSE r.best
      /\ q.size = IF n > r.size THEN n ELSE r.size
  <2>1. PICK a, b, d : /\ a = IF n > 0 THEN r.nonEmpty + 1 ELSE r.nonEmpty
                       /\ b = IF n > r.size THEN p ELSE r.best
                       /\ d = IF n > r.size THEN n ELSE r.size
    OBVIOUS
  <2>2. a \in Nat /\ b \in Pair \cup {None} /\ d \in Nat
    BY <1>3, <1>4, <1>5, <2>1 DEF ScanRecord
  <2>3. q = [r EXCEPT !.pc = "score", !.rest = Tail(r.rest), !.tail = 0,
                      !.nonEmpty = a, !.best = b, !.size = d]
    BY <1>3, <2>1 DEF ScanRecord
  <2>. HIDE DEF q
  <2>. QED
    BY <1>3, <1>4, <2>1, <2>2, <2>3 DEF ScanRecord
<1>. HIDE DEF q
<1>7. InList(p)
  BY <1>2, <1>4 DEF Knows
<1>8. Measures(c, q)
  <2>1. CASE r.nonEmpty = 0 /\ n = 0
    <3>1. r.size = 0 /\ \A x \in Pair : Cleared(c, x) \/ Occurs(r.rest, x)
      BY <1>0, <1>2, <2>1 DEF Knows, Measures
    <3>2. Cleared(c, p)
      BY <1>5, <2>1 DEF Cleared
    <3>3. q.nonEmpty = 0 /\ q.size = 0
      BY <1>5, <1>6, <2>1, <3>1
    <3>. QED
      BY <1>4, <1>6, <3>1, <3>2, <3>3 DEF Measures
  <2>2. CASE ~(r.nonEmpty = 0 /\ n = 0)
    <3>1. q.nonEmpty # 0
      BY <1>5, <1>6, <2>2
    <3>2. n > r.size \/ InList(r.best)
      <4>1. r.nonEmpty = 0 => r.size = 0 /\ n > 0
        BY <1>0, <1>2, <1>5, <2>2 DEF Knows, Measures
      <4>2. r.nonEmpty # 0 => InList(r.best)
        BY <1>0, <1>2 DEF Knows, Measures
      <4>. QED
        BY <4>1, <4>2
    <3>3. InList(q.best)
      BY <1>5, <1>6, <1>7, <3>2
    <3>. QED
      BY <1>6, <3>1, <3>3 DEF Measures
  <2>. QED
    BY <2>1, <2>2
<1>9. Tries(c, q)
  BY <1>6 DEF Tries, Trying
<1>10. Knows(c, q)
  BY <1>2, <1>4, <1>6, <1>8, <1>9 DEF Knows
<1>11. Pc(c) \notin Trying \cup {"idle"} /\ q.pc \notin Trying
  BY <1>0, <1>6 DEF Pc, Trying
<1>. QED
  BY <1>0, <1>1, <1>6, <1>10, <1>11, OwnStep

LEMMA ScanScored ==
  ASSUME ScanInv, NEW c \in Consumer, Scan!Scored(c)
  PROVE  ScanInv'
<1>. USE DEF Scan!At, Scan!counters, Scan!destructor, Scan!history
<1>i. PICK i : i = Scan!Idle
  OBVIOUS
<1>. DEFINE r == consumer[c]
            q == IF r.nonEmpty = 0 THEN [i EXCEPT !.pc = "none"]
                 ELSE [i EXCEPT !.pc = "check", !.best = r.best,
                                        !.part = r.best]
<1>0. /\ r.pc = "score" /\ consumer' = [consumer EXCEPT ![c] = q]
      /\ r.nonEmpty = 3 \/ r.rest = <<>>
      /\ UNCHANGED <<list, tail, head, optimistic, overcommit, phase, seen, rivals>>
  BY <1>i DEF Scan!Scored, Scan!Step, Scan!Nothing, Scan!Enough
<1>1. phase = "alive"
  BY <1>0, ScanAlive DEF Pc
<1>2. ScanTypes /\ Knows(c, r)
  BY <1>1 DEF ScanInv, AliveInv, KnowInv
<1>3. CASE r.nonEmpty = 0
  <2>1. q \in ScanRecord /\ q.pc = "none" /\ q.rest = <<>>
    <3>1. q = [i EXCEPT !.pc = "none"]
      BY <1>3
    <3>2. i \in ScanRecord /\ i.rest = <<>>
      BY <1>i, <1>2, RecordFacts
    <3>. HIDE DEF q
    <3>3. q \in ScanRecord
      BY <3>1, <3>2 DEF ScanRecord
    <3>4. q.pc = "none" /\ q.rest = <<>>
      BY <3>1, <3>2 DEF ScanRecord
    <3>. QED
      BY <3>3, <3>4
  <2>2. \A p \in Pair : Cleared(c, p)
    <3>1. r.rest = <<>>
      BY <1>0, <1>3
    <3>2. \A p \in Pair : Cleared(c, p) \/ Occurs(r.rest, p)
      BY <1>0, <1>2, <1>3 DEF Knows, Measures
    <3>. QED
      BY <1>2, <3>1, <3>2, RecordFacts
  <2>. HIDE DEF q
  <2>3. Knows(c, q)
    BY <1>2, <2>1, <2>2, RecordFacts DEF Knows, Measures, Tries, Trying
  <2>4. Pc(c) \notin Trying \cup {"idle"} /\ q.pc \notin Trying
    BY <1>0, <2>1 DEF Pc, Trying
  <2>. QED
    BY <1>0, <1>1, <2>1, <2>3, <2>4, OwnStep
<1>4. CASE r.nonEmpty # 0
  <2>1. InList(r.best)
    BY <1>0, <1>2, <1>4 DEF Knows, Measures
  <2>2. r.best \in Pair
    BY <1>2, <2>1, ListMembers
  <2>3. /\ q \in ScanRecord /\ q.pc = "check" /\ q.rest = <<>>
        /\ q.best = r.best /\ q.part = r.best
    <3>1. q = [i EXCEPT !.pc = "check", !.best = r.best,
                                !.part = r.best]
      BY <1>4
    <3>2. i \in ScanRecord /\ i.rest = <<>>
      BY <1>i, <1>2, RecordFacts
    <3>. HIDE DEF q
    <3>. QED
      BY <2>2, <3>1, <3>2 DEF ScanRecord
  <2>. HIDE DEF q
  <2>4. Knows(c, q)
    BY <1>2, <2>1, <2>3, RecordFacts DEF Knows, Measures, Tries, Trying
  <2>5. Pc(c) \notin Trying \cup {"idle"} /\ q.pc \notin Trying
    BY <1>0, <2>3 DEF Pc, Trying
  <2>. QED
    BY <1>0, <1>1, <2>3, <2>4, <2>5, OwnStep
<1>. QED
  BY <1>3, <1>4

LEMMA ScanWalk ==
  ASSUME ScanInv, NEW c \in Consumer, Scan!Walk(c)
  PROVE  ScanInv'
<1>. USE DEF Scan!At, Scan!counters, Scan!destructor, Scan!history
<1>i. PICK i : i = Scan!Idle
  OBVIOUS
<1>. DEFINE r == consumer[c]
            q == IF r.rest = <<>> THEN [i EXCEPT !.pc = "none"]
                 ELSE IF Head(r.rest) = r.best THEN [r EXCEPT !.rest = Tail(@)]
                 ELSE [r EXCEPT !.pc = "check", !.part = Head(r.rest),
                                !.rest = Tail(@)]
<1>0. /\ r.pc = "walk" /\ consumer' = [consumer EXCEPT ![c] = q]
      /\ UNCHANGED <<list, tail, head, optimistic, overcommit, phase, seen, rivals>>
  BY <1>i DEF Scan!Walk, Scan!Step
<1>1. phase = "alive"
  BY <1>0, ScanAlive DEF Pc
<1>2. ScanTypes /\ Knows(c, r) /\ r \in ScanRecord
  BY <1>1, RecordFacts DEF ScanInv, AliveInv, KnowInv
<1>3. InList(r.best) /\ r.part = None /\ r.best \in Pair
  BY <1>0, <1>2, ListMembers DEF Knows, Tries
<1>4. /\ Cleared(c, r.best)
      /\ \A p \in Pair : Cleared(c, p) \/ Occurs(r.rest, p)
  BY <1>0, <1>2, <1>3, NoneApart DEF Knows, Tries
<1>5. Pc(c) \notin Trying \cup {"idle"}
  BY <1>0 DEF Pc, Trying
<1>6. CASE r.rest = <<>>
  <2>1. q \in ScanRecord /\ q.pc = "none" /\ q.rest = <<>>
    <3>1. q = [i EXCEPT !.pc = "none"]
      BY <1>6
    <3>2. i \in ScanRecord /\ i.rest = <<>>
      BY <1>i, <1>2, RecordFacts
    <3>. HIDE DEF q
    <3>3. q \in ScanRecord
      BY <3>1, <3>2 DEF ScanRecord
    <3>4. q.pc = "none" /\ q.rest = <<>>
      BY <3>1, <3>2 DEF ScanRecord
    <3>. QED
      BY <3>3, <3>4
  <2>2. \A p \in Pair : Cleared(c, p)
    BY <1>2, <1>4, <1>6, RecordFacts
  <2>. HIDE DEF q
  <2>3. Knows(c, q)
    BY <1>2, <2>1, <2>2, RecordFacts DEF Knows, Measures, Tries, Trying
  <2>. QED
    BY <1>0, <1>1, <1>5, <2>1, <2>3, OwnStep DEF Trying
<1>7. CASE r.rest # <<>>
  <2>. DEFINE h == Head(r.rest)
              t == Tail(r.rest)
  <2>1. /\ t \in Seq(Pair) /\ h \in Pair /\ Occurs(r.rest, h)
        /\ \A p : Occurs(r.rest, p) <=> p = h \/ Occurs(t, p)
    BY <1>2, <1>7, RecordFacts, OccursTail
  <2>2. /\ InList(h)
        /\ \A p \in Pair : Occurs(t, p) => InList(p)
    BY <1>2, <2>1 DEF Knows
  <2>3. /\ q \in ScanRecord /\ q.rest = t /\ q.best = r.best
        /\ h = r.best => q.pc = "walk" /\ q.part = None
        /\ h # r.best => q.pc = "check" /\ q.part = h
    BY <1>0, <1>2, <1>3, <1>7, <2>1 DEF ScanRecord
  <2>. HIDE DEF q, h, t
  <2>4. Measures(c, q)
    BY <2>3 DEF Measures
  <2>5. Tries(c, q)
    <3>1. CASE h = r.best
      BY <1>3, <1>4, <2>1, <2>3, <3>1 DEF Tries, Trying
    <3>2. CASE h # r.best
      BY <1>3, <1>4, <2>1, <2>2, <2>3, <3>2 DEF Tries, Trying
    <3>. QED
      BY <3>1, <3>2
  <2>6. Knows(c, q)
    BY <2>2, <2>3, <2>4, <2>5 DEF Knows
  <2>7. q.pc \notin Trying
    BY <2>3 DEF Trying
  <2>. QED
    BY <1>0, <1>1, <1>5, <2>3, <2>6, <2>7, OwnStep
<1>. QED
  BY <1>6, <1>7

\* A dequeue begins: every part that had an element is before it.
LEMMA ScanBegin ==
  ASSUME ScanInv, NEW c \in Consumer, Scan!Begin(c)
  PROVE  ScanInv'
<1>. USE DEF Scan!At, Scan!counters, Scan!destructor
<1>i. PICK i : i = Scan!Idle
  OBVIOUS
<1>. DEFINE r == [i EXCEPT !.pc = "score", !.rest = list]
            trying == {d \in Consumer \ {c} : Pc(d) = "count" \/ Pc(d) = "claim"}
            R == {consumer[d].part : d \in trying}
<1>0. /\ phase = "alive" /\ Pc(c) = "idle"
      /\ consumer' = [consumer EXCEPT ![c] = r]
      /\ seen' = [seen EXCEPT ![c] = tail] /\ rivals' = [rivals EXCEPT ![c] = R]
      /\ UNCHANGED <<list, tail, head, optimistic, overcommit, phase, room, drained>>
  BY <1>i DEF Scan!Begin, Scan!Step, Pc
<1>1. ScanTypes /\ PartInv /\ KnowInv /\ RivalInv /\ TallyInv
  BY <1>0 DEF ScanInv, AliveInv
<1>2. r \in ScanRecord
  <2>1. i \in ScanRecord
    BY <1>i, <1>1, RecordFacts
  <2>. QED
    BY <1>1, <2>1 DEF ScanRecord, ScanTypes
<1>3. r.pc = "score" /\ r.rest = list /\ r.nonEmpty = 0 /\ r.size = 0
  BY <1>i DEF Scan!Idle
<1>r. PICK x : x = r
  OBVIOUS
<1>. HIDE DEF r
<1>4. R \in SUBSET Pair
  <2>1. \A d \in trying : consumer[d].part \in Pair
    BY <1>1, ListMembers DEF KnowInv, Knows, Tries, Pc, Trying
  <2>. QED
    BY <2>1
<1>5. \A d \in Consumer : Pc(d) \in Trying => d # c /\ consumer[d].part \in R
  BY <1>0 DEF Trying
<1>. HIDE DEF R
<1>6. /\ consumer'[c] = r /\ seen'[c] = tail /\ rivals'[c] = R
      /\ \A d \in Consumer \ {c} :
           consumer'[d] = consumer[d] /\ seen'[d] = seen[d] /\ rivals'[d] = rivals[d]
  BY <1>0, <1>1 DEF ScanTypes
<1>7. tail \in [Pair -> Nat]
  BY <1>1 DEF ScanTypes
<1>8. ScanTypes'
  BY <1>0, <1>1, <1>2, <1>4, <1>7 DEF ScanTypes
<1>9. PartInv'
  <2>1. \A d \in Consumer, p \in Pair : seen'[d][p] <= tail[p]
    BY <1>1, <1>6, <1>7 DEF PartInv
  <2>. QED
    BY <1>0, <1>1, <2>1 DEF PartInv, InList
<1>10. KnowInv'
  <2>1. \A p \in Pair : Cleared(c, p)' \/ Occurs(list, p)
    <3>. SUFFICES ASSUME NEW p \in Pair, ~InList(p)
                  PROVE  Cleared(c, p)'
      BY DEF InList
    <3>1. tail[p] = 0
      BY <1>1 DEF PartInv
    <3>2. head'[p] \in Nat
      BY <1>8 DEF ScanTypes
    <3>. QED
      BY <1>6, <3>1, <3>2 DEF Cleared
  <2>2. Knows(c, x)'
    <3>1. x.pc = "score" /\ x.rest = list /\ x.nonEmpty = 0 /\ x.size = 0
      BY <1>3, <1>r
    <3>2. Measures(c, x)'
      BY <2>1, <3>1 DEF Measures
    <3>3. Tries(c, x)'
      BY <3>1 DEF Tries, Trying
    <3>. QED
      BY <1>0, <3>1, <3>2, <3>3 DEF Knows, InList
  <2>3. \A d \in Consumer \ {c} : \A p \in Pair : Cleared(d, p) => Cleared(d, p)'
    BY <1>0, <1>6 DEF Cleared
  <2>. QED
    BY <1>0, <1>1, <1>6, <1>r, <2>2, <2>3, OthersKnow
<1>11. RivalInv'
  <2>1. ASSUME NEW d \in Consumer, NEW e \in Consumer,
               d # e, Pc(d)' # "idle", Pc(e)' \in Trying
        PROVE  consumer'[e].part \in rivals'[d]
    <3>1. e # c /\ consumer'[e] = consumer[e] /\ Pc(e) \in Trying
      BY <1>3, <1>6, <2>1 DEF Pc, Trying
    <3>2. CASE d = c
      BY <1>5, <1>6, <3>1, <3>2
    <3>3. CASE d # c
      BY <1>1, <1>6, <2>1, <3>1, <3>3 DEF RivalInv, Pc
    <3>. QED
      BY <3>2, <3>3
  <2>2. ASSUME NEW d \in Consumer, Pc(d)' \in Trying,
               consumer'[d].part \notin rivals'[d]
        PROVE  /\ consumer'[d].over = overcommit'[consumer'[d].part]
               /\ Pc(d)' = "claim" =>
                    consumer'[d].count + 1 = optimistic'[consumer'[d].part]
    <3>1. d # c /\ consumer'[d] = consumer[d] /\ rivals'[d] = rivals[d]
      BY <1>3, <1>6, <2>2 DEF Pc, Trying
    <3>. QED
      BY <1>0, <1>1, <2>2, <3>1 DEF RivalInv, Pc
  <2>. QED
    BY <2>1, <2>2 DEF RivalInv
<1>12. TallyInv'
  <2>1. \A p \in Pair : tail[p] <= tail'[p]
    BY <1>0, <1>7
  <2>2. \A d \in Consumer :
          /\ Pc(d)' = "count" => consumer'[d].over <= overcommit[consumer'[d].part]
          /\ (Pc(d) = "claim") <=> (Pc(d)' = "claim")
          /\ Pc(d) = "claim" => consumer'[d] = consumer[d]
    BY <1>0, <1>1, <1>3, <1>6 DEF TallyInv, Pc
  <2>. QED
    BY <1>0, <1>1, <1>8, <2>1, <2>2, TallySame
<1>. QED
  BY <1>0, <1>8, <1>9, <1>10, <1>11, <1>12 DEF ScanInv, AliveInv

\* It has failed at a part: that one is cleared.
LEMMA FailedKnows ==
  ASSUME ScanTypes, PartInv, NEW c \in Consumer, Knows(c, consumer[c]),
         Pc(c) \in Trying \cup {"check"}, Cleared(c, consumer[c].part),
         Scan!Failed(c)
  PROVE  \E q \in ScanRecord : /\ consumer' = [consumer EXCEPT ![c] = q]
                               /\ q.pc = "walk" /\ Knows(c, q)
<1>. DEFINE r == consumer[c]
            q == [r EXCEPT !.pc = "walk", !.part = None, !.over = 0, !.count = 0,
                           !.rest = IF r.part = r.best THEN list ELSE @]
<1>1. consumer' = [consumer EXCEPT ![c] = q]
  BY DEF Scan!Failed, Scan!Restarted, Scan!Step
<1>2. r \in ScanRecord /\ r.pc \in Trying \cup {"check"}
  BY RecordFacts DEF Pc
<1>3. InList(r.part) /\ InList(r.best) /\ r.part \in Pair /\ r.best \in Pair
  BY <1>2, ListMembers DEF Knows, Tries
<1>4. /\ q \in ScanRecord /\ q.pc = "walk" /\ q.part = None /\ q.best = r.best
      /\ q.rest = IF r.part = r.best THEN list ELSE r.rest
  <2>1. PICK x : x = IF r.part = r.best THEN list ELSE r.rest
    OBVIOUS
  <2>2. x \in Seq(Pair)
    BY <1>2, <2>1 DEF ScanTypes, ScanRecord
  <2>3. q = [r EXCEPT !.pc = "walk", !.part = None, !.over = 0, !.count = 0,
                      !.rest = x]
    BY <1>2, <2>1 DEF ScanRecord
  <2>. HIDE DEF q
  <2>4. q \in ScanRecord
    BY <1>2, <2>2, <2>3 DEF ScanRecord
  <2>5. q.pc = "walk" /\ q.part = None /\ q.best = r.best /\ q.rest = x
    BY <1>2, <2>3 DEF ScanRecord
  <2>. QED
    BY <2>1, <2>4, <2>5
<1>. HIDE DEF q
<1>5. Cleared(c, r.best) /\ \A p \in Pair : Cleared(c, p) \/ Occurs(q.rest, p)
  <2>1. CASE r.part = r.best
    <3>1. q.rest = list
      BY <1>4, <2>1
    <3>2. ASSUME NEW p \in Pair, ~Occurs(list, p)
          PROVE  Cleared(c, p)
      <4>1. tail[p] = 0
        BY <3>2 DEF PartInv, InList
      <4>2. seen[c][p] \in Nat /\ seen[c][p] <= tail[p] /\ head[p] \in Nat
        BY DEF PartInv, ScanTypes
      <4>. QED
        BY <4>1, <4>2 DEF Cleared
    <3>. QED
      BY <2>1, <3>1, <3>2
  <2>2. CASE r.part # r.best
    BY <1>2, <1>4, <2>2 DEF Knows, Tries
  <2>. QED
    BY <2>1, <2>2
<1>6. Measures(c, q)
  BY <1>4 DEF Measures
<1>7. Tries(c, q)
  BY <1>3, <1>4, <1>5 DEF Tries, Trying
<1>8. \A p \in Pair : Occurs(q.rest, p) => InList(p)
  BY <1>4 DEF Knows, InList
<1>9. Knows(c, q)
  BY <1>6, <1>7, <1>8 DEF Knows
<1>. QED
  BY <1>1, <1>4, <1>9

\* How many dequeues have still to choose.
LEMMA Counted ==
  ASSUME ScanTypes, TallyInv, NEW p \in Pair
  PROVE  /\ IsFiniteSet(ClaimingFrom(p)) /\ head[p] <= tail[p]
         /\ Cardinality(ClaimingFrom(p)) = optimistic[p] - overcommit[p] - head[p]
<1>1. optimistic[p] \in Nat /\ tail[p] \in Nat
  BY DEF ScanTypes
<1>2. Accounted(optimistic[p], head[p], overcommit[p], tail[p],
                ClaimingFrom(p), consumer)
  BY DEF TallyInv
<1>3. PICK n, h, g, t, C : /\ n = optimistic[p] /\ h = head[p]
                           /\ g = overcommit[p] /\ t = tail[p]
                           /\ C = ClaimingFrom(p)
  OBVIOUS
<1>4. n \in Nat /\ t \in Nat /\ Accounted(n, h, g, t, C, consumer)
  BY <1>1, <1>2, <1>3
<1>5. h \in Nat /\ g \in Nat /\ h <= t /\ IsFiniteSet(C) /\ Cardinality(C) = n - g - h
  BY <1>4, AccountedSums
<1>. QED
  BY <1>3, <1>5

LEMMA ScanCheck ==
  ASSUME ScanInv, NEW c \in Consumer, Scan!Check(c)
  PROVE  ScanInv'
<1>. USE DEF Scan!At, Scan!counters, Scan!destructor
<1>. DEFINE r == consumer[c]
            p == r.part
            q == [r EXCEPT !.pc = "count", !.over = overcommit[p]]
<1>0. /\ r.pc = "check"
      /\ UNCHANGED <<list, tail, head, optimistic, overcommit, phase, room, drained, seen>>
  BY DEF Scan!Check
<1>1. phase = "alive"
  BY <1>0, ScanAlive DEF Pc
<1>2. /\ ScanTypes /\ PartInv /\ KnowInv /\ RivalInv /\ TallyInv
      /\ Knows(c, r) /\ r \in ScanRecord
  BY <1>1, RecordFacts DEF ScanInv, AliveInv, KnowInv
<1>3. InList(p) /\ p \in Pair /\ InList(r.best)
  BY <1>0, <1>2, ListMembers DEF Knows, Tries
<1>4. CASE optimistic[p] - overcommit[p] < tail[p]
  <2>1. /\ consumer' = [consumer EXCEPT ![c] = q]
        /\ rivals' = [d \in Consumer |->
                        IF d = c \/ Pc(d) = "idle" THEN rivals[d]
                        ELSE rivals[d] \cup {p}]
    BY <1>4 DEF Scan!Check, Scan!Step, Pc
  <2>2. overcommit[p] \in Nat
    BY <1>2, <1>3 DEF ScanTypes
  <2>3. /\ q \in ScanRecord /\ q.pc = "count" /\ q.part = p
        /\ q.over = overcommit[p] /\ q.best = r.best /\ q.rest = r.rest
    BY <1>2, <2>2 DEF ScanRecord, Trying
  <2>x. PICK x : x = q
    OBVIOUS
  <2>. HIDE DEF q
  <2>4. /\ consumer'[c] = q
        /\ \A d \in Consumer \ {c} : consumer'[d] = consumer[d]
        /\ \A d \in Consumer : rivals[d] \subseteq rivals'[d]
        /\ rivals'[c] = rivals[c]
        /\ \A d \in Consumer \ {c} : Pc(d) # "idle" => p \in rivals'[d]
    BY <1>2, <2>1 DEF ScanTypes
  <2>5. ScanTypes'
    <3>1. consumer' \in [Consumer -> ScanRecord]
      BY <1>2, <2>1, <2>3 DEF ScanTypes
    <3>2. rivals' \in [Consumer -> SUBSET Pair]
      BY <1>2, <1>3, <2>1 DEF ScanTypes
    <3>. QED
      BY <1>0, <1>2, <3>1, <3>2 DEF ScanTypes
  <2>6. PartInv'
    BY <1>0, <1>2 DEF PartInv, InList
  <2>7. \A d \in Consumer, y \in Pair : Cleared(d, y) => Cleared(d, y)'
    BY <1>0, <2>4 DEF Cleared
  <2>8. KnowInv'
    <3>1. Measures(c, q)
      BY <2>3 DEF Measures
    <3>2. Tries(c, q)
      BY <1>0, <1>2, <1>3, <2>3 DEF Knows, Tries, Trying
    <3>3. Knows(c, q)
      BY <1>2, <2>3, <3>1, <3>2 DEF Knows
    <3>4. Knows(c, x)'
      BY <1>0, <1>2, <2>x, <2>7, <3>3, KnowsStays DEF InList
    <3>. QED
      BY <1>0, <1>2, <2>1, <2>x, <2>7, <3>4, OthersKnow
  <2>9. RivalInv'
    <3>1. ASSUME NEW d \in Consumer, NEW e \in Consumer,
                 d # e, Pc(d)' # "idle", Pc(e)' \in Trying
          PROVE  consumer'[e].part \in rivals'[d]
      <4>1. Pc(d) # "idle"
        BY <1>0, <2>4, <3>1 DEF Pc
      <4>2. CASE e = c
        BY <2>3, <2>4, <3>1, <4>1, <4>2
      <4>3. CASE e # c
        BY <1>2, <2>4, <3>1, <4>1, <4>3 DEF RivalInv, Pc
      <4>. QED
        BY <4>2, <4>3
    <3>2. ASSUME NEW d \in Consumer, Pc(d)' \in Trying,
                 consumer'[d].part \notin rivals'[d]
          PROVE  /\ consumer'[d].over = overcommit'[consumer'[d].part]
                 /\ Pc(d)' = "claim" =>
                      consumer'[d].count + 1 = optimistic'[consumer'[d].part]
      <4>1. CASE d = c
        BY <1>0, <2>3, <2>4, <4>1 DEF Pc
      <4>2. CASE d # c
        BY <1>0, <1>2, <2>4, <3>2, <4>2 DEF RivalInv, Pc
      <4>. QED
        BY <4>1, <4>2
    <3>. QED
      BY <3>1, <3>2 DEF RivalInv
  <2>10. TallyInv'
    <3>1. \A y \in Pair : tail[y] <= tail'[y]
      BY <1>0, <1>2 DEF ScanTypes
    <3>2. \A d \in Consumer :
            /\ Pc(d)' = "count" => consumer'[d].over <= overcommit[consumer'[d].part]
            /\ (Pc(d) = "claim") <=> (Pc(d)' = "claim")
            /\ Pc(d) = "claim" => consumer'[d] = consumer[d]
      BY <1>0, <1>2, <2>2, <2>3, <2>4 DEF TallyInv, Pc
    <3>. QED
      BY <1>0, <1>2, <2>5, <3>1, <3>2, TallySame
  <2>. QED
    BY <1>0, <1>1, <2>5, <2>6, <2>8, <2>9, <2>10 DEF ScanInv, AliveInv
<1>5. CASE ~(optimistic[p] - overcommit[p] < tail[p])
  <2>1. Scan!Failed(c) /\ rivals' = rivals
    BY <1>5 DEF Scan!Check
  <2>2. Cleared(c, p)
    <3>. SUFFICES ASSUME p \notin rivals[c]
                  PROVE  seen[c][p] <= head[p]
      BY DEF Cleared
    <3>1. ClaimingFrom(p) = {}
      BY <1>0, <1>2 DEF ClaimingFrom, RivalInv, Pc, Trying
    <3>2. optimistic[p] - overcommit[p] - head[p] = 0
      BY <1>2, <1>3, <3>1, Counted, FS_EmptySet
    <3>3. /\ seen[c][p] \in Nat /\ seen[c][p] <= tail[p] /\ tail[p] \in Nat
          /\ head[p] \in Nat /\ optimistic[p] \in Nat /\ overcommit[p] \in Nat
      BY <1>2, <1>3 DEF ScanTypes, PartInv
    <3>. QED
      BY <1>5, <3>2, <3>3
  <2>3. PICK x \in ScanRecord : /\ consumer' = [consumer EXCEPT ![c] = x]
                                /\ x.pc = "walk" /\ Knows(c, x)
    BY <1>0, <1>2, <2>1, <2>2, FailedKnows DEF Pc
  <2>4. Pc(c) \notin Trying \cup {"idle"} /\ x.pc \notin Trying
    BY <1>0, <2>3 DEF Pc, Trying
  <2>. QED
    BY <1>0, <1>1, <2>1, <2>3, <2>4, OwnStep
<1>. QED
  BY <1>4, <1>5

\* What a step that counts, claims or gives up changes in the tallies.
LEMMA TallyElsewhere ==
  ASSUME ScanTypes, TallyInv, NEW c \in Consumer, NEW r, NEW p \in Pair,
         consumer' = [consumer EXCEPT ![c] = r],
         Pc(c) = "claim" => consumer[c].part # p,
         r.pc = "claim" => r.part # p,
         optimistic'[p] = optimistic[p], overcommit'[p] = overcommit[p],
         head'[p] = head[p], tail' = tail
  PROVE  Accounted(optimistic[p], head[p], overcommit[p], tail[p],
                   ClaimingFrom(p), consumer)'
<1>1. /\ consumer'[c] = r
      /\ \A d \in Consumer \ {c} : consumer'[d] = consumer[d]
  BY DEF ScanTypes
<1>2. ClaimingFrom(p)' = ClaimingFrom(p)
  BY <1>1 DEF ClaimingFrom, Pc
<1>3. \A d \in ClaimingFrom(p) : consumer'[d] = consumer[d]
  BY <1>1 DEF ClaimingFrom
<1>4. optimistic[p] \in Nat /\ tail[p] \in Nat /\ tail[p] <= tail[p]
  BY DEF ScanTypes
<1>5. PICK n, h, g, t, C, R :
        /\ n = optimistic[p] /\ h = head[p] /\ g = overcommit[p]
        /\ t = tail[p] /\ C = ClaimingFrom(p) /\ R = consumer'
  OBVIOUS
<1>6. Accounted(n, h, g, t, C, consumer)
  BY <1>5 DEF TallyInv
<1>7. Accounted(n, h, g, t, C, R)
  <2>1. n \in Nat /\ t \in Nat /\ t <= t /\ \A d \in C : R[d] = consumer[d]
    BY <1>3, <1>4, <1>5
  <2>. QED
    BY <1>6, <2>1, AccountedMore
<1>. QED
  BY <1>2, <1>5, <1>7

LEMMA ScanCount ==
  ASSUME ScanInv, NEW c \in Consumer, Scan!Count(c)
  PROVE  ScanInv'
<1>. USE DEF Scan!At, Scan!destructor, Scan!history
<1>p. PICK p : p = consumer[c].part
  OBVIOUS
<1>. DEFINE r == consumer[c]
            q == [r EXCEPT !.pc = "claim", !.count = optimistic[p]]
<1>0. /\ r.pc = "count" /\ r.part = p /\ consumer' = [consumer EXCEPT ![c] = q]
      /\ optimistic' = [optimistic EXCEPT ![p] = optimistic[p] + 1]
      /\ UNCHANGED <<list, tail, head, overcommit, phase, room, drained, seen, rivals>>
  BY <1>p DEF Scan!Count, Scan!Step
<1>1. phase = "alive"
  BY <1>0, ScanAlive DEF Pc
<1>2. /\ ScanTypes /\ PartInv /\ KnowInv /\ RivalInv /\ TallyInv
      /\ Knows(c, r) /\ r \in ScanRecord
  BY <1>1, RecordFacts DEF ScanInv, AliveInv, KnowInv
<1>3. InList(p) /\ p \in Pair /\ InList(r.best)
  BY <1>0, <1>2, ListMembers DEF Knows, Tries, Trying
<1>4. optimistic[p] \in Nat
  BY <1>2, <1>3 DEF ScanTypes
<1>5. /\ q \in ScanRecord /\ q.pc = "claim" /\ q.part = p /\ q.over = r.over
      /\ q.count = optimistic[p] /\ q.best = r.best /\ q.rest = r.rest
  BY <1>0, <1>2, <1>4 DEF ScanRecord, Trying
<1>x. PICK x : x = q
  OBVIOUS
<1>. HIDE DEF q
<1>6. /\ consumer'[c] = q
      /\ \A d \in Consumer \ {c} : consumer'[d] = consumer[d]
      /\ optimistic'[p] = optimistic[p] + 1
      /\ \A y \in Pair \ {p} : optimistic'[y] = optimistic[y]
  BY <1>0, <1>2, <1>3 DEF ScanTypes
<1>7. ScanTypes'
  <2>1. optimistic' \in [Pair -> Nat]
    <3>1. optimistic[p] + 1 \in Nat
      BY <1>4
    <3>. QED
      BY <1>0, <1>2, <3>1 DEF ScanTypes
  <2>. QED
    BY <1>0, <1>2, <1>5, <2>1 DEF ScanTypes
<1>8. PartInv'
  BY <1>0, <1>2 DEF PartInv, InList
<1>9. \A d \in Consumer, y \in Pair : Cleared(d, y) => Cleared(d, y)'
  BY <1>0 DEF Cleared
<1>10. KnowInv'
  <2>1. Measures(c, q)
    BY <1>5 DEF Measures
  <2>2. Tries(c, q)
    BY <1>0, <1>2, <1>3, <1>5 DEF Knows, Tries, Trying
  <2>3. Knows(c, q)
    BY <1>2, <1>5, <2>1, <2>2 DEF Knows
  <2>4. Knows(c, x)'
    BY <1>0, <1>2, <1>x, <1>9, <2>3, KnowsStays DEF InList
  <2>. QED
    BY <1>0, <1>2, <1>x, <1>9, <2>4, OthersKnow
<1>11. RivalInv'
  <2>1. ASSUME NEW d \in Consumer, NEW e \in Consumer,
               d # e, Pc(d)' # "idle", Pc(e)' \in Trying
        PROVE  consumer'[e].part \in rivals'[d]
    BY <1>0, <1>2, <1>5, <1>6, <2>1 DEF RivalInv, Pc, Trying
  <2>2. ASSUME NEW d \in Consumer, Pc(d)' \in Trying,
               consumer'[d].part \notin rivals'[d]
        PROVE  /\ consumer'[d].over = overcommit'[consumer'[d].part]
               /\ Pc(d)' = "claim" =>
                    consumer'[d].count + 1 = optimistic'[consumer'[d].part]
    <3>1. CASE d = c
      <4>1. r.over = overcommit[p]
        BY <1>0, <1>2, <1>5, <1>6, <2>2, <3>1 DEF RivalInv, Pc, Trying
      <4>. QED
        BY <1>0, <1>5, <1>6, <3>1, <4>1 DEF Pc
    <3>2. CASE d # c
      <4>1. /\ consumer'[d] = consumer[d] /\ Pc(d) \in Trying
            /\ consumer[d].part \notin rivals[d]
        BY <1>0, <1>6, <2>2, <3>2 DEF Pc
      <4>2. consumer[d].part # p
        BY <1>0, <1>2, <3>2, <4>1 DEF RivalInv, Pc, Trying
      <4>3. consumer[d].part \in Pair
        BY <1>2, <4>1, ListMembers DEF KnowInv, Knows, Tries, Pc
      <4>. QED
        BY <1>0, <1>2, <1>6, <4>1, <4>2, <4>3 DEF RivalInv, Pc
    <3>. QED
      BY <3>1, <3>2
  <2>. QED
    BY <2>1, <2>2 DEF RivalInv
<1>12. TallyInv'
  <2>1. ASSUME NEW d \in Consumer, Pc(d)' = "count"
        PROVE  consumer'[d].over <= overcommit'[consumer'[d].part]
    BY <1>0, <1>2, <1>5, <1>6, <2>1 DEF TallyInv, Pc
  <2>2. ASSUME NEW y \in Pair \ {p}
        PROVE  Accounted(optimistic[y], head[y], overcommit[y], tail[y],
                         ClaimingFrom(y), consumer)'
    <3>1. x.part = p
      BY <1>5, <1>x
    <3>. QED
      BY <1>0, <1>2, <1>6, <1>x, <2>2, <3>1, TallyElsewhere
  <2>3. Accounted(optimistic[p], head[p], overcommit[p], tail[p],
                  ClaimingFrom(p), consumer)'
    <3>1. /\ ClaimingFrom(p)' = ClaimingFrom(p) \cup {c}
          /\ c \notin ClaimingFrom(p)
          /\ \A d \in ClaimingFrom(p) : consumer'[d] = consumer[d]
      BY <1>0, <1>5, <1>6 DEF ClaimingFrom, Pc
    <3>2. PICK n, h, g, t, C, R :
            /\ n = optimistic[p] /\ h = head[p] /\ g = overcommit[p]
            /\ t = tail[p] /\ C = ClaimingFrom(p) /\ R = consumer'
      OBVIOUS
    <3>3. Accounted(n, h, g, t, C, consumer)
      BY <1>2, <1>3, <3>2 DEF TallyInv
    <3>4. R[c].count = n /\ R[c].over <= g
      BY <1>0, <1>2, <1>5, <1>6, <3>2 DEF TallyInv, Pc
    <3>5. Accounted(n + 1, h, g, t, C \cup {c}, R)
      BY <1>4, <3>1, <3>2, <3>3, <3>4, AccountedCount
    <3>. QED
      BY <1>0, <1>6, <3>1, <3>2, <3>5
  <2>. QED
    BY <2>1, <2>2, <2>3 DEF TallyInv
<1>. QED
  BY <1>0, <1>1, <1>7, <1>8, <1>10, <1>11, <1>12 DEF ScanInv, AliveInv

\* The end of a try: the dequeue counts no longer, and nothing else changes for
\* the others than that the heads or the overcommits grow.
LEMMA TryEnds ==
  ASSUME ScanInv, phase = "alive", NEW c \in Consumer, NEW q \in ScanRecord,
         Pc(c) = "claim", q.pc \notin Trying, ScanTypes',
         consumer' = [consumer EXCEPT ![c] = q],
         UNCHANGED <<list, tail, optimistic, phase, seen, rivals>>,
         NEW p \in Pair, p = consumer[c].part,
         \A y \in Pair \ {p} : head'[y] = head[y] /\ overcommit'[y] = overcommit[y],
         head[p] <= head'[p], overcommit[p] <= overcommit'[p],
         Knows(c, q),
         Accounted(optimistic[p], head[p], overcommit[p], tail[p],
                   ClaimingFrom(p), consumer)'
  PROVE  ScanInv'
<1>1. ScanTypes /\ PartInv /\ KnowInv /\ RivalInv /\ TallyInv
  BY DEF ScanInv, AliveInv
<1>2. /\ consumer'[c] = q
      /\ \A d \in Consumer \ {c} : consumer'[d] = consumer[d]
  BY <1>1 DEF ScanTypes
<1>3. PartInv'
  BY <1>1 DEF PartInv, InList
<1>4. \A d \in Consumer, y \in Pair : Cleared(d, y) => Cleared(d, y)'
  <2>. SUFFICES ASSUME NEW d \in Consumer, NEW y \in Pair, Cleared(d, y)
                PROVE  Cleared(d, y)'
    OBVIOUS
  <2>1. head[y] \in Nat /\ head'[y] \in Nat /\ seen[d][y] \in Nat
    BY <1>1 DEF ScanTypes
  <2>2. head[y] <= head'[y]
    BY <2>1
  <2>. QED
    BY <2>1, <2>2 DEF Cleared
<1>5. KnowInv'
  <2>1. Knows(c, q)'
    BY <1>1, <1>4, KnowsStays DEF InList
  <2>. QED
    BY <1>1, <1>4, <2>1, OthersKnow
<1>6. RivalInv'
  <2>1. ASSUME NEW d \in Consumer, NEW e \in Consumer,
               d # e, Pc(d)' # "idle", Pc(e)' \in Trying
        PROVE  consumer'[e].part \in rivals'[d]
    <3>1. e # c /\ consumer'[e] = consumer[e]
      BY <1>2, <2>1 DEF Pc
    <3>2. Pc(d) # "idle"
      BY <1>2, <2>1 DEF Pc
    <3>. QED
      BY <1>1, <2>1, <3>1, <3>2 DEF RivalInv, Pc
  <2>2. ASSUME NEW d \in Consumer, Pc(d)' \in Trying,
               consumer'[d].part \notin rivals'[d]
        PROVE  /\ consumer'[d].over = overcommit'[consumer'[d].part]
               /\ Pc(d)' = "claim" =>
                    consumer'[d].count + 1 = optimistic'[consumer'[d].part]
    <3>1. d # c /\ consumer'[d] = consumer[d]
      BY <1>2, <2>2 DEF Pc
    <3>2. consumer[d].part \in Pair \ {p}
      <4>1. consumer[d].part \in Pair
        BY <1>1, <2>2, <3>1, ListMembers DEF KnowInv, Knows, Tries, Pc
      <4>2. consumer[d].part # p
        BY <1>1, <2>2, <3>1 DEF RivalInv, Pc, Trying
      <4>. QED
        BY <4>1, <4>2
    <3>. QED
      BY <1>1, <2>2, <3>1, <3>2 DEF RivalInv, Pc
  <2>. QED
    BY <2>1, <2>2 DEF RivalInv
<1>7. TallyInv'
  <2>1. ASSUME NEW d \in Consumer, Pc(d)' = "count"
        PROVE  consumer'[d].over <= overcommit'[consumer'[d].part]
    <3>1. d # c /\ consumer'[d] = consumer[d] /\ Pc(d) = "count"
      BY <1>2, <2>1 DEF Pc, Trying
    <3>2. consumer[d].part \in Pair /\ consumer[d].over \in Nat
      BY <1>1, <3>1, ListMembers, RecordFacts
         DEF KnowInv, Knows, Tries, Pc, Trying, ScanRecord
    <3>3. PICK y \in Pair : y = consumer[d].part
      BY <3>2
    <3>4. overcommit[y] \in Nat /\ overcommit'[y] \in Nat
      BY <1>1 DEF ScanTypes
    <3>5. overcommit[y] <= overcommit'[y]
      BY <3>4
    <3>6. consumer[d].over <= overcommit[y]
      BY <1>1, <3>1, <3>3 DEF TallyInv
    <3>. QED
      BY <3>1, <3>2, <3>3, <3>4, <3>5, <3>6
  <2>2. ASSUME NEW y \in Pair \ {p}
        PROVE  Accounted(optimistic[y], head[y], overcommit[y], tail[y],
                         ClaimingFrom(y), consumer)'
    BY <1>1, <2>2, TallyElsewhere DEF Trying
  <2>. QED
    BY <2>1, <2>2 DEF TallyInv
<1>. QED
  BY <1>3, <1>5, <1>6, <1>7 DEF ScanInv, AliveInv

LEMMA ScanClaim ==
  ASSUME ScanInv, NEW c \in Consumer, Scan!Claim(c)
  PROVE  ScanInv'
<1>. USE DEF Scan!At, Scan!destructor, Scan!history
<1>i. PICK i : i = Scan!Idle
  OBVIOUS
<1>p. PICK p : p = consumer[c].part
  OBVIOUS
<1>. DEFINE r == consumer[c]
<1>q. PICK q : q = [i EXCEPT !.pc = "some"]
  OBVIOUS
<1>0. /\ r.pc = "claim" /\ r.part = p /\ consumer' = [consumer EXCEPT ![c] = q]
      /\ r.count - r.over < tail[p]
      /\ head' = [head EXCEPT ![p] = head[p] + 1]
      /\ UNCHANGED <<list, tail, optimistic, overcommit, phase, room, drained, seen, rivals>>
  BY <1>i, <1>p, <1>q DEF Scan!Claim, Scan!Step, Scan!CanClaim
<1>1. phase = "alive"
  BY <1>0, ScanAlive DEF Pc
<1>2. /\ ScanTypes /\ TallyInv /\ Knows(c, r) /\ r \in ScanRecord
  BY <1>1, RecordFacts DEF ScanInv, AliveInv, KnowInv
<1>3. p \in Pair
  BY <1>0, <1>2, ListMembers DEF Knows, Tries, Trying
<1>4. i \in ScanRecord /\ i.rest = <<>>
  BY <1>i, <1>2, RecordFacts
<1>5. q \in ScanRecord
  BY <1>q, <1>4 DEF ScanRecord
<1>6. q.pc = "some" /\ q.rest = <<>>
  BY <1>q, <1>4 DEF ScanRecord
<1>7. /\ head[p] \in Nat /\ head'[p] = head[p] + 1
      /\ \A y \in Pair \ {p} : head'[y] = head[y]
      /\ optimistic[p] \in Nat /\ tail[p] \in Nat /\ overcommit[p] \in Nat
  BY <1>0, <1>2, <1>3 DEF ScanTypes
<1>8. ScanTypes'
  <2>1. head' \in [Pair -> Nat]
    BY <1>0, <1>2, <1>7 DEF ScanTypes
  <2>. QED
    BY <1>0, <1>2, <1>5, <2>1 DEF ScanTypes
<1>9. Knows(c, q)
  BY <1>2, <1>6, RecordFacts DEF Knows, Measures, Tries, Trying
<1>10. Accounted(optimistic[p], head[p], overcommit[p], tail[p],
                 ClaimingFrom(p), consumer)'
  <2>0. /\ consumer'[c] = q
        /\ \A d \in Consumer \ {c} : consumer'[d] = consumer[d]
    BY <1>0, <1>2 DEF ScanTypes
  <2>1. /\ ClaimingFrom(p)' = ClaimingFrom(p) \ {c}
        /\ c \in ClaimingFrom(p)
        /\ \A d \in ClaimingFrom(p) \ {c} : consumer'[d] = consumer[d]
    BY <1>0, <1>6, <2>0 DEF ClaimingFrom, Pc
  <2>2. PICK n, h, g, t, C, R :
          /\ n = optimistic[p] /\ h = head[p] /\ g = overcommit[p]
          /\ t = tail[p] /\ C = ClaimingFrom(p) /\ R = consumer'
    OBVIOUS
  <2>3. Accounted(n, h, g, t, C, consumer)
    BY <1>2, <1>3, <2>2 DEF TallyInv
  <2>4. consumer[c].over \in Nat /\ consumer[c].count - consumer[c].over < t
    BY <1>0, <1>2, <2>2 DEF ScanRecord
  <2>5. Accounted(n, h + 1, g, t, C \ {c}, R)
    BY <1>7, <2>1, <2>2, <2>3, <2>4, AccountedClaim
  <2>. QED
    BY <1>0, <1>7, <2>1, <2>2, <2>5
<1>11. Pc(c) = "claim" /\ q.pc \notin Trying
  BY <1>0, <1>6 DEF Pc, Trying
<1>12. head[p] <= head'[p] /\ overcommit[p] <= overcommit'[p]
  BY <1>0, <1>7
<1>13. UNCHANGED <<list, tail, optimistic, phase, seen, rivals>>
  BY <1>0
<1>14. \A y \in Pair \ {p} : head'[y] = head[y] /\ overcommit'[y] = overcommit[y]
  BY <1>0, <1>7
<1>16. consumer' = [consumer EXCEPT ![c] = q]
  BY <1>0
<1>. QED
  BY <1>1, <1>5, <1>8, <1>9, <1>10, <1>11, <1>12, <1>13, <1>14, <1>0, <1>3, <1>16, TryEnds

LEMMA ScanGiveUp ==
  ASSUME ScanInv, NEW c \in Consumer, Scan!GiveUp(c)
  PROVE  ScanInv'
<1>. USE DEF Scan!At, Scan!destructor, Scan!history
<1>p. PICK p : p = consumer[c].part
  OBVIOUS
<1>. DEFINE r == consumer[c]
<1>0. /\ r.pc = "claim" /\ r.part = p /\ Scan!Failed(c)
      /\ ~(r.count - r.over < tail[p])
      /\ overcommit' = [overcommit EXCEPT ![p] = overcommit[p] + 1]
      /\ UNCHANGED <<list, tail, head, optimistic, phase, room, drained, seen, rivals>>
  BY <1>p DEF Scan!GiveUp, Scan!CanClaim, Scan!GiveBack
<1>1. phase = "alive"
  BY <1>0, ScanAlive DEF Pc
<1>2. /\ ScanTypes /\ PartInv /\ TallyInv /\ RivalInv /\ Knows(c, r)
      /\ r \in ScanRecord
  BY <1>1, RecordFacts DEF ScanInv, AliveInv, KnowInv
<1>3. p \in Pair
  BY <1>0, <1>2, ListMembers DEF Knows, Tries, Trying
<1>4. /\ overcommit[p] \in Nat /\ overcommit'[p] = overcommit[p] + 1
      /\ \A y \in Pair \ {p} : overcommit'[y] = overcommit[y]
      /\ optimistic[p] \in Nat /\ tail[p] \in Nat /\ head[p] \in Nat
      /\ seen[c][p] \in Nat /\ seen[c][p] <= tail[p]
      /\ r.count \in Nat /\ r.over \in Nat
  BY <1>0, <1>2, <1>3 DEF ScanTypes, ScanRecord, PartInv
<1>5. Cleared(c, p)
  <2>. SUFFICES ASSUME p \notin rivals[c]
                PROVE  seen[c][p] <= head[p]
    BY DEF Cleared
  <2>1. r.over = overcommit[p] /\ r.count + 1 = optimistic[p]
    BY <1>0, <1>2 DEF RivalInv, Pc, Trying
  <2>2. ClaimingFrom(p) = {c}
    BY <1>0, <1>2 DEF ClaimingFrom, RivalInv, Pc, Trying
  <2>3. optimistic[p] - overcommit[p] - head[p] = 1
    BY <1>2, <1>3, <2>2, Counted, FS_Singleton
  <2>. QED
    BY <1>0, <1>4, <2>1, <2>3
<1>6. PICK q \in ScanRecord : /\ consumer' = [consumer EXCEPT ![c] = q]
                              /\ q.pc = "walk" /\ Knows(c, q)
  BY <1>0, <1>2, <1>5, FailedKnows DEF Pc, Trying
<1>8. ScanTypes'
  <2>1. overcommit' \in [Pair -> Nat]
    <3>1. overcommit[p] + 1 \in Nat
      BY <1>4
    <3>. QED
      BY <1>0, <1>2, <3>1 DEF ScanTypes
  <2>. QED
    BY <1>0, <1>2, <1>6, <2>1 DEF ScanTypes
<1>10. Accounted(optimistic[p], head[p], overcommit[p], tail[p],
                 ClaimingFrom(p), consumer)'
  <2>0. /\ consumer'[c] = q
        /\ \A d \in Consumer \ {c} : consumer'[d] = consumer[d]
    BY <1>2, <1>6 DEF ScanTypes
  <2>1. /\ ClaimingFrom(p)' = ClaimingFrom(p) \ {c}
        /\ c \in ClaimingFrom(p)
        /\ \A d \in ClaimingFrom(p) \ {c} : consumer'[d] = consumer[d]
    BY <1>0, <1>6, <2>0 DEF ClaimingFrom, Pc
  <2>2. PICK n, h, g, t, C, R :
          /\ n = optimistic[p] /\ h = head[p] /\ g = overcommit[p]
          /\ t = tail[p] /\ C = ClaimingFrom(p) /\ R = consumer'
    OBVIOUS
  <2>3. Accounted(n, h, g, t, C, consumer)
    BY <1>2, <1>3, <2>2 DEF TallyInv
  <2>4. \A d \in C : consumer[d].over \in Nat
    BY <1>2, <2>2 DEF ScanTypes, ScanRecord, ClaimingFrom
  <2>5. Accounted(n, h, g + 1, t, C \ {c}, R)
    BY <1>4, <2>1, <2>2, <2>3, <2>4, AccountedGiveUp
  <2>. QED
    BY <1>0, <1>4, <2>1, <2>2, <2>5
<1>11. Pc(c) = "claim" /\ q.pc \notin Trying
  BY <1>0, <1>6 DEF Pc, Trying
<1>12. head[p] <= head'[p] /\ overcommit[p] <= overcommit'[p]
  BY <1>0, <1>4
<1>13. UNCHANGED <<list, tail, optimistic, phase, seen, rivals>>
  BY <1>0
<1>14. \A y \in Pair \ {p} : head'[y] = head[y] /\ overcommit'[y] = overcommit[y]
  BY <1>0, <1>4
<1>. QED
  BY <1>1, <1>6, <1>8, <1>10, <1>11, <1>12, <1>13, <1>14, <1>0, <1>3, TryEnds

LEMMA ScanReturn ==
  ASSUME ScanInv, NEW c \in Consumer, Scan!Return(c)
  PROVE  ScanInv'
<1>. USE DEF Scan!At, Scan!counters, Scan!destructor
<1>i. PICK i, z : i = Scan!Idle /\ z = [p \in Pair |-> 0]
  OBVIOUS
<1>0. /\ Pc(c) \in {"some", "none"}
      /\ consumer' = [consumer EXCEPT ![c] = i]
      /\ seen' = [seen EXCEPT ![c] = z] /\ rivals' = [rivals EXCEPT ![c] = {}]
      /\ UNCHANGED <<list, tail, head, optimistic, overcommit, phase, room, drained>>
  BY <1>i DEF Scan!Return, Scan!Step, Scan!Zero, Pc
<1>1. phase = "alive"
  BY <1>0, ScanAlive
<1>2. ScanTypes /\ PartInv /\ KnowInv /\ RivalInv /\ TallyInv
  BY <1>1 DEF ScanInv, AliveInv
<1>3. i \in ScanRecord /\ i.rest = <<>>
  BY <1>i, <1>2, RecordFacts
<1>4. i.pc = "idle"
  BY <1>i DEF Scan!Idle
<1>5. z \in [Pair -> Nat] /\ \A p \in Pair : z[p] = 0
  BY <1>i
<1>6. /\ consumer'[c] = i /\ seen'[c] = z
      /\ \A d \in Consumer \ {c} :
           consumer'[d] = consumer[d] /\ seen'[d] = seen[d] /\ rivals'[d] = rivals[d]
  BY <1>0, <1>2 DEF ScanTypes
<1>7. ScanTypes'
  BY <1>0, <1>2, <1>3, <1>5 DEF ScanTypes
<1>8. PartInv'
  <2>1. \A d \in Consumer, p \in Pair : seen'[d][p] <= tail[p]
    <3>. SUFFICES ASSUME NEW d \in Consumer, NEW p \in Pair
                  PROVE  seen'[d][p] <= tail[p]
      OBVIOUS
    <3>1. tail[p] \in Nat
      BY <1>2 DEF ScanTypes
    <3>. QED
      BY <1>2, <1>5, <1>6, <3>1 DEF PartInv
  <2>. QED
    BY <1>0, <1>2, <2>1 DEF PartInv, InList
<1>9. KnowInv'
  <2>1. Knows(c, i)'
    BY <1>2, <1>3, <1>4, RecordFacts DEF Knows, Measures, Tries, Trying
  <2>2. \A d \in Consumer \ {c} : \A p \in Pair : Cleared(d, p) => Cleared(d, p)'
    BY <1>0, <1>6 DEF Cleared
  <2>. QED
    BY <1>0, <1>2, <1>6, <2>1, <2>2, OthersKnow
<1>10. RivalInv'
  <2>1. ASSUME NEW d \in Consumer, NEW e \in Consumer,
               d # e, Pc(d)' # "idle", Pc(e)' \in Trying
        PROVE  consumer'[e].part \in rivals'[d]
    <3>1. d # c /\ e # c
      BY <1>4, <1>6, <2>1 DEF Pc, Trying
    <3>. QED
      BY <1>2, <1>6, <2>1, <3>1 DEF RivalInv, Pc
  <2>2. ASSUME NEW d \in Consumer, Pc(d)' \in Trying,
               consumer'[d].part \notin rivals'[d]
        PROVE  /\ consumer'[d].over = overcommit'[consumer'[d].part]
               /\ Pc(d)' = "claim" =>
                    consumer'[d].count + 1 = optimistic'[consumer'[d].part]
    <3>1. d # c
      BY <1>4, <1>6, <2>2 DEF Pc, Trying
    <3>. QED
      BY <1>0, <1>2, <1>6, <2>2, <3>1 DEF RivalInv, Pc
  <2>. QED
    BY <2>1, <2>2 DEF RivalInv
<1>11. TallyInv'
  <2>1. \A p \in Pair : tail[p] <= tail'[p]
    BY <1>0, <1>2 DEF ScanTypes
  <2>2. \A d \in Consumer :
          /\ Pc(d)' = "count" => consumer'[d].over <= overcommit[consumer'[d].part]
          /\ (Pc(d) = "claim") <=> (Pc(d)' = "claim")
          /\ Pc(d) = "claim" => consumer'[d] = consumer[d]
    BY <1>0, <1>2, <1>4, <1>6 DEF TallyInv, Pc
  <2>. QED
    BY <1>0, <1>2, <1>7, <2>1, <2>2, TallySame
<1>. QED
  BY <1>0, <1>1, <1>7, <1>8, <1>9, <1>10, <1>11 DEF ScanInv, AliveInv

\* An enqueue: the list or a tail grows.
LEMMA Grows ==
  ASSUME ScanInv, phase = "alive", ScanTypes',
         UNCHANGED <<head, optimistic, overcommit, consumer, phase, seen, rivals>>,
         \A p : InList(p) => InList(p)',
         \A p \in Pair : tail[p] <= tail'[p],
         \A p \in Pair : InList(p)' \/ tail'[p] = 0
  PROVE  ScanInv'
<1>1. ScanTypes /\ PartInv /\ KnowInv /\ RivalInv /\ TallyInv
  BY DEF ScanInv, AliveInv
<1>2. PartInv'
  <2>1. ASSUME NEW d \in Consumer, NEW p \in Pair
        PROVE  seen[d][p] <= tail'[p]
    <3>1. /\ seen[d][p] \in Nat /\ tail[p] \in Nat /\ tail'[p] \in Nat
          /\ seen[d][p] <= tail[p]
      BY <1>1 DEF ScanTypes, PartInv
    <3>. QED
      BY <3>1
  <2>. QED
    BY <2>1 DEF PartInv
<1>3. KnowInv'
  <2>. SUFFICES ASSUME NEW d \in Consumer
                PROVE  Knows(d, consumer[d])'
    BY DEF KnowInv
  <2>1. PICK s : s = consumer[d]
    OBVIOUS
  <2>2. Knows(d, s)
    BY <1>1, <2>1 DEF KnowInv
  <2>3. Knows(d, s)'
    BY <1>1, <2>2, KnowsStays DEF Cleared
  <2>. QED
    BY <2>1, <2>3
<1>4. RivalInv'
  BY <1>1 DEF RivalInv, Pc
<1>5. TallyInv'
  <2>1. \A d \in Consumer :
          /\ Pc(d)' = "count" => consumer'[d].over <= overcommit[consumer'[d].part]
          /\ (Pc(d) = "claim") <=> (Pc(d)' = "claim")
          /\ Pc(d) = "claim" => consumer'[d] = consumer[d]
    BY <1>1 DEF TallyInv, Pc
  <2>. QED
    BY <1>1, <2>1, TallySame
<1>. QED
  BY <1>2, <1>3, <1>4, <1>5 DEF ScanInv, AliveInv

LEMMA ScanJoin ==
  ASSUME ScanInv, NEW p \in Pair, Scan!Join(p)
  PROVE  ScanInv'
<1>1. /\ phase = "alive" /\ p \notin Scan!ToSet(list) /\ list' = <<p>> \o list
      /\ UNCHANGED <<tail, head, optimistic, overcommit, consumer, phase, seen, rivals>>
  BY DEF Scan!Join, Scan!counters, Scan!destructor, Scan!history
<1>2. ScanTypes /\ PartInv
  BY <1>1 DEF ScanInv, AliveInv
<1>3. /\ list \in Seq(Pair) /\ ~Occurs(list, p)
      /\ \A i, j \in 1..Len(list) : list[i] = list[j] => i = j
  BY <1>1, <1>2, SetOccurs DEF ScanTypes
<1>4. /\ list' \in Seq(Pair)
      /\ \A y : Occurs(list, y) => Occurs(list', y)
      /\ \A i, j \in 1..Len(list') : list'[i] = list'[j] => i = j
  <2>1. PICK t : t = <<p>> \o list
    OBVIOUS
  <2>2. /\ t \in Seq(Pair)
        /\ \A y : Occurs(list, y) => Occurs(t, y)
        /\ \A i, j \in 1..Len(t) : t[i] = t[j] => i = j
    BY <1>3, <2>1, OccursFirst
  <2>3. list' = t
    BY <1>1, <2>1
  <2>. QED
    BY <2>2, <2>3
<1>5. ScanTypes'
  BY <1>1, <1>2, <1>4 DEF ScanTypes
<1>6. \A y : InList(y) => InList(y)'
  BY <1>4 DEF InList
<1>7. \A y \in Pair : tail[y] <= tail'[y]
  BY <1>1, <1>2 DEF ScanTypes
<1>8. \A y \in Pair : InList(y)' \/ tail'[y] = 0
  BY <1>1, <1>2, <1>6 DEF PartInv
<1>. QED
  BY <1>1, <1>5, <1>6, <1>7, <1>8, Grows

LEMMA ScanPut ==
  ASSUME ScanInv, NEW p \in Pair, Scan!Put(p)
  PROVE  ScanInv'
<1>1. /\ phase = "alive" /\ p \in Scan!ToSet(list) /\ tail[p] < MaxPut
      /\ tail' = [tail EXCEPT ![p] = tail[p] + 1]
      /\ UNCHANGED <<list, head, optimistic, overcommit, consumer, phase, seen, rivals>>
  BY DEF Scan!Put, Scan!destructor, Scan!history
<1>2. ScanTypes /\ PartInv /\ MaxPut \in Nat
  BY <1>1, PartsAssumption DEF ScanInv, AliveInv, Scan!BoundsAssumption
<1>3. InList(p)
  BY <1>1, <1>2, SetOccurs DEF ScanTypes, InList
<1>4. tail[p] + 1 \in 0..MaxPut /\ tail[p] <= tail[p] + 1
  BY <1>1, <1>2 DEF ScanTypes
<1>5. /\ tail' \in [Pair -> 0..MaxPut]
      /\ \A y \in Pair : y = p \/ tail'[y] = tail[y]
      /\ tail'[p] = tail[p] + 1
  BY <1>1, <1>2, <1>4 DEF ScanTypes
<1>6. ScanTypes'
  BY <1>1, <1>2, <1>5 DEF ScanTypes
<1>7. \A y \in Pair : tail[y] <= tail'[y]
  <2>. SUFFICES ASSUME NEW y \in Pair
                PROVE  tail[y] <= tail'[y]
    OBVIOUS
  <2>1. tail[y] \in Nat
    BY <1>2 DEF ScanTypes
  <2>. QED
    BY <1>5, <2>1
<1>8. \A y : InList(y)' <=> InList(y)
  BY <1>1 DEF InList
<1>9. \A y \in Pair : InList(y)' \/ tail'[y] = 0
  BY <1>2, <1>3, <1>5, <1>8 DEF PartInv
<1>. QED
  BY <1>1, <1>6, <1>7, <1>8, <1>9, Grows

-----------------------------------------------------------------------------
\* Sums over a sequence of numbers exist: the definition of Sizes has a meaning.
LEMMA SumExists ==
  ASSUME NEW n \in Nat, NEW m \in [1..n -> Nat]
  PROVE  \E f \in [0..n -> Nat] :
           f = [k \in 0..n |-> IF k = 0 THEN 0 ELSE f[k-1] + m[k]]
<1>. DEFINE Sums(j, f) == f = [k \in 0..j |-> IF k = 0 THEN 0 ELSE f[k-1] + m[k]]
            Bad == {j \in 0..n : ~ \E f \in [0..j -> Nat] : Sums(j, f)}
<1>1. CASE Bad = {}
  <2>1. n \in 0..n /\ n \notin Bad
    <3>1. n \in 0..n
      OBVIOUS
    <3>. HIDE DEF Bad
    <3>2. n \notin Bad
      BY <1>1
    <3>. QED
      BY <3>1, <3>2
  <2>2. \E f \in [0..n -> Nat] : Sums(n, f)
    <3>. HIDE DEF Sums
    <3>. QED
      BY <2>1
  <2>. QED
    BY <2>2
<1>2. CASE Bad # {}
  <2>1. Bad \subseteq Nat
    OBVIOUS
  <2>2. PICK j \in Bad : \A i \in Bad : ~(<<i, j>> \in OpToRel(<, Nat))
    BY <1>2, <2>1, NatLessThanWellFounded, WFMin
  <2>3. j \in 0..n /\ ~ \E f \in [0..j -> Nat] : Sums(j, f)
    BY <2>2
  <2>4. \A i \in Bad : ~(i < j)
    BY <2>1, <2>2 DEF OpToRel
  <2>5. CASE j = 0
    <3>. DEFINE f == [k \in 0..0 |-> 0]
    <3>1. f \in [0..j -> Nat]
      BY <2>5
    <3>2. Sums(j, f)
      BY <2>5
    <3>. QED
      BY <2>3, <3>1, <3>2
  <2>6. CASE j # 0
    <3>1. j - 1 \in 0..n /\ j - 1 < j /\ j \in 1..n /\ j \in Nat
      BY <2>3, <2>6
    <3>2. PICK f \in [0..j-1 -> Nat] : Sums(j - 1, f)
      BY <2>4, <3>1
    <3>. DEFINE g == [k \in 0..j |-> IF k = j THEN f[j-1] + m[j] ELSE f[k]]
    <3>3. f[j-1] \in Nat /\ m[j] \in Nat
      BY <3>1
    <3>4. g \in [0..j -> Nat]
      BY <3>1, <3>3
    <3>5. ASSUME NEW k \in 0..j
          PROVE  g[k] = IF k = 0 THEN 0 ELSE g[k-1] + m[k]
      <4>1. CASE k = j
        BY <2>6, <3>1, <4>1
      <4>2. CASE k # j
        <5>1. k \in 0..j-1 /\ g[k] = f[k] /\ (k # 0 => k - 1 \in 0..j /\ k - 1 # j)
          BY <3>1, <4>2
        <5>2. f[k] = IF k = 0 THEN 0 ELSE f[k-1] + m[k]
          BY <3>2, <5>1
        <5>3. k # 0 => g[k-1] = f[k-1]
          BY <5>1
        <5>. QED
          BY <5>1, <5>2, <5>3
      <4>. QED
        BY <4>1, <4>2
    <3>6. Sums(j, g)
      <4>. HIDE DEF g
      <4>1. g = [k \in 0..j |-> g[k]]
        BY <3>4
      <4>. QED
        BY <3>5, <4>1
    <3>. QED
      BY <2>3, <3>4, <3>6
  <2>. QED
    BY <2>5, <2>6
<1>. QED
  BY <1>1, <1>2

LEMMA SizesFacts ==
  ASSUME ScanTypes
  PROVE  /\ Scan!Sizes \in [0..Len(list) -> Nat]
         /\ Scan!Sizes[0] = 0
         /\ \A k \in 1..Len(list) :
              Scan!Sizes[k] = Scan!Sizes[k-1]
                              + Scan!Measured(tail[list[k]], head[list[k]])
<1>. DEFINE n == Len(list)
            M(k) == Scan!Measured(tail[list[k]], head[list[k]])
            m == [k \in 1..n |-> M(k)]
            Sums(f) == f = [k \in 0..n |-> IF k = 0 THEN 0 ELSE f[k-1] + M(k)]
<1>1. n \in Nat /\ \A k \in 1..n : list[k] \in Pair
  BY DEF ScanTypes
<1>2. \A k \in 1..n : M(k) \in Nat
  <2>. SUFFICES ASSUME NEW k \in 1..n
                PROVE  M(k) \in Nat
    OBVIOUS
  <2>1. tail[list[k]] \in Nat /\ head[list[k]] \in Nat
    BY <1>1 DEF ScanTypes
  <2>. QED
    BY <2>1 DEF Scan!Measured
<1>3. m \in [1..n -> Nat] /\ \A k \in 1..n : m[k] = M(k)
  BY <1>2
<1>4. PICK f \in [0..n -> Nat] :
        f = [k \in 0..n |-> IF k = 0 THEN 0 ELSE f[k-1] + m[k]]
  <2>. HIDE DEF m, n
  <2>. QED
    BY <1>1, <1>3, SumExists
<1>5. Sums(f)
  <2>1. \A k \in 0..n : f[k] = IF k = 0 THEN 0 ELSE f[k-1] + m[k]
    BY <1>4
  <2>2. \A k \in 0..n : k # 0 => k \in 1..n
    BY <1>1
  <2>. HIDE DEF m, M, n
  <2>3. \A k \in 0..n : f[k] = IF k = 0 THEN 0 ELSE f[k-1] + M(k)
    BY <1>3, <2>1, <2>2
  <2>. QED
    BY <2>3
<1>6. Sums(Scan!Sizes)
  <2>1. Scan!Sizes = CHOOSE g : Sums(g)
    BY DEF Scan!Sizes
  <2>. HIDE DEF Sums
  <2>. QED
    BY <1>5, <2>1
<1>7. PICK g : g = Scan!Sizes
  OBVIOUS
<1>8. g = [k \in 0..n |-> IF k = 0 THEN 0 ELSE g[k-1] + M(k)]
  BY <1>6, <1>7
<1>. HIDE DEF M, n
<1>9. g[0] = 0 /\ \A k \in 1..n : g[k] = g[k-1] + M(k)
  BY <1>1, <1>8
<1>10. \A k \in 0..n : g[k] \in Nat
  <2>. DEFINE Bad == {j \in 0..n : g[j] \notin Nat}
  <2>1. CASE Bad = {}
    BY <2>1
  <2>2. CASE Bad # {}
    <3>1. Bad \subseteq Nat
      OBVIOUS
    <3>2. PICK j \in Bad : \A i \in Bad : ~(<<i, j>> \in OpToRel(<, Nat))
      BY <2>2, <3>1, NatLessThanWellFounded, WFMin
    <3>0. j \in 0..n /\ g[j] \notin Nat
      BY <3>2
    <3>m. \A i \in 0..n : i < j => g[i] \in Nat
      <4>. SUFFICES ASSUME NEW i \in 0..n, i < j, g[i] \notin Nat
                    PROVE  FALSE
        OBVIOUS
      <4>1. i \in Bad /\ i \in Nat /\ j \in Nat
        BY <1>1, <3>0
      <4>. HIDE DEF Bad
      <4>. QED
        BY <3>2, <4>1 DEF OpToRel
    <3>. HIDE DEF Bad
    <3>3. j # 0
      BY <1>9, <3>0
    <3>4. j \in 1..n /\ j - 1 \in 0..n /\ j - 1 < j
      BY <1>1, <3>0, <3>3
    <3>5. g[j-1] \in Nat
      BY <3>m, <3>4
    <3>. QED
      BY <1>2, <1>9, <3>0, <3>4, <3>5
  <2>. QED
    BY <2>1, <2>2
<1>11. g \in [0..n -> Nat]
  BY <1>8, <1>10
<1>. QED
  BY <1>7, <1>9, <1>11 DEF M, n

\* No sum is larger than the last.
LEMMA SizesGrow ==
  ASSUME ScanTypes
  PROVE  \A k \in 0..Len(list) : Scan!Sizes[k] <= Scan!SizeApprox
<1>1. PICK n, g : n = Len(list) /\ g = Scan!Sizes
  OBVIOUS
<1>2. n \in Nat /\ \A k \in 1..n : list[k] \in Pair
  BY <1>1 DEF ScanTypes
<1>3. \A k \in 0..n : g[k] \in Nat
  BY <1>1, SizesFacts
<1>4. \A k \in 1..n : g[k-1] <= g[k]
  <2>. SUFFICES ASSUME NEW k \in 1..n
                PROVE  g[k-1] <= g[k]
    OBVIOUS
  <2>1. tail[list[k]] \in Nat /\ head[list[k]] \in Nat
    BY <1>2 DEF ScanTypes
  <2>2. Scan!Measured(tail[list[k]], head[list[k]]) \in Nat
    BY <2>1 DEF Scan!Measured
  <2>3. g[k] = g[k-1] + Scan!Measured(tail[list[k]], head[list[k]])
    BY <1>1, SizesFacts
  <2>4. k - 1 \in 0..n
    BY <1>2
  <2>5. g[k-1] \in Nat
    BY <1>3, <2>4
  <2>. QED
    BY <2>2, <2>3, <2>5
<1>. DEFINE Bad == {j \in 0..n : ~(g[j] <= g[n])}
<1>5. CASE Bad = {}
  <2>1. \A k \in 0..n : g[k] <= g[n]
    BY <1>5
  <2>. QED
    BY <1>1, <2>1 DEF Scan!SizeApprox
<1>6. CASE Bad # {}
  <2>1. Bad \subseteq 0..n
    OBVIOUS
  <2>2. PICK m \in Bad : \A i \in Bad : i <= m
    <3>. HIDE DEF Bad
    <3>. QED
      BY <1>2, <1>6, <2>1, Largest
  <2>3. m \in 0..n /\ ~(g[m] <= g[n])
    BY <2>2
  <2>4. \A i \in 0..n : i > m => g[i] <= g[n]
    <3>. SUFFICES ASSUME NEW i \in 0..n, i > m, ~(g[i] <= g[n])
                  PROVE  FALSE
      OBVIOUS
    <3>1. i \in Bad
      OBVIOUS
    <3>. HIDE DEF Bad
    <3>2. i <= m
      BY <2>2, <3>1
    <3>. QED
      BY <1>2, <2>3, <3>2
  <2>. HIDE DEF Bad
  <2>5. n \in 0..n /\ g[n] \in Nat /\ g[m] \in Nat
    BY <1>2, <1>3, <2>3
  <2>6. m # n
    BY <2>3, <2>5
  <2>7. m + 1 \in 1..n /\ m + 1 \in 0..n /\ m + 1 > m /\ (m + 1) - 1 = m
    BY <1>2, <2>3, <2>6
  <2>8. g[m+1] <= g[n] /\ g[m+1] \in Nat /\ g[m] <= g[m+1]
    BY <1>3, <1>4, <2>4, <2>7
  <2>. QED
    BY <2>3, <2>5, <2>8
<1>. QED
  BY <1>5, <1>6

\* When no dequeue is under way a bulk dequeue gets from each part all it has:
\* as many as were measured.
LEMMA TakenAll ==
  ASSUME ScanTypes,
         \A p \in Pair : /\ head[p] <= tail[p]
                         /\ optimistic[p] - overcommit[p] = head[p]
  PROVE  \A k \in 0..Len(list) : Scan!Taken[k] = Scan!Sizes[k]
<1>1. PICK n, s, total : n = Len(list) /\ s = Scan!Sizes /\ total = Scan!SizeApprox
  OBVIOUS
<1>. DEFINE M(k) == Scan!Measured(tail[list[k]], head[list[k]])
            Sums(f) == f = [k \in 0..n |->
                              IF k = 0 THEN 0
                              ELSE f[k-1] + Scan!Bulk(list[k], total - f[k-1])]
<1>2. n \in Nat /\ \A k \in 1..n : list[k] \in Pair /\ k - 1 \in 0..n
  BY <1>1 DEF ScanTypes
<1>3. /\ \A k \in 0..n : s[k] \in Nat /\ s[k] <= total
      /\ s[0] = 0 /\ total \in Nat
      /\ \A k \in 1..n : s[k] = s[k-1] + M(k)
      /\ s \in [0..n -> Nat]
  <2>1. /\ s \in [0..n -> Nat] /\ s[0] = 0
        /\ \A k \in 1..n : s[k] = s[k-1] + M(k)
    BY <1>1, SizesFacts
  <2>2. \A k \in 0..n : s[k] <= total
    BY <1>1, SizesGrow
  <2>3. total = s[n] /\ n \in 0..n
    BY <1>1, <1>2 DEF Scan!SizeApprox
  <2>. QED
    BY <2>1, <2>2, <2>3
<1>4. ASSUME NEW k \in 1..n
      PROVE  Scan!Bulk(list[k], total - s[k-1]) = M(k)
  <2>1. PICK p \in Pair : p = list[k]
    BY <1>2
  <2>2. /\ tail[p] \in Nat /\ head[p] \in Nat /\ head[p] <= tail[p]
        /\ optimistic[p] - overcommit[p] = head[p]
    BY DEF ScanTypes
  <2>3. M(k) = tail[p] - head[p]
    BY <2>1, <2>2 DEF Scan!Measured
  <2>4. /\ s[k-1] \in Nat /\ s[k] \in Nat /\ s[k] <= total
        /\ s[k] = s[k-1] + M(k)
    BY <1>2, <1>3
  <2>5. tail[p] - head[p] <= total - s[k-1]
    <3>. HIDE DEF M
    <3>. QED
      BY <1>3, <2>2, <2>3, <2>4
  <2>6. Scan!Bulk(p, total - s[k-1]) = tail[p] - head[p]
    <3>1. PICK max : max = total - s[k-1]
      OBVIOUS
    <3>2. max \in Int /\ tail[p] - head[p] <= max
      BY <1>3, <2>4, <2>5, <3>1
    <3>3. Scan!Bulk(p, max) = tail[p] - head[p]
      BY <2>2, <3>2 DEF Scan!Bulk
    <3>. QED
      BY <3>1, <3>3
  <2>. QED
    BY <2>1, <2>3, <2>6
<1>5. Sums(s)
  <2>. HIDE DEF M
  <2>1. ASSUME NEW k \in 0..n
        PROVE  s[k] = IF k = 0 THEN 0
                      ELSE s[k-1] + Scan!Bulk(list[k], total - s[k-1])
    <3>1. CASE k = 0
      BY <1>3, <3>1
    <3>2. CASE k # 0
      <4>1. k \in 1..n
        BY <1>2, <3>2
      <4>. QED
        BY <1>3, <1>4, <3>2, <4>1
    <3>. QED
      BY <3>1, <3>2
  <2>2. s = [k \in 0..n |-> s[k]]
    BY <1>3
  <2>. QED
    BY <2>1, <2>2
<1>6. Sums(Scan!Taken)
  <2>1. Scan!Taken = CHOOSE g : Sums(g)
    BY <1>1 DEF Scan!Taken
  <2>. HIDE DEF Sums
  <2>. QED
    BY <1>5, <2>1
<1>7. PICK g : g = Scan!Taken
  OBVIOUS
<1>8. g = [k \in 0..n |-> IF k = 0 THEN 0
                          ELSE g[k-1] + Scan!Bulk(list[k], total - g[k-1])]
  BY <1>6, <1>7
<1>. HIDE DEF Sums, M
<1>9. /\ g[0] = 0
      /\ \A k \in 1..n : g[k] = g[k-1] + Scan!Bulk(list[k], total - g[k-1])
  BY <1>2, <1>8
<1>. DEFINE Bad == {k \in 0..n : g[k] # s[k]}
<1>10. CASE Bad = {}
  <2>1. \A k \in 0..n : g[k] = s[k]
    BY <1>10
  <2>. QED
    BY <1>1, <1>7, <2>1
<1>11. CASE Bad # {}
  <2>1. Bad \subseteq Nat
    OBVIOUS
  <2>2. PICK j \in Bad : \A i \in Bad : ~(<<i, j>> \in OpToRel(<, Nat))
    BY <1>11, <2>1, NatLessThanWellFounded, WFMin
  <2>3. j \in 0..n /\ g[j] # s[j]
    BY <2>2
  <2>4. \A i \in 0..n : i < j => g[i] = s[i]
    <3>. SUFFICES ASSUME NEW i \in 0..n, i < j, g[i] # s[i]
                  PROVE  FALSE
      OBVIOUS
    <3>1. i \in Bad /\ i \in Nat /\ j \in Nat
      BY <1>2, <2>3
    <3>. HIDE DEF Bad
    <3>. QED
      BY <2>2, <3>1 DEF OpToRel
  <2>. HIDE DEF Bad
  <2>5. j # 0
    BY <1>3, <1>9, <2>3
  <2>6. j \in 1..n /\ j - 1 \in 0..n /\ j - 1 < j
    BY <1>2, <2>3, <2>5
  <2>7. g[j-1] = s[j-1]
    BY <2>4, <2>6
  <2>8. g[j] = s[j-1] + M(j)
    BY <1>4, <1>9, <2>6, <2>7
  <2>. QED
    BY <1>3, <2>3, <2>6, <2>8
<1>. QED
  BY <1>10, <1>11

LEMMA ScanDrain ==
  ASSUME ScanInv, Scan!Drain
  PROVE  ScanInv'
<1>1. /\ phase = "alive" /\ phase' = "drained"
      /\ \A c \in Consumer : Pc(c) = "idle"
      /\ room' = Scan!SizeApprox /\ drained' = Scan!Taken[Len(list)]
      /\ head' = [p \in Pair |-> head[p] + Scan!TakenFrom(p)]
      /\ optimistic' = [p \in Pair |-> optimistic[p] + Scan!TakenFrom(p)]
      /\ UNCHANGED <<list, tail, overcommit, consumer, seen, rivals>>
  BY DEF Scan!Drain, Scan!Quiet, Scan!At, Scan!history, Pc
<1>2. ScanTypes /\ PartInv /\ TallyInv
  BY <1>1 DEF ScanInv, AliveInv
<1>3. ASSUME NEW p \in Pair
      PROVE  head[p] <= tail[p] /\ optimistic[p] - overcommit[p] = head[p]
  <2>1. ClaimingFrom(p) = {}
    BY <1>1 DEF ClaimingFrom
  <2>2. optimistic[p] - overcommit[p] - head[p] = 0 /\ head[p] <= tail[p]
    BY <1>2, <2>1, Counted, FS_EmptySet
  <2>3. optimistic[p] \in Nat /\ overcommit[p] \in Nat /\ head[p] \in Nat
    BY <1>2 DEF ScanTypes
  <2>. QED
    BY <2>2, <2>3
<1>4. \A k \in 0..Len(list) : Scan!Taken[k] = Scan!Sizes[k]
  BY <1>2, <1>3, TakenAll
<1>5. ASSUME NEW p \in Pair
      PROVE  Scan!TakenFrom(p) = tail[p] - head[p]
  <2>1. tail[p] \in Nat /\ head[p] \in Nat
    BY <1>2 DEF ScanTypes
  <2>2. CASE p \notin Scan!ToSet(list)
    <3>1. ~InList(p)
      BY <1>2, <2>2, SetOccurs DEF ScanTypes, InList
    <3>2. tail[p] = 0
      BY <1>2, <3>1 DEF PartInv
    <3>. QED
      BY <1>3, <2>1, <2>2, <3>2 DEF Scan!TakenFrom
  <2>3. CASE p \in Scan!ToSet(list)
    <3>1. PICK k : k = CHOOSE i \in DOMAIN list : list[i] = p
      OBVIOUS
    <3>2. \E i \in DOMAIN list : list[i] = p
      BY <2>3 DEF Scan!ToSet
    <3>3. k \in DOMAIN list /\ list[k] = p
      BY <3>1, <3>2
    <3>4. k \in 1..Len(list) /\ k \in 0..Len(list) /\ k - 1 \in 0..Len(list)
      BY <1>2, <3>3 DEF ScanTypes
    <3>5. Scan!TakenFrom(p) = Scan!Taken[k] - Scan!Taken[k-1]
      BY <2>3, <3>1 DEF Scan!TakenFrom
    <3>6. /\ Scan!Sizes[k] = Scan!Sizes[k-1] + Scan!Measured(tail[p], head[p])
          /\ Scan!Sizes[k-1] \in Nat
      BY <1>2, <3>3, <3>4, SizesFacts
    <3>7. Scan!Measured(tail[p], head[p]) = tail[p] - head[p]
      BY <1>3, <2>1 DEF Scan!Measured
    <3>8. Scan!Taken[k] = Scan!Sizes[k] /\ Scan!Taken[k-1] = Scan!Sizes[k-1]
      BY <1>4, <3>4
    <3>. QED
      BY <2>1, <3>5, <3>6, <3>7, <3>8
  <2>. QED
    BY <2>2, <2>3
<1>6. \A p \in Pair : /\ head'[p] = tail[p] /\ head'[p] \in Nat
                      /\ optimistic'[p] \in Nat
                      /\ optimistic'[p] - overcommit[p] = head'[p]
  <2>. SUFFICES ASSUME NEW p \in Pair
                PROVE  /\ head'[p] = tail[p] /\ head'[p] \in Nat
                       /\ optimistic'[p] \in Nat
                       /\ optimistic'[p] - overcommit[p] = head'[p]
    OBVIOUS
  <2>1. /\ tail[p] \in Nat /\ head[p] \in Nat /\ optimistic[p] \in Nat
        /\ overcommit[p] \in Nat
    BY <1>2 DEF ScanTypes
  <2>2. /\ head'[p] = head[p] + (tail[p] - head[p])
        /\ optimistic'[p] = optimistic[p] + (tail[p] - head[p])
    BY <1>1, <1>5
  <2>. QED
    BY <1>3, <2>1, <2>2
<1>7. ScanTypes'
  <2>1. head' \in [Pair -> Nat] /\ optimistic' \in [Pair -> Nat]
    BY <1>1, <1>6
  <2>. QED
    BY <1>1, <1>2, <2>1 DEF ScanTypes
<1>8. head' = tail'
  <2>1. head' = [p \in Pair |-> head'[p]] /\ tail' = [p \in Pair |-> tail'[p]]
    BY <1>7 DEF ScanTypes
  <2>. QED
    BY <1>1, <1>6, <2>1
<1>9. drained' = room'
  <2>1. Len(list) \in 0..Len(list)
    BY <1>2 DEF ScanTypes
  <2>. QED
    BY <1>1, <1>4, <2>1 DEF Scan!SizeApprox
<1>10. DrainedInv'
  BY <1>1, <1>6, <1>8, <1>9 DEF DrainedInv, Pc
<1>. QED
  BY <1>1, <1>7, <1>10 DEF ScanInv

-----------------------------------------------------------------------------
LEMMA ScanInit == PartInit => ScanInv
<1>. SUFFICES ASSUME PartInit
              PROVE  ScanInv
  OBVIOUS
<1>i. PICK i, z : i = Scan!Idle /\ z = [p \in Pair |-> 0]
  OBVIOUS
<1>0. /\ phase = "alive" /\ list = <<>> /\ tail = z /\ head = z
      /\ optimistic = z /\ overcommit = z
      /\ consumer = [c \in Consumer |-> i]
      /\ seen = [c \in Consumer |-> z] /\ rivals = [c \in Consumer |-> {}]
  BY <1>i DEF PartInit, Scan!Init, Scan!Zero
<1>1. i \in ScanRecord /\ i.pc = "idle" /\ i.rest = <<>>
  <2>1. i \in ScanRecord
    BY <1>i DEF ScanRecord, Scan!Idle
  <2>2. i.pc = "idle" /\ i.rest = <<>>
    BY <1>i DEF Scan!Idle
  <2>. QED
    BY <2>1, <2>2
<1>2. MaxPut \in Nat
  BY PartsAssumption DEF Scan!BoundsAssumption
<1>3. /\ z \in [Pair -> 0..MaxPut] /\ z \in [Pair -> Nat]
      /\ \A p \in Pair : z[p] = 0
  BY <1>i, <1>2
<1>4. ScanTypes
  <2>1. /\ list \in Seq(Pair)
        /\ \A k, j \in 1..Len(list) : list[k] = list[j] => k = j
    BY <1>0
  <2>2. consumer \in [Consumer -> ScanRecord]
    BY <1>0, <1>1
  <2>3. seen \in [Consumer -> [Pair -> Nat]] /\ rivals \in [Consumer -> SUBSET Pair]
    BY <1>0, <1>3
  <2>. QED
    BY <1>0, <1>3, <2>1, <2>2, <2>3 DEF ScanTypes
<1>5. \A c \in Consumer : consumer[c] = i /\ seen[c] = z
  BY <1>0
<1>6. PartInv
  BY <1>0, <1>3, <1>5 DEF PartInv
<1>7. KnowInv
  <2>1. \A p : ~Occurs(<<>>, p)
    BY DEF Occurs
  <2>. QED
    BY <1>1, <1>5, <2>1 DEF KnowInv, Knows, Measures, Tries, Trying
<1>8. RivalInv
  BY <1>1, <1>5 DEF RivalInv, Pc, Trying
<1>9. TallyInv
  <2>1. ASSUME NEW p \in Pair
        PROVE  Accounted(optimistic[p], head[p], overcommit[p], tail[p],
                         ClaimingFrom(p), consumer)
    <3>1. ClaimingFrom(p) = {}
      BY <1>1, <1>5 DEF ClaimingFrom, Pc
    <3>2. /\ optimistic[p] = 0 /\ head[p] = 0 /\ overcommit[p] = 0 /\ tail[p] = 0
      BY <1>0, <1>3
    <3>3. Tally(0, 0, {}, consumer, {}, {})
      BY DEF Tally
    <3>4. Cardinality({}) = 0
      BY FS_EmptySet
    <3>5. Accounted(0, 0, 0, 0, {}, consumer)
      BY <3>3, <3>4 DEF Accounted
    <3>. QED
      BY <3>1, <3>2, <3>5
  <2>2. \A c \in Consumer : Pc(c) # "count"
    BY <1>1, <1>5 DEF Pc
  <2>. QED
    BY <2>1, <2>2 DEF TallyInv
<1>. QED
  BY <1>0, <1>4, <1>6, <1>7, <1>8, <1>9 DEF ScanInv, AliveInv

LEMMA ScanSame ==
  ASSUME ScanInv, UNCHANGED scanVars
  PROVE  ScanInv'
<1>1. UNCHANGED <<list, tail, head, optimistic, overcommit, consumer, phase,
                  room, drained, seen, rivals>>
  BY DEF scanVars
<1>2. ScanTypes' = ScanTypes
  BY <1>1 DEF ScanTypes
<1>3. DrainedInv' = DrainedInv
  BY <1>1 DEF DrainedInv, Pc
<1>4. /\ PartInv' = PartInv
      /\ RivalInv' = RivalInv
  BY <1>1 DEF PartInv, InList, RivalInv, Pc
<1>5. KnowInv' = KnowInv
  BY <1>1 DEF KnowInv, Knows, Measures, Tries, Cleared, InList
<1>6. TallyInv' = TallyInv
  BY <1>1 DEF TallyInv, ClaimingFrom, Pc
<1>. QED
  BY <1>1, <1>2, <1>3, <1>4, <1>5, <1>6 DEF ScanInv, AliveInv

LEMMA ScanStepInv ==
  ASSUME ScanInv, [PartNext]_<<part, listVars, hashVars, exitVars, scanVars>>
  PROVE  ScanInv'
<1>1. CASE UNCHANGED scanVars
  BY <1>1, ScanSame
<1>2. CASE Scan!Next
  <2>1. CASE \E p \in Pair : Scan!Join(p) \/ Scan!Put(p)
    BY <2>1, ScanJoin, ScanPut
  <2>2. CASE \E c \in Consumer : Scan!TryDequeue(c)
    BY <2>2, ScanBegin, ScanLoadTail, ScanLoadHead, ScanScored, ScanWalk,
       ScanCheck, ScanCount, ScanClaim, ScanGiveUp, ScanReturn
       DEF Scan!TryDequeue
  <2>3. CASE Scan!Drain
    BY <2>3, ScanDrain
  <2>. QED
    BY <1>2, <2>1, <2>2, <2>3 DEF Scan!Next
<1>. QED
  BY <1>1, <1>2 DEF PartNext, ListStep, HashStep, ExitStep, ScanStep

\* What the invariant says of the four properties.
LEMMA ScanSafe == ScanInv => Scan!Safety
<1>. SUFFICES ASSUME ScanInv
              PROVE  Scan!Safety
  OBVIOUS
<1>1. ScanTypes
  BY DEF ScanInv
<1>2. Scan!TypeOK
  <2>1. Scan!ToSet(list) \subseteq Pair /\ Scan!IsInjective(list)
    <3>1. \A p \in Scan!ToSet(list) : p \in Pair
      BY <1>1, SetOccurs, ListMembers DEF ScanTypes, InList
    <3>2. Scan!IsInjective(list)
      <4>1. DOMAIN list = 1..Len(list)
        BY <1>1 DEF ScanTypes
      <4>2. \A i, j \in 1..Len(list) : list[i] = list[j] => i = j
        BY <1>1 DEF ScanTypes
      <4>. QED
        BY <4>1, <4>2 DEF Scan!IsInjective
    <3>. QED
      BY <3>1, <3>2
  <2>2. \A c \in Consumer : consumer[c].pc \in {"check", "count", "claim"} =>
          consumer[c].part \in Scan!ToSet(list)
    <3>. SUFFICES ASSUME NEW c \in Consumer,
                         consumer[c].pc \in {"check", "count", "claim"}
                  PROVE  consumer[c].part \in Scan!ToSet(list)
      OBVIOUS
    <3>1. KnowInv
      BY ScanAlive DEF Pc, ScanInv, AliveInv
    <3>2. InList(consumer[c].part)
      BY <3>1 DEF KnowInv, Knows, Tries, Trying
    <3>. QED
      BY <1>1, <3>2, SetOccurs DEF ScanTypes, InList
  <2>. QED
    BY <1>1, <2>1, <2>2 DEF Scan!TypeOK, ScanTypes
<1>3. Scan!Consistent
  <2>. SUFFICES ASSUME NEW p \in Pair
                PROVE  /\ head[p] <= tail[p]
                       /\ Scan!Quiet => optimistic[p] - overcommit[p] = head[p]
    BY DEF Scan!Consistent
  <2>0. /\ tail[p] \in Nat /\ head[p] \in Nat /\ optimistic[p] \in Nat
        /\ overcommit[p] \in Nat
    BY <1>1 DEF ScanTypes
  <2>1. CASE phase = "alive"
    <3>1. TallyInv
      BY <2>1 DEF ScanInv, AliveInv
    <3>2. /\ head[p] <= tail[p]
          /\ Cardinality(ClaimingFrom(p)) = optimistic[p] - overcommit[p] - head[p]
      BY <1>1, <3>1, Counted
    <3>3. ASSUME Scan!Quiet
          PROVE  optimistic[p] - overcommit[p] = head[p]
      <4>1. ClaimingFrom(p) = {}
        BY <3>3 DEF Scan!Quiet, Scan!At, ClaimingFrom, Pc
      <4>2. Cardinality(ClaimingFrom(p)) = 0
        BY <4>1, FS_EmptySet
      <4>. QED
        BY <2>0, <3>2, <4>2
    <3>. QED
      BY <3>2, <3>3
  <2>2. CASE phase # "alive"
    <3>1. DrainedInv
      BY <2>2 DEF ScanInv
    <3>. QED
      BY <2>0, <3>1 DEF DrainedInv
  <2>. QED
    BY <2>1, <2>2
<1>4. Scan!NothingOverlooked
  <2>. SUFFICES ASSUME NEW c \in Consumer, NEW p \in Pair, Pc(c) = "none",
                       p \notin rivals[c]
                PROVE  head[p] >= seen[c][p]
    BY DEF Scan!NothingOverlooked, Scan!At, Pc
  <2>1. KnowInv
    BY ScanAlive DEF ScanInv, AliveInv
  <2>2. Cleared(c, p)
    BY <2>1 DEF KnowInv, Knows, Tries, Pc
  <2>3. head[p] \in Nat /\ seen[c][p] \in Nat
    BY <1>1 DEF ScanTypes
  <2>. QED
    BY <2>2, <2>3 DEF Cleared
<1>5. Scan!VectorFilled
  BY DEF Scan!VectorFilled, ScanInv, DrainedInv
<1>. QED
  BY <1>2, <1>3, <1>4, <1>5 DEF Scan!Safety

\* The scan over the parts of the queue (try_dequeue, size_approx and the
\* destructor's try_dequeue_bulk), for any number of producers and of dequeues:
\* no element is claimed that is not there and, when nothing is under way, the
\* counters agree; a dequeue that returns nothing has overlooked no element that
\* was there when it began and still is, unless a rival tried that part; and
\* ~ThreadPool gets exactly as many tasks as it made room for, which are all.
THEOREM NothingIsOverlooked == PartSpec => []ConcurrentQueueSafety
<1>1. PartInit => ScanInv
  BY ScanInit
<1>2. ScanInv /\ [PartNext]_<<part, listVars, hashVars, exitVars, scanVars>> => ScanInv'
  BY ScanStepInv
<1>3. ScanInv => ConcurrentQueueSafety
  BY ScanSafe DEF ConcurrentQueueSafety
<1>. QED
  BY <1>1, <1>2, <1>3, PTL DEF PartSpec
-----------------------------------------------------------------------------
\* The free list of blocks (FreeList, as instantiated in MCQueueParts): what a
\* thread with record x does with block n.
Block == 0..PoolBlocks-1
Gets(x, n) == x.pc = "got" /\ x.head = n
Pushes(x, n) == x.pc \in {"push", "link", "count"} /\ x.node = n
Publishes(x, n) == x.pc \in {"publish", "withdraw"} /\ x.node = n
Reads(x, n) ==
  \/ x.pc \in {"next", "pop"} /\ x.head = n
  \/ x.pc = "unref" /\ x.node = n
Readers(n) == {t \in Triple : Reads(listThread[t], n)}

\* The place w of a block, with the thread b that has it: not handed out yet,
\* held, just popped, about to be pushed with a count of zero or of one, on the
\* list, or left to the threads that have a reference to it.  Its count is the
\* number of the latter, one more for the list and two for who has popped it;
\* its bit is set while it is to be pushed.
Places == {"pool", "held", "got", "push", "publish", "list", "left"}
Weight(w) == IF w = "got" THEN 2 ELSE IF w \in {"publish", "list"} THEN 1 ELSE 0
Owned == {"held", "got", "push", "publish"}
BlockAt(n, w, b) ==
  /\ w \in Owned => b \in Triple
  /\ \A t \in Triple :
       /\ n \in held[t] <=> w = "held" /\ b = t
       /\ Gets(listThread[t], n) <=> w = "got" /\ b = t
       /\ Pushes(listThread[t], n) <=> w = "push" /\ b = t
       /\ Publishes(listThread[t], n) <=> w = "publish" /\ b = t
  /\ n >= poolIndex <=> w = "pool"
  /\ refs[n] = Cardinality(Readers(n)) + Weight(w)
  /\ should[n] <=> w \in {"push", "left"}
  /\ w = "push" => refs[n] = 0
  /\ w = "left" => refs[n] # 0

\* The list is the sequence s of blocks, each at one place.
Linked(s) ==
  /\ \A i, j \in 1..Len(s) : s[i] = s[j] => i = j
  /\ listHead = IF s = <<>> THEN Null ELSE s[1]
  /\ \A i \in 1..Len(s) :
       listNext[s[i]] = IF i = Len(s) THEN Null ELSE s[i+1]
BlocksPlaced(s, where, by) ==
  /\ Linked(s)
  /\ \A n \in Block : Occurs(s, n) <=> where[n] = "list"
  /\ \A n \in Block : BlockAt(n, where[n], by[n])
BlocksInv ==
  \E s \in Seq(Block) :
    \E where \in [Block -> Places] : \E by \in [Block -> Triple \cup {Null}] :
      BlocksPlaced(s, where, by)

\* What a thread has read: next of a block that it has a reference to, and of
\* the one it is about to push, does not change.
ListRecord ==
  [pc : {"idle", "take", "get", "ref", "next", "pop", "got", "unref", "push",
         "link", "count", "publish", "withdraw"},
   head : Block \cup {Null}, next : Block \cup {Null}, node : Block \cup {Null},
   seen : Block \cup {Null}]
Ready(x) ==
  /\ x.pc \in {"ref", "next", "pop", "got"} => x.head \in Block
  /\ x.pc \in {"unref", "push", "link", "count", "publish", "withdraw"} =>
       x.node \in Block
  /\ x.pc = "pop" => x.next = listNext[x.head]
  /\ x.pc \in {"count", "publish"} => x.seen = listNext[x.node]
ReadyInv == \A t \in Triple : Ready(listThread[t])

Taking == {t \in Triple : listThread[t].pc = "take"}
ListTypes ==
  /\ poolIndex \in Nat
  /\ poolIndex + Cardinality(Taking) <= PoolBlocks + Cardinality(Triple)
  /\ listHead \in Block \cup {Null}
  /\ listNext \in [Block -> Block \cup {Null}]
  /\ refs \in [Block -> Nat] /\ should \in [Block -> BOOLEAN]
  /\ held \in [Triple -> SUBSET Block]
  /\ listThread \in [Triple -> ListRecord]
FreeListInv == ListTypes /\ ReadyInv /\ BlocksInv

LEMMA FreeFacts ==
  /\ PoolBlocks \in Nat /\ Null \notin Block /\ IsFiniteSet(Triple)
  /\ Block \subseteq Nat /\ List!Node = Block
<1>1. PoolBlocks \in Nat /\ Null \notin Nat /\ List!IsFiniteSet(Triple)
  BY PartsAssumption DEF List!PoolAssumption
<1>4. IsFiniteSet(Triple)
  BY <1>1 DEF List!IsFiniteSet, IsFiniteSet
<1>2. Block \subseteq Nat /\ Null \notin Block
  BY <1>1 DEF Block
<1>3. List!Node = Block
  BY DEF List!Node, Block
<1>. QED
  BY <1>1, <1>2, <1>3, <1>4

LEMMA ListCardinality == \A S : List!Cardinality(S) = Cardinality(S)
BY DEF List!Cardinality, Cardinality

LEMMA ReadersFinite ==
  \A n : IsFiniteSet(Readers(n)) /\ Cardinality(Readers(n)) \in Nat
BY FreeFacts, FS_Subset, FS_CardinalityType DEF Readers

LEMMA TakingFinite ==
  IsFiniteSet(Taking) /\ Cardinality(Taking) \in Nat
BY FreeFacts, FS_Subset, FS_CardinalityType DEF Taking

\* The types after a step of one thread that does not fetch from the pool.
LEMMA ListTypesStay ==
  ASSUME ListTypes, NEW t \in Triple, NEW r \in ListRecord,
         listThread' = [listThread EXCEPT ![t] = r],
         poolIndex' = poolIndex, r.pc = "take" => listThread[t].pc = "take",
         listHead' \in Block \cup {Null}, listNext' \in [Block -> Block \cup {Null}],
         refs' \in [Block -> Nat], should' \in [Block -> BOOLEAN],
         held' \in [Triple -> SUBSET Block]
  PROVE  ListTypes'
<1>1. listThread' \in [Triple -> ListRecord]
  BY DEF ListTypes
<1>2. Taking' \subseteq Taking
  BY DEF Taking, ListTypes
<1>3. /\ Cardinality(Taking') <= Cardinality(Taking) /\ Cardinality(Taking) \in Nat
      /\ Cardinality(Taking') \in Nat
  BY <1>2, TakingFinite, FS_Subset, FS_CardinalityType
<1>4. Cardinality(Triple) \in Nat /\ PoolBlocks \in Nat
  BY FreeFacts, FS_CardinalityType
<1>5. Cardinality(Taking)' = Cardinality(Taking')
  OBVIOUS
<1>6. (poolIndex + Cardinality(Taking) <= PoolBlocks + Cardinality(Triple))'
  BY <1>3, <1>4, <1>5 DEF ListTypes
<1>. QED
  BY <1>1, <1>6 DEF ListTypes

LEMMA ReadyStays ==
  ASSUME ListTypes, ReadyInv, NEW t \in Triple, NEW r,
         listThread' = [listThread EXCEPT ![t] = r], listNext' = listNext,
         Ready(r)
  PROVE  ReadyInv'
<1>1. /\ listThread'[t] = r
      /\ \A u \in Triple \ {t} : listThread'[u] = listThread[u]
  BY DEF ListTypes
<1>2. ASSUME NEW u \in Triple
      PROVE  Ready(listThread[u])'
  <2>1. PICK x : x = listThread'[u]
    OBVIOUS
  <2>2. Ready(x)
    BY <1>1, <2>1 DEF ReadyInv
  <2>3. Ready(x)'
    BY <2>2 DEF Ready
  <2>. QED
    BY <2>1, <2>3
<1>. QED
  BY <1>2 DEF ReadyInv

\* What a step of one thread leaves as it is at a block.
Alike(x, r, m) ==
  /\ Gets(x, m) <=> Gets(r, m)
  /\ Pushes(x, m) <=> Pushes(r, m)
  /\ Publishes(x, m) <=> Publishes(r, m)
  /\ Reads(x, m) <=> Reads(r, m)
Untouched(m) ==
  /\ refs'[m] = refs[m] /\ should'[m] = should[m]
  /\ m >= poolIndex' <=> m >= poolIndex
  /\ \A u \in Triple : m \in held'[u] <=> m \in held[u]

LEMMA BlockSame ==
  ASSUME ListTypes, NEW t \in Triple, NEW r,
         listThread' = [listThread EXCEPT ![t] = r],
         NEW m, NEW w, NEW b, BlockAt(m, w, b),
         Alike(listThread[t], r, m), Untouched(m)
  PROVE  BlockAt(m, w, b)'
<1>1. /\ listThread'[t] = r
      /\ \A u \in Triple \ {t} : listThread'[u] = listThread[u]
  BY DEF ListTypes
<1>2. Readers(m)' = Readers(m)
  BY <1>1 DEF Readers, Alike, Reads
<1>3. Cardinality(Readers(m))' = Cardinality(Readers(m))
  BY <1>2
<1>4. \A u \in Triple :
        /\ Gets(listThread[u], m)' <=> Gets(listThread[u], m)
        /\ Pushes(listThread[u], m)' <=> Pushes(listThread[u], m)
        /\ Publishes(listThread[u], m)' <=> Publishes(listThread[u], m)
  BY <1>1 DEF Alike, Gets, Pushes, Publishes
<1>. QED
  BY <1>3, <1>4 DEF BlockAt, Untouched

\* A step that changes no block's place.
LEMMA FreeStays ==
  ASSUME FreeListInv, ListTypes', NEW t \in Triple, NEW r,
         listThread' = [listThread EXCEPT ![t] = r],
         UNCHANGED <<listHead, listNext>>, Ready(r),
         \A m \in Block : Alike(listThread[t], r, m) /\ Untouched(m)
  PROVE  FreeListInv'
<1>1. ListTypes /\ ReadyInv
  BY DEF FreeListInv
<1>2. PICK s \in Seq(Block), where \in [Block -> Places],
           by \in [Block -> Triple \cup {Null}] : BlocksPlaced(s, where, by)
  BY DEF FreeListInv, BlocksInv
<1>3. Linked(s)'
  BY <1>2 DEF BlocksPlaced, Linked
<1>4. ASSUME NEW m \in Block
      PROVE  BlockAt(m, where[m], by[m])'
  <2>1. PICK w, b : w = where[m] /\ b = by[m]
    OBVIOUS
  <2>2. BlockAt(m, w, b)
    BY <1>2, <2>1 DEF BlocksPlaced
  <2>3. BlockAt(m, w, b)'
    BY <1>1, <2>2, BlockSame
  <2>. QED
    BY <2>1, <2>3
<1>5. BlocksPlaced(s, where, by)'
  BY <1>2, <1>3, <1>4 DEF BlocksPlaced
<1>6. BlocksInv'
  BY <1>5 DEF BlocksInv
<1>7. ReadyInv'
  BY <1>1, ReadyStays
<1>. QED
  BY <1>6, <1>7 DEF FreeListInv

\* A step that moves one block to another place.
LEMMA FreeMoves ==
  ASSUME ListTypes, ListTypes', ReadyInv', NEW t \in Triple, NEW r,
         listThread' = [listThread EXCEPT ![t] = r],
         NEW s1 \in Seq(Block), NEW where \in [Block -> Places],
         NEW by \in [Block -> Triple \cup {Null}], BlocksPlaced(s1, where, by),
         NEW n \in Block, NEW w \in Places, NEW b \in Triple \cup {Null},
         NEW s2 \in Seq(Block), Linked(s2)',
         Occurs(s2, n) <=> w = "list",
         \A m \in Block \ {n} : Occurs(s2, m) <=> Occurs(s1, m),
         BlockAt(n, w, b)',
         \A m \in Block \ {n} : Alike(listThread[t], r, m) /\ Untouched(m)
  PROVE  FreeListInv'
<1>1. PICK where2, by2 : /\ where2 = [where EXCEPT ![n] = w]
                         /\ by2 = [by EXCEPT ![n] = b]
  OBVIOUS
<1>2. /\ where2 \in [Block -> Places] /\ by2 \in [Block -> Triple \cup {Null}]
      /\ where2[n] = w /\ by2[n] = b
      /\ \A m \in Block \ {n} : where2[m] = where[m] /\ by2[m] = by[m]
  BY <1>1
<1>3. ASSUME NEW m \in Block
      PROVE  BlockAt(m, where2[m], by2[m])'
  <2>1. PICK v, a : v = where2[m] /\ a = by2[m]
    OBVIOUS
  <2>2. CASE m = n
    <3>1. BlockAt(n, v, a)'
      BY <1>2, <2>1, <2>2
    <3>. QED
      BY <2>1, <2>2, <3>1
  <2>3. CASE m # n
    <3>1. BlockAt(m, v, a)
      BY <1>2, <2>1, <2>3 DEF BlocksPlaced
    <3>2. BlockAt(m, v, a)'
      BY <2>3, <3>1, BlockSame
    <3>. QED
      BY <2>1, <3>2
  <2>. QED
    BY <2>2, <2>3
<1>4. \A m \in Block : Occurs(s2, m) <=> where2[m] = "list"
  BY <1>2 DEF BlocksPlaced
<1>5. BlocksPlaced(s2, where2, by2)'
  BY <1>3, <1>4 DEF BlocksPlaced
<1>6. BlocksInv'
  BY <1>2, <1>5 DEF BlocksInv
<1>. QED
  BY <1>6 DEF FreeListInv

\* A thread that has no block in sight: it looks for one.
Away == {"idle", "take", "get", "ref"}
LEMMA FreeAway ==
  ASSUME FreeListInv, ListTypes', NEW t \in Triple, NEW r,
         listThread' = [listThread EXCEPT ![t] = r],
         listThread[t].pc \in Away, r.pc \in Away,
         r.pc = "ref" => r.head \in Block,
         UNCHANGED <<listHead, listNext, refs, should>>,
         \A m \in Block : /\ m >= poolIndex' <=> m >= poolIndex
                          /\ \A u \in Triple : m \in held'[u] <=> m \in held[u]
  PROVE  FreeListInv'
<1>1. Ready(r)
  BY DEF Ready, Away
<1>2. \A m \in Block : Alike(listThread[t], r, m) /\ Untouched(m)
  BY DEF Alike, Untouched, Gets, Pushes, Publishes, Reads, Away
<1>. QED
  BY <1>1, <1>2, FreeStays

\* try_get continues with the head it has read, or ends.
LEMMA LooksAt ==
  ASSUME ListTypes, NEW t \in Triple, NEW x \in ListRecord,
         NEW h \in Block \cup {Null}, List!Look(t, x, h)
  PROVE  \E r \in ListRecord :
           /\ listThread' = [listThread EXCEPT ![t] = r]
           /\ r.pc \in {"idle", "ref"} /\ (r.pc = "ref" => r.head \in Block)
<1>i. PICK i : i = List!Idle
  OBVIOUS
<1>1. i \in ListRecord /\ i.pc = "idle"
  <2>1. i \in ListRecord
    BY <1>i DEF ListRecord, List!Idle
  <2>2. i.pc = "idle"
    BY <1>i DEF List!Idle
  <2>. QED
    BY <2>1, <2>2
<1>2. CASE h = Null
  <2>1. listThread' = [listThread EXCEPT ![t] = i]
    BY <1>i, <1>2 DEF List!Look, List!Step
  <2>. QED
    BY <1>1, <2>1
<1>3. CASE h # Null
  <2>. DEFINE q == [x EXCEPT !.pc = "ref", !.head = h, !.node = Null,
                             !.seen = Null, !.next = Null]
  <2>1. listThread' = [listThread EXCEPT ![t] = q]
    BY <1>3 DEF List!Look, List!Step
  <2>2. q \in ListRecord
    BY DEF ListRecord
  <2>3. q.pc = "ref" /\ q.head = h
    BY DEF ListRecord
  <2>. HIDE DEF q
  <2>. QED
    BY <1>3, <2>1, <2>2, <2>3
<1>. QED
  BY <1>2, <1>3

LEMMA IdleRecord ==
  /\ List!Idle \in ListRecord
  /\ List!Idle.pc = "idle"
BY DEF ListRecord, List!Idle

LEMMA FreeTakeFromPool ==
  ASSUME FreeListInv, NEW t \in Triple, List!TakeFromPool(t)
  PROVE  FreeListInv'
<1>i. PICK i : i = List!Idle
  OBVIOUS
<1>r. PICK r : r = [i EXCEPT !.pc = "take"]
  OBVIOUS
<1>1. /\ listThread[t].pc = "idle" /\ poolIndex < PoolBlocks
      /\ listThread' = [listThread EXCEPT ![t] = r]
      /\ UNCHANGED <<poolIndex, listHead, listNext, refs, should, held>>
  BY <1>i, <1>r DEF List!TakeFromPool, List!At, List!Step, List!list, List!counts
<1>2. i \in ListRecord
  BY <1>i, IdleRecord
<1>3. r \in ListRecord /\ r.pc = "take"
  BY <1>r, <1>2 DEF ListRecord
<1>4. ListTypes
  BY DEF FreeListInv
<1>5. ListTypes'
  <2>1. listThread' \in [Triple -> ListRecord]
    BY <1>1, <1>3, <1>4 DEF ListTypes
  <2>2. Taking' \subseteq Triple
    BY DEF Taking
  <2>3. /\ Cardinality(Taking') <= Cardinality(Triple)
        /\ Cardinality(Taking') \in Nat /\ Cardinality(Triple) \in Nat
    BY <2>2, FreeFacts, FS_Subset, FS_CardinalityType
  <2>4. Cardinality(Taking)' = Cardinality(Taking')
    OBVIOUS
  <2>5. (poolIndex + Cardinality(Taking) <= PoolBlocks + Cardinality(Triple))'
    BY <1>1, <1>4, <2>3, <2>4, FreeFacts DEF ListTypes
  <2>. QED
    BY <1>1, <1>4, <2>1, <2>5 DEF ListTypes
<1>. QED
  BY <1>1, <1>3, <1>5, FreeAway DEF Away

LEMMA FreeFetchIndex ==
  ASSUME FreeListInv, NEW t \in Triple, List!FetchIndex(t)
  PROVE  FreeListInv'
<1>i. PICK i : i = List!Idle
  OBVIOUS
<1>g. PICK g : g = [i EXCEPT !.pc = "get"]
  OBVIOUS
<1>x. PICK x : x = listThread[t]
  OBVIOUS
<1>1. /\ x.pc = "take" /\ poolIndex' = poolIndex + 1
      /\ UNCHANGED <<listHead, listNext, refs, should>>
  BY <1>x DEF List!FetchIndex, List!At, List!list, List!counts
<1>2. i \in ListRecord /\ i.pc = "idle"
  BY <1>i, IdleRecord
<1>3. g \in ListRecord /\ g.pc = "get"
  BY <1>g, <1>2 DEF ListRecord
<1>4. ListTypes /\ ReadyInv
  BY DEF FreeListInv
<1>5. ASSUME NEW r \in ListRecord, r.pc # "take",
             listThread' = [listThread EXCEPT ![t] = r],
             held' \in [Triple -> SUBSET Block]
      PROVE  ListTypes'
  <2>1. listThread' \in [Triple -> ListRecord]
    BY <1>4, <1>5 DEF ListTypes
  <2>2. Taking' = Taking \ {t} /\ t \in Taking
    BY <1>1, <1>4, <1>5, <1>x DEF Taking, ListTypes
  <2>3. /\ Cardinality(Taking') = Cardinality(Taking) - 1
        /\ Cardinality(Taking) \in Nat
    BY <2>2, TakingFinite, FS_RemoveElement
  <2>4. Cardinality(Taking)' = Cardinality(Taking')
    OBVIOUS
  <2>5. Cardinality(Triple) \in Nat /\ PoolBlocks \in Nat
    BY FreeFacts, FS_CardinalityType
  <2>6. (poolIndex + Cardinality(Taking) <= PoolBlocks + Cardinality(Triple))'
    BY <1>1, <1>4, <2>3, <2>4, <2>5 DEF ListTypes
  <2>. QED
    BY <1>1, <1>4, <1>5, <2>1, <2>6 DEF ListTypes
<1>6. CASE poolIndex < PoolBlocks
  <2>n. PICK n : n = poolIndex
    OBVIOUS
  <2>1. /\ held' = [held EXCEPT ![t] = held[t] \cup {n}]
        /\ listThread' = [listThread EXCEPT ![t] = i]
    BY <1>6, <1>i, <2>n DEF List!FetchIndex, List!Step
  <2>2. n \in Block
    BY <1>4, <1>6, <2>n, FreeFacts DEF ListTypes, Block
  <2>3. /\ held' \in [Triple -> SUBSET Block]
        /\ held'[t] = held[t] \cup {n}
        /\ \A u \in Triple \ {t} : held'[u] = held[u]
    BY <1>4, <2>1, <2>2 DEF ListTypes
  <2>4. ListTypes'
    BY <1>2, <1>5, <2>1, <2>3
  <2>5. ReadyInv'
    <3>1. Ready(i)
      BY <1>2 DEF Ready
    <3>. QED
      BY <1>1, <1>4, <2>1, <3>1, ReadyStays
  <2>6. PICK s \in Seq(Block), where \in [Block -> Places],
             by \in [Block -> Triple \cup {Null}] : BlocksPlaced(s, where, by)
    BY DEF FreeListInv, BlocksInv
  <2>7. PICK w, b : w = where[n] /\ b = by[n]
    OBVIOUS
  <2>8. BlockAt(n, w, b) /\ w = "pool"
    <3>1. BlockAt(n, w, b)
      BY <2>2, <2>6, <2>7 DEF BlocksPlaced
    <3>2. n >= poolIndex
      BY <1>4, <2>n DEF ListTypes
    <3>. QED
      BY <3>1, <3>2 DEF BlockAt
  <2>9. \A m \in Block : Alike(listThread[t], i, m)
    BY <1>1, <1>2, <1>x DEF Alike, Gets, Pushes, Publishes, Reads
  <2>10. BlockAt(n, "held", t)'
    <3>1. /\ listThread'[t] = i
          /\ \A u \in Triple \ {t} : listThread'[u] = listThread[u]
      BY <1>4, <2>1 DEF ListTypes
    <3>2. Readers(n)' = Readers(n)
      BY <2>2, <2>9, <3>1 DEF Readers, Alike
    <3>3. \A u \in Triple :
            /\ n \in held'[u] <=> u = t
            /\ ~Gets(listThread'[u], n) /\ ~Pushes(listThread'[u], n)
            /\ ~Publishes(listThread'[u], n)
      BY <2>2, <2>3, <2>8, <2>9, <3>1 DEF BlockAt, Alike
    <3>4. refs'[n] = Cardinality(Readers(n))' + 0 /\ ~should'[n]
      BY <1>1, <2>8, <3>2 DEF BlockAt, Weight
    <3>5. ~(n >= poolIndex')
      BY <1>1, <1>4, <2>n DEF ListTypes
    <3>6. \A u \in Triple :
            /\ (n \in held[u])' <=> "held" = "held" /\ t = u
            /\ Gets(listThread[u], n)' <=> "held" = "got" /\ t = u
            /\ Pushes(listThread[u], n)' <=> "held" = "push" /\ t = u
            /\ Publishes(listThread[u], n)' <=> "held" = "publish" /\ t = u
      BY <3>3 DEF Gets, Pushes, Publishes
    <3>. QED
      BY <3>4, <3>5, <3>6 DEF BlockAt, Weight
  <2>11. \A m \in Block \ {n} : Untouched(m)
    <3>. SUFFICES ASSUME NEW m \in Block \ {n}
                  PROVE  Untouched(m)
      OBVIOUS
    <3>1. m >= poolIndex' <=> m >= poolIndex
      BY <1>1, <1>4, <2>n, FreeFacts DEF ListTypes
    <3>. QED
      BY <1>1, <2>3, <3>1 DEF Untouched
  <2>12. Linked(s)' /\ ~Occurs(s, n)
    <3>1. ~Occurs(s, n)
      BY <2>2, <2>6, <2>7, <2>8 DEF BlocksPlaced
    <3>. QED
      BY <1>1, <2>6, <3>1 DEF BlocksPlaced, Linked
  <2>13. "held" \in Places /\ t \in Triple \cup {Null}
    BY DEF Places
  <2>. QED
    BY <1>4, <2>1, <2>2, <2>4, <2>5, <2>6, <2>9, <2>10, <2>11, <2>12, <2>13, FreeMoves
<1>7. CASE ~(poolIndex < PoolBlocks)
  <2>1. held' = held /\ listThread' = [listThread EXCEPT ![t] = g]
    BY <1>7, <1>g, <1>i DEF List!FetchIndex, List!Step
  <2>2. ListTypes'
    BY <1>3, <1>4, <1>5, <2>1 DEF ListTypes
  <2>3. \A m \in Block : m >= poolIndex' <=> m >= poolIndex
    BY <1>1, <1>4, <1>7, FreeFacts DEF ListTypes, Block
  <2>. QED
    BY <1>1, <1>3, <1>x, <2>1, <2>2, <2>3, FreeAway DEF Away
<1>. QED
  BY <1>6, <1>7

LEMMA FreePoolEmpty ==
  ASSUME FreeListInv, NEW t \in Triple, List!PoolEmpty(t)
  PROVE  FreeListInv'
<1>i. PICK i : i = List!Idle
  OBVIOUS
<1>r. PICK r : r = [i EXCEPT !.pc = "get"]
  OBVIOUS
<1>1. /\ listThread[t].pc = "idle"
      /\ listThread' = [listThread EXCEPT ![t] = r]
      /\ UNCHANGED <<poolIndex, listHead, listNext, refs, should, held>>
  BY <1>i, <1>r DEF List!PoolEmpty, List!At, List!Step, List!list, List!counts
<1>2. i \in ListRecord
  BY <1>i, IdleRecord
<1>3. r \in ListRecord /\ r.pc = "get"
  BY <1>r, <1>2 DEF ListRecord
<1>4. ListTypes
  BY DEF FreeListInv
<1>5. ListTypes'
  BY <1>1, <1>3, <1>4, ListTypesStay DEF ListTypes
<1>. QED
  BY <1>1, <1>3, <1>5, FreeAway DEF Away

LEMMA FreeLooks ==
  ASSUME FreeListInv, NEW t \in Triple, List!LoadHead(t) \/ List!Retry(t)
  PROVE  FreeListInv'
<1>1. ListTypes
  BY DEF FreeListInv
<1>2. /\ listThread[t].pc \in {"get", "ref"}
      /\ UNCHANGED <<poolIndex, listHead, listNext, refs, should, held>>
      /\ List!Look(t, List!Idle, listHead) \/ List!Look(t, listThread[t], listHead)
  BY DEF List!LoadHead, List!Retry, List!At, List!list, List!counts
<1>3. PICK x \in ListRecord, h \in Block \cup {Null} : List!Look(t, x, h)
  <2>1. List!Idle \in ListRecord /\ listThread[t] \in ListRecord
        /\ listHead \in Block \cup {Null}
    BY <1>1, IdleRecord DEF ListTypes
  <2>. QED
    BY <1>2, <2>1
<1>4. PICK r \in ListRecord :
        /\ listThread' = [listThread EXCEPT ![t] = r]
        /\ r.pc \in {"idle", "ref"} /\ (r.pc = "ref" => r.head \in Block)
  BY <1>1, <1>3, LooksAt
<1>5. ListTypes'
  BY <1>1, <1>2, <1>4, ListTypesStay DEF ListTypes
<1>. QED
  BY <1>2, <1>4, <1>5, FreeAway DEF Away

\* Steps that change no block's place.
LEMMA FreeLoadNext ==
  ASSUME FreeListInv, NEW t \in Triple, List!LoadNext(t)
  PROVE  FreeListInv'
<1>x. PICK x : x = listThread[t]
  OBVIOUS
<1>r. PICK r : r = [x EXCEPT !.pc = "pop", !.next = listNext[x.head]]
  OBVIOUS
<1>1. /\ x.pc = "next" /\ listThread' = [listThread EXCEPT ![t] = r]
      /\ UNCHANGED <<poolIndex, listHead, listNext, refs, should, held>>
  BY <1>x, <1>r DEF List!LoadNext, List!At, List!Step, List!list, List!counts
<1>2. ListTypes /\ x \in ListRecord /\ Ready(x)
  BY <1>x DEF FreeListInv, ListTypes, ReadyInv
<1>3. x.head \in Block /\ listNext[x.head] \in Block \cup {Null}
  BY <1>1, <1>2 DEF Ready, ListTypes
<1>4. r \in ListRecord
  BY <1>r, <1>2, <1>3 DEF ListRecord
<1>5. r.pc = "pop" /\ r.head = x.head /\ r.next = listNext[x.head]
  BY <1>r, <1>2 DEF ListRecord
<1>6. ListTypes'
  BY <1>1, <1>2, <1>4, <1>5, ListTypesStay DEF ListTypes
<1>7. Ready(r)
  BY <1>3, <1>5 DEF Ready
<1>8. \A m \in Block : Alike(x, r, m) /\ Untouched(m)
  BY <1>1, <1>5 DEF Alike, Untouched, Gets, Pushes, Publishes, Reads
<1>. QED
  BY <1>1, <1>6, <1>7, <1>8, <1>x, FreeStays

LEMMA FreePopFails ==
  ASSUME FreeListInv, NEW t \in Triple, List!PopFails(t)
  PROVE  FreeListInv'
<1>x. PICK x, i : x = listThread[t] /\ i = List!Idle
  OBVIOUS
<1>r. PICK r : r = [i EXCEPT !.pc = "unref", !.head = listHead, !.node = x.head]
  OBVIOUS
<1>1. /\ x.pc = "pop" /\ listThread' = [listThread EXCEPT ![t] = r]
      /\ UNCHANGED <<poolIndex, listHead, listNext, refs, should, held>>
  BY <1>x, <1>r DEF List!PopFails, List!At, List!Step, List!list, List!counts
<1>2. ListTypes /\ x \in ListRecord /\ Ready(x) /\ i \in ListRecord
  BY <1>x, IdleRecord DEF FreeListInv, ListTypes, ReadyInv
<1>3. x.head \in Block /\ listHead \in Block \cup {Null}
  BY <1>1, <1>2 DEF Ready, ListTypes
<1>4. r \in ListRecord
  BY <1>r, <1>2, <1>3 DEF ListRecord
<1>5. r.pc = "unref" /\ r.node = x.head
  BY <1>r, <1>2 DEF ListRecord
<1>6. ListTypes'
  BY <1>1, <1>2, <1>4, <1>5, ListTypesStay DEF ListTypes
<1>7. Ready(r)
  BY <1>3, <1>5 DEF Ready
<1>8. \A m \in Block : Alike(x, r, m) /\ Untouched(m)
  BY <1>1, <1>5 DEF Alike, Untouched, Gets, Pushes, Publishes, Reads
<1>. QED
  BY <1>1, <1>6, <1>7, <1>8, <1>x, FreeStays

LEMMA FreePush ==
  ASSUME FreeListInv, NEW t \in Triple, List!Push(t)
  PROVE  FreeListInv'
<1>x. PICK x : x = listThread[t]
  OBVIOUS
<1>r. PICK r : r = [x EXCEPT !.pc = "link", !.seen = listHead]
  OBVIOUS
<1>1. /\ x.pc = "push" /\ listThread' = [listThread EXCEPT ![t] = r]
      /\ UNCHANGED <<poolIndex, listHead, listNext, refs, should, held>>
  BY <1>x, <1>r DEF List!Push, List!At, List!Step, List!list, List!counts
<1>2. ListTypes /\ x \in ListRecord /\ Ready(x)
  BY <1>x DEF FreeListInv, ListTypes, ReadyInv
<1>3. x.node \in Block /\ listHead \in Block \cup {Null}
  BY <1>1, <1>2 DEF Ready, ListTypes
<1>4. r \in ListRecord
  BY <1>r, <1>2, <1>3 DEF ListRecord
<1>5. r.pc = "link" /\ r.node = x.node
  BY <1>r, <1>2 DEF ListRecord
<1>6. ListTypes'
  BY <1>1, <1>2, <1>4, <1>5, ListTypesStay DEF ListTypes
<1>7. Ready(r)
  BY <1>3, <1>5 DEF Ready
<1>8. \A m \in Block : Alike(x, r, m) /\ Untouched(m)
  BY <1>1, <1>5 DEF Alike, Untouched, Gets, Pushes, Publishes, Reads
<1>. QED
  BY <1>1, <1>6, <1>7, <1>8, <1>x, FreeStays

LEMMA FreePublishFails ==
  ASSUME FreeListInv, NEW t \in Triple, List!PublishFails(t)
  PROVE  FreeListInv'
<1>x. PICK x : x = listThread[t]
  OBVIOUS
<1>r. PICK r : r = [x EXCEPT !.pc = "withdraw", !.seen = listHead]
  OBVIOUS
<1>1. /\ x.pc = "publish" /\ listThread' = [listThread EXCEPT ![t] = r]
      /\ UNCHANGED <<poolIndex, listHead, listNext, refs, should, held>>
  BY <1>x, <1>r DEF List!PublishFails, List!At, List!Step, List!list, List!counts
<1>2. ListTypes /\ x \in ListRecord /\ Ready(x)
  BY <1>x DEF FreeListInv, ListTypes, ReadyInv
<1>3. x.node \in Block /\ listHead \in Block \cup {Null}
  BY <1>1, <1>2 DEF Ready, ListTypes
<1>4. r \in ListRecord
  BY <1>r, <1>2, <1>3 DEF ListRecord
<1>5. r.pc = "withdraw" /\ r.node = x.node
  BY <1>r, <1>2 DEF ListRecord
<1>6. ListTypes'
  BY <1>1, <1>2, <1>4, <1>5, ListTypesStay DEF ListTypes
<1>7. Ready(r)
  BY <1>3, <1>5 DEF Ready
<1>8. \A m \in Block : Alike(x, r, m) /\ Untouched(m)
  BY <1>1, <1>5 DEF Alike, Untouched, Gets, Pushes, Publishes, Reads
<1>. QED
  BY <1>1, <1>6, <1>7, <1>8, <1>x, FreeStays

\* A block that a step of t moves to another place, or whose count it changes.
LEMMA BlockMoves ==
  ASSUME ListTypes, NEW t \in Triple, NEW r,
         listThread' = [listThread EXCEPT ![t] = r],
         NEW n \in Block, NEW w, NEW b, BlockAt(n, w, b), NEW v, NEW a,
         \/ w = v /\ b = a
         \/ (w \in Owned => b = t) /\ (v \in Owned => a = t),
         \A u \in Triple \ {t} : n \in held'[u] <=> n \in held[u],
         n \in held'[t] <=> v = "held" /\ a = t,
         Gets(r, n) <=> v = "got" /\ a = t,
         Pushes(r, n) <=> v = "push" /\ a = t,
         Publishes(r, n) <=> v = "publish" /\ a = t,
         n >= poolIndex' <=> v = "pool",
         refs'[n] = Cardinality(Readers(n))' + Weight(v),
         should'[n] <=> v \in {"push", "left"},
         v = "push" => refs'[n] = 0,
         v = "left" => refs'[n] # 0
  PROVE  BlockAt(n, v, a)'
<1>1. /\ listThread'[t] = r
      /\ \A u \in Triple \ {t} : listThread'[u] = listThread[u]
  BY DEF ListTypes
<1>2. \A u \in Triple \ {t} :
        /\ w = "held" /\ b = u <=> v = "held" /\ a = u
        /\ w = "got" /\ b = u <=> v = "got" /\ a = u
        /\ w = "push" /\ b = u <=> v = "push" /\ a = u
        /\ w = "publish" /\ b = u <=> v = "publish" /\ a = u
  BY DEF Owned
<1>3. \A u \in Triple :
        /\ n \in held'[u] <=> v = "held" /\ a = u
        /\ Gets(listThread'[u], n) <=> v = "got" /\ a = u
        /\ Pushes(listThread'[u], n) <=> v = "push" /\ a = u
        /\ Publishes(listThread'[u], n) <=> v = "publish" /\ a = u
  BY <1>1, <1>2 DEF BlockAt
<1>4. \A u \in Triple :
        /\ (n \in held[u])' <=> v = "held" /\ a = u
        /\ Gets(listThread[u], n)' <=> v = "got" /\ a = u
        /\ Pushes(listThread[u], n)' <=> v = "push" /\ a = u
        /\ Publishes(listThread[u], n)' <=> v = "publish" /\ a = u
  BY <1>3 DEF Gets, Pushes, Publishes
<1>. QED
  BY <1>4 DEF BlockAt

\* The threads with a reference to a block, after a step of t.
LEMMA ReadersChange ==
  ASSUME ListTypes, NEW t \in Triple, NEW r,
         listThread' = [listThread EXCEPT ![t] = r], NEW n
  PROVE  /\ (Reads(listThread[t], n) <=> Reads(r, n)) =>
              Cardinality(Readers(n))' = Cardinality(Readers(n))
         /\ ~Reads(listThread[t], n) /\ Reads(r, n) =>
              Cardinality(Readers(n))' = Cardinality(Readers(n)) + 1
         /\ Reads(listThread[t], n) /\ ~Reads(r, n) =>
              Cardinality(Readers(n))' = Cardinality(Readers(n)) - 1
         /\ Reads(listThread[t], n) => Cardinality(Readers(n)) # 0
         /\ Cardinality(Readers(n)) \in Nat
<1>1. /\ listThread'[t] = r
      /\ \A u \in Triple \ {t} : listThread'[u] = listThread[u]
  BY DEF ListTypes
<1>2. \A u \in Triple : u \in Readers(n)' <=> Reads(listThread'[u], n)
  BY DEF Readers, Reads
<1>3. Readers(n)' \subseteq Triple /\ Readers(n) \subseteq Triple
  BY DEF Readers
<1>4. \A u \in Triple \ {t} : u \in Readers(n)' <=> u \in Readers(n)
  BY <1>1, <1>2 DEF Readers
<1>5. /\ t \in Readers(n) <=> Reads(listThread[t], n)
      /\ t \in Readers(n)' <=> Reads(r, n)
  BY <1>1, <1>2 DEF Readers
<1>6. Cardinality(Readers(n))' = Cardinality(Readers(n)')
  OBVIOUS
<1>7. IsFiniteSet(Readers(n)) /\ Cardinality(Readers(n)) \in Nat
  BY ReadersFinite
<1>8. (Reads(listThread[t], n) <=> Reads(r, n)) =>
        Cardinality(Readers(n))' = Cardinality(Readers(n))
  <2>. SUFFICES ASSUME Reads(listThread[t], n) <=> Reads(r, n)
                PROVE  Readers(n)' = Readers(n)
    BY <1>6
  <2>. QED
    BY <1>3, <1>4, <1>5
<1>9. ~Reads(listThread[t], n) /\ Reads(r, n) =>
        Cardinality(Readers(n))' = Cardinality(Readers(n)) + 1
  <2>. SUFFICES ASSUME ~Reads(listThread[t], n), Reads(r, n)
                PROVE  Cardinality(Readers(n)') = Cardinality(Readers(n)) + 1
    BY <1>6
  <2>1. Readers(n)' = Readers(n) \cup {t} /\ t \notin Readers(n)
    BY <1>3, <1>4, <1>5
  <2>. QED
    BY <1>7, <2>1, FS_AddElement
<1>10. Reads(listThread[t], n) /\ ~Reads(r, n) =>
         Cardinality(Readers(n))' = Cardinality(Readers(n)) - 1
  <2>. SUFFICES ASSUME Reads(listThread[t], n), ~Reads(r, n)
                PROVE  Cardinality(Readers(n)') = Cardinality(Readers(n)) - 1
    BY <1>6
  <2>1. Readers(n)' = Readers(n) \ {t} /\ t \in Readers(n)
    BY <1>3, <1>4, <1>5
  <2>. QED
    BY <1>7, <2>1, FS_RemoveElement
<1>11. Reads(listThread[t], n) => Cardinality(Readers(n)) # 0
  BY <1>5, <1>7, FS_EmptySet
<1>. QED
  BY <1>7, <1>8, <1>9, <1>10, <1>11

\* Where the blocks are before a step.
LEMMA FreePlaces ==
  ASSUME FreeListInv
  PROVE  \E s \in Seq(Block) :
           \E where \in [Block -> Places] :
             \E by \in [Block -> Triple \cup {Null}] : BlocksPlaced(s, where, by)
BY DEF FreeListInv, BlocksInv

LEMMA BlockPlace ==
  ASSUME FreeListInv, NEW n \in Block
  PROVE  \E w \in Places : \E b \in Triple \cup {Null} : BlockAt(n, w, b)
<1>1. PICK s \in Seq(Block), where \in [Block -> Places],
           by \in [Block -> Triple \cup {Null}] : BlocksPlaced(s, where, by)
  BY FreePlaces
<1>. QED
  BY <1>1 DEF BlocksPlaced

\* A step that leaves the list as it is moves one block.
LEMMA FreeMovesOne ==
  ASSUME FreeListInv, ListTypes', ReadyInv', NEW t \in Triple, NEW r,
         listThread' = [listThread EXCEPT ![t] = r],
         UNCHANGED <<listHead, listNext>>, NEW n \in Block,
         \A m \in Block \ {n} : Alike(listThread[t], r, m) /\ Untouched(m),
         \A w \in Places : \A b \in Triple \cup {Null} : BlockAt(n, w, b) =>
           \E v \in Places : \E a \in Triple \cup {Null} :
             BlockAt(n, v, a)' /\ (v = "list" <=> w = "list")
  PROVE  FreeListInv'
<1>1. PICK s \in Seq(Block), where \in [Block -> Places],
           by \in [Block -> Triple \cup {Null}] : BlocksPlaced(s, where, by)
  BY FreePlaces
<1>2. PICK w, b : w = where[n] /\ b = by[n]
  OBVIOUS
<1>3. /\ w \in Places /\ b \in Triple \cup {Null} /\ BlockAt(n, w, b)
      /\ Occurs(s, n) <=> w = "list"
  BY <1>1, <1>2 DEF BlocksPlaced
<1>4. PICK v \in Places, a \in Triple \cup {Null} :
        BlockAt(n, v, a)' /\ (v = "list" <=> w = "list")
  BY <1>3
<1>5. Linked(s)'
  BY <1>1 DEF BlocksPlaced, Linked
<1>6. Occurs(s, n) <=> v = "list"
  BY <1>3, <1>4
<1>. QED
  BY <1>1, <1>4, <1>5, <1>6, FreeMoves DEF FreeListInv

LEMMA FreeAddRef ==
  ASSUME FreeListInv, NEW t \in Triple, List!AddRef(t)
  PROVE  FreeListInv'
<1>x. PICK x, n : x = listThread[t] /\ n = x.head
  OBVIOUS
<1>r. PICK r : r = [x EXCEPT !.pc = "next"]
  OBVIOUS
<1>1. /\ x.pc = "ref" /\ refs[n] # 0 /\ refs' = [refs EXCEPT ![n] = @ + 1]
      /\ listThread' = [listThread EXCEPT ![t] = r]
      /\ UNCHANGED <<poolIndex, listHead, listNext, should, held>>
  BY <1>x, <1>r DEF List!AddRef, List!Referenced, List!At, List!Step, List!list
<1>2. ListTypes /\ ReadyInv /\ x \in ListRecord /\ Ready(x)
  BY <1>x DEF FreeListInv, ListTypes, ReadyInv
<1>3. n \in Block
  BY <1>1, <1>2, <1>x DEF Ready
<1>4. r \in ListRecord
  BY <1>r, <1>2 DEF ListRecord
<1>5. r.pc = "next" /\ r.head = n
  BY <1>r, <1>2, <1>x DEF ListRecord
<1>6. /\ refs' \in [Block -> Nat] /\ refs'[n] = refs[n] + 1
      /\ \A m \in Block \ {n} : refs'[m] = refs[m]
  BY <1>1, <1>2, <1>3 DEF ListTypes
<1>7. ListTypes'
  BY <1>1, <1>2, <1>4, <1>5, <1>6, ListTypesStay DEF ListTypes
<1>8. ReadyInv'
  <2>1. Ready(r)
    BY <1>3, <1>5 DEF Ready
  <2>. QED
    BY <1>1, <1>2, <2>1, ReadyStays
<1>9. \A m \in Block \ {n} : Alike(x, r, m) /\ Untouched(m)
  BY <1>1, <1>5, <1>6, <1>x DEF Alike, Untouched, Gets, Pushes, Publishes, Reads
<1>10. /\ ~Reads(x, n) /\ Reads(r, n)
       /\ ~Gets(x, n) /\ ~Pushes(x, n) /\ ~Publishes(x, n)
       /\ ~Gets(r, n) /\ ~Pushes(r, n) /\ ~Publishes(r, n)
  BY <1>1, <1>5 DEF Gets, Pushes, Publishes, Reads
<1>11. /\ Cardinality(Readers(n))' = Cardinality(Readers(n)) + 1
       /\ Cardinality(Readers(n)) \in Nat
  BY <1>1, <1>2, <1>10, <1>x, ReadersChange
<1>12. ASSUME NEW w \in Places, NEW b \in Triple \cup {Null}, BlockAt(n, w, b)
       PROVE  BlockAt(n, w, b)'
  <2>1. /\ refs'[n] = Cardinality(Readers(n))' + Weight(w)
        /\ w # "push" /\ refs'[n] # 0
    BY <1>1, <1>3, <1>6, <1>11, <1>12 DEF BlockAt, Weight
  <2>2. /\ n \in held'[t] <=> w = "held" /\ b = t
        /\ Gets(r, n) <=> w = "got" /\ b = t
        /\ Pushes(r, n) <=> w = "push" /\ b = t
        /\ Publishes(r, n) <=> w = "publish" /\ b = t
        /\ n >= poolIndex' <=> w = "pool"
        /\ should'[n] <=> w \in {"push", "left"}
    BY <1>1, <1>10, <1>12, <1>x DEF BlockAt
  <2>. QED
    BY <1>1, <1>2, <1>3, <1>12, <2>1, <2>2, BlockMoves
<1>. QED
  BY <1>1, <1>3, <1>7, <1>8, <1>9, <1>12, <1>x, FreeMovesOne

LEMMA FreeGot ==
  ASSUME FreeListInv, NEW t \in Triple, List!Got(t)
  PROVE  FreeListInv'
<1>x. PICK x, n : x = listThread[t] /\ n = x.head
  OBVIOUS
<1>r. PICK r : r = List!Idle
  OBVIOUS
<1>1. /\ x.pc = "got" /\ refs' = [refs EXCEPT ![n] = @ - 2]
      /\ held' = [held EXCEPT ![t] = @ \cup {n}]
      /\ listThread' = [listThread EXCEPT ![t] = r]
      /\ UNCHANGED <<poolIndex, listHead, listNext, should>>
  BY <1>x, <1>r DEF List!Got, List!At, List!Step, List!list
<1>2. ListTypes /\ ReadyInv /\ x \in ListRecord /\ Ready(x)
  BY <1>x DEF FreeListInv, ListTypes, ReadyInv
<1>3. n \in Block
  BY <1>1, <1>2, <1>x DEF Ready
<1>4. r \in ListRecord /\ r.pc = "idle"
  BY <1>r, IdleRecord
<1>5. /\ held' \in [Triple -> SUBSET Block] /\ n \in held'[t]
      /\ \A u \in Triple \ {t} : held'[u] = held[u]
      /\ \A m \in Block \ {n} : m \in held'[t] <=> m \in held[t]
  BY <1>1, <1>2, <1>3 DEF ListTypes
<1>6. /\ refs'[n] = refs[n] - 2
      /\ \A m \in Block \ {n} : refs'[m] = refs[m]
  BY <1>1, <1>2, <1>3 DEF ListTypes
<1>7. /\ ~Reads(x, n) /\ ~Reads(r, n) /\ Gets(x, n)
      /\ ~Gets(r, n) /\ ~Pushes(r, n) /\ ~Publishes(r, n)
  BY <1>1, <1>4, <1>x DEF Gets, Pushes, Publishes, Reads
<1>8. /\ Cardinality(Readers(n))' = Cardinality(Readers(n))
      /\ Cardinality(Readers(n)) \in Nat
  BY <1>1, <1>2, <1>7, <1>x, ReadersChange
<1>9. ASSUME NEW w, NEW b, BlockAt(n, w, b)
      PROVE  /\ w = "got" /\ b = t
             /\ refs[n] = Cardinality(Readers(n)) + 2 /\ ~should[n]
             /\ ~(n >= poolIndex)
  <2>1. w = "got" /\ b = t
    BY <1>7, <1>9, <1>x DEF BlockAt
  <2>. QED
    BY <1>9, <2>1 DEF BlockAt, Weight
<1>10. PICK w \in Places, b \in Triple \cup {Null} : BlockAt(n, w, b)
  BY <1>3, BlockPlace
<1>11. refs' \in [Block -> Nat]
  <2>1. refs[n] - 2 \in Nat
    BY <1>8, <1>9, <1>10
  <2>. QED
    BY <1>1, <1>2, <1>3, <2>1 DEF ListTypes
<1>12. ListTypes'
  BY <1>1, <1>2, <1>4, <1>5, <1>11, ListTypesStay DEF ListTypes
<1>13. ReadyInv'
  <2>1. Ready(r)
    BY <1>4 DEF Ready
  <2>. QED
    BY <1>1, <1>2, <2>1, ReadyStays
<1>14. \A m \in Block \ {n} : Alike(x, r, m) /\ Untouched(m)
  BY <1>1, <1>4, <1>5, <1>6, <1>x
  DEF Alike, Untouched, Gets, Pushes, Publishes, Reads
<1>15. ASSUME NEW u \in Places, NEW c \in Triple \cup {Null}, BlockAt(n, u, c)
       PROVE  BlockAt(n, "held", t)' /\ u # "list"
  <2>1. u = "got" /\ c = t
    BY <1>9, <1>15
  <2>2. refs'[n] = Cardinality(Readers(n))' + Weight("held")
    BY <1>6, <1>8, <1>9, <1>15 DEF Weight
  <2>3. ~should'[n] /\ ~(n >= poolIndex')
    BY <1>1, <1>9, <1>15
  <2>4. BlockAt(n, "held", t)'
    BY <1>1, <1>2, <1>3, <1>5, <1>7, <1>15, <2>1, <2>2, <2>3, BlockMoves
  <2>. QED
    BY <2>1, <2>4
<1>16. "held" \in Places /\ t \in Triple \cup {Null} /\ "held" # "list"
  BY DEF Places
<1>17. \A u \in Places : \A c \in Triple \cup {Null} : BlockAt(n, u, c) =>
         \E v \in Places : \E a \in Triple \cup {Null} :
           BlockAt(n, v, a)' /\ (v = "list" <=> u = "list")
  BY <1>15, <1>16
<1>. QED
  <2>1. /\ listThread' = [listThread EXCEPT ![t] = r]
        /\ UNCHANGED <<listHead, listNext>>
    BY <1>1
  <2>2. \A m \in Block \ {n} : Alike(listThread[t], r, m) /\ Untouched(m)
    BY <1>14, <1>x
  <2>. QED
    BY <1>3, <1>12, <1>13, <1>17, <2>1, <2>2, FreeMovesOne

LEMMA FreeUnref ==
  ASSUME FreeListInv, NEW t \in Triple, List!Unref(t)
  PROVE  FreeListInv'
<1>x. PICK x, n : x = listThread[t] /\ n = x.node
  OBVIOUS
<1>p. PICK p : p = [x EXCEPT !.pc = "push"]
  OBVIOUS
<1>1. /\ x.pc = "unref" /\ refs' = [refs EXCEPT ![n] = @ - 1]
      /\ IF refs[n] = 1 /\ should[n] THEN listThread' = [listThread EXCEPT ![t] = p]
         ELSE List!Look(t, x, x.head)
      /\ UNCHANGED <<poolIndex, listHead, listNext, should, held>>
  BY <1>x, <1>p DEF List!Unref, List!LastReference, List!At, List!Step, List!list
<1>2. ListTypes /\ ReadyInv /\ x \in ListRecord /\ Ready(x)
  BY <1>x DEF FreeListInv, ListTypes, ReadyInv
<1>3. n \in Block /\ x.head \in Block \cup {Null}
  <2>1. n \in Block
    BY <1>1, <1>2, <1>x DEF Ready
  <2>2. x.head \in Block \cup {Null}
    BY <1>2 DEF ListRecord
  <2>. QED
    BY <2>1, <2>2
<1>4. /\ p \in ListRecord
      /\ p.pc = "push" /\ p.node = n
  <2>1. p \in ListRecord
    BY <1>2, <1>p DEF ListRecord
  <2>2. p.pc = "push" /\ p.node = n
    BY <1>2, <1>p, <1>x DEF ListRecord
  <2>. QED
    BY <2>1, <2>2
<1>5. /\ Reads(x, n) /\ ~Gets(x, n) /\ ~Pushes(x, n) /\ ~Publishes(x, n)
      /\ \A m \in Block \ {n} : /\ ~Gets(x, m) /\ ~Pushes(x, m)
                                /\ ~Publishes(x, m) /\ ~Reads(x, m)
  BY <1>1, <1>x DEF Gets, Pushes, Publishes, Reads
<1>6. PICK r \in ListRecord :
        /\ listThread' = [listThread EXCEPT ![t] = r]
        /\ \/ refs[n] = 1 /\ should[n] /\ r = p
           \/ /\ ~(refs[n] = 1 /\ should[n])
              /\ r.pc \in {"idle", "ref"} /\ (r.pc = "ref" => r.head \in Block)
  <2>1. CASE refs[n] = 1 /\ should[n]
    BY <1>1, <1>4, <2>1
  <2>2. CASE ~(refs[n] = 1 /\ should[n])
    <3>1. List!Look(t, x, x.head)
      BY <1>1, <2>2
    <3>2. PICK r \in ListRecord :
            /\ listThread' = [listThread EXCEPT ![t] = r]
            /\ r.pc \in {"idle", "ref"} /\ (r.pc = "ref" => r.head \in Block)
      BY <1>2, <1>3, <3>1, LooksAt
    <3>. QED
      BY <2>2, <3>2
  <2>. QED
    BY <2>1, <2>2
<1>7. r.pc \in {"push", "idle", "ref"} /\ Ready(r)
  <2>1. r.pc \in {"push", "idle", "ref"}
    BY <1>4, <1>6
  <2>2. Ready(r)
    BY <1>3, <1>4, <1>6 DEF Ready
  <2>. QED
    BY <2>1, <2>2
<1>8. /\ ~Reads(r, n) /\ ~Gets(r, n) /\ ~Publishes(r, n)
      /\ Pushes(r, n) <=> refs[n] = 1 /\ should[n]
      /\ \A m \in Block \ {n} : /\ ~Gets(r, m) /\ ~Pushes(r, m)
                                /\ ~Publishes(r, m) /\ ~Reads(r, m)
  BY <1>4, <1>6, <1>7 DEF Gets, Pushes, Publishes, Reads
<1>9. /\ Cardinality(Readers(n))' = Cardinality(Readers(n)) - 1
      /\ Cardinality(Readers(n)) \in Nat /\ Cardinality(Readers(n)) # 0
  BY <1>2, <1>5, <1>6, <1>8, <1>x, ReadersChange
<1>10. /\ refs'[n] = refs[n] - 1
       /\ \A m \in Block \ {n} : refs'[m] = refs[m]
  BY <1>1, <1>2, <1>3 DEF ListTypes
<1>11. refs[n] \in Nat /\ refs[n] # 0
  <2>1. PICK w \in Places, b \in Triple \cup {Null} : BlockAt(n, w, b)
    BY <1>3, BlockPlace
  <2>. QED
    BY <1>9, <2>1 DEF BlockAt, Weight
<1>12. refs' \in [Block -> Nat]
  <2>1. refs[n] - 1 \in Nat
    BY <1>11
  <2>. QED
    BY <1>1, <1>2, <1>3, <2>1 DEF ListTypes
<1>13. ListTypes'
  BY <1>1, <1>2, <1>6, <1>7, <1>12, ListTypesStay DEF ListTypes
<1>14. ReadyInv'
  BY <1>1, <1>2, <1>6, <1>7, ReadyStays
<1>15. \A m \in Block \ {n} : Alike(listThread[t], r, m) /\ Untouched(m)
  BY <1>1, <1>5, <1>8, <1>10, <1>x DEF Alike, Untouched
<1>16. ASSUME NEW w \in Places, NEW b \in Triple \cup {Null}, BlockAt(n, w, b)
       PROVE  \E v \in Places : \E a \in Triple \cup {Null} :
                BlockAt(n, v, a)' /\ (v = "list" <=> w = "list")
  <2>1. /\ refs[n] = Cardinality(Readers(n)) + Weight(w) /\ w # "push"
        /\ should[n] <=> w \in {"push", "left"}
        /\ n \in held[t] <=> w = "held" /\ b = t
        /\ n >= poolIndex <=> w = "pool"
        /\ ~(w = "got" /\ b = t) /\ ~(w = "push" /\ b = t)
        /\ ~(w = "publish" /\ b = t)
    BY <1>5, <1>11, <1>16, <1>x DEF BlockAt
  <2>2. refs'[n] = Cardinality(Readers(n))' + Weight(w)
    BY <1>9, <1>10, <2>1 DEF Weight
  <2>3. CASE refs[n] = 1 /\ should[n]
    <3>1. w = "left" /\ "push" \in Places /\ t \in Triple \cup {Null}
      BY <2>1, <2>3 DEF Places
    <3>2. refs'[n] = Cardinality(Readers(n))' + Weight("push") /\ refs'[n] = 0
      BY <1>10, <2>2, <2>3, <3>1 DEF Weight
    <3>3. should'[n] /\ n \notin held'[t] /\ ~(n >= poolIndex')
      BY <1>1, <2>1, <2>3, <3>1
    <3>4. /\ \A u \in Triple \ {t} : n \in held'[u] <=> n \in held[u]
          /\ w \in Owned => b = t
      BY <1>1, <3>1 DEF Owned
    <3>5. Gets(r, n) <=> "push" = "got" /\ t = t
      BY <1>8
    <3>6. Pushes(r, n) <=> "push" = "push" /\ t = t
      BY <1>8, <2>3
    <3>7. Publishes(r, n) <=> "push" = "publish" /\ t = t
      BY <1>8
    <3>8. BlockAt(n, "push", t)'
      BY <1>2, <1>3, <1>6, <1>16, <3>2, <3>3, <3>4, <3>5, <3>6, <3>7, BlockMoves
    <3>. QED
      BY <3>1, <3>8
  <2>4. CASE ~(refs[n] = 1 /\ should[n])
    <3>1. w = "left" => refs'[n] # 0
      BY <1>10, <1>11, <2>1, <2>4
    <3>2. /\ n \in held'[t] <=> w = "held" /\ b = t
          /\ \A u \in Triple \ {t} : n \in held'[u] <=> n \in held[u]
          /\ n >= poolIndex' <=> w = "pool"
          /\ should'[n] <=> w \in {"push", "left"}
      BY <1>1, <2>1
    <3>3. /\ Gets(r, n) <=> w = "got" /\ b = t
          /\ Pushes(r, n) <=> w = "push" /\ b = t
          /\ Publishes(r, n) <=> w = "publish" /\ b = t
      BY <1>8, <2>1, <2>4
    <3>4. BlockAt(n, w, b)'
      BY <1>2, <1>3, <1>6, <1>16, <2>1, <2>2, <3>1, <3>2, <3>3, BlockMoves
    <3>. QED
      BY <1>16, <3>4
  <2>. QED
    BY <2>3, <2>4
<1>17. UNCHANGED <<listHead, listNext>>
  BY <1>1
<1>18. listThread' = [listThread EXCEPT ![t] = r]
  BY <1>6
<1>. QED
  BY <1>3, <1>13, <1>14, <1>15, <1>16, <1>17, <1>18, FreeMovesOne

LEMMA FreeAdd ==
  ASSUME FreeListInv, NEW t \in Triple, NEW n \in Block, List!Add(t, n)
  PROVE  FreeListInv'
<1>x. PICK x, i : x = listThread[t] /\ i = List!Idle
  OBVIOUS
<1>p. PICK p : p = [i EXCEPT !.pc = "push", !.node = n]
  OBVIOUS
<1>r. PICK r : r = IF refs[n] = 0 /\ ~should[n] THEN p ELSE i
  OBVIOUS
<1>1. /\ x.pc = "idle" /\ n \in held[t]
      /\ held' = [held EXCEPT ![t] = @ \ {n}]
      /\ should' = [should EXCEPT ![n] = ~@]
      /\ listThread' = [listThread EXCEPT ![t] = r]
      /\ UNCHANGED <<poolIndex, listHead, listNext, refs>>
  BY <1>x, <1>p, <1>r DEF List!Add, List!At, List!Step, List!list
<1>2. ListTypes /\ ReadyInv /\ x \in ListRecord
  BY <1>x DEF FreeListInv, ListTypes
<1>i. i \in ListRecord /\ i.pc = "idle"
  BY <1>x, IdleRecord
<1>3. /\ p \in ListRecord
      /\ p.pc = "push" /\ p.node = n
  <2>1. p \in ListRecord
    BY <1>i, <1>p DEF ListRecord
  <2>2. p.pc = "push" /\ p.node = n
    BY <1>i, <1>p DEF ListRecord
  <2>. QED
    BY <2>1, <2>2
<1>4. ASSUME NEW w, NEW b, BlockAt(n, w, b)
      PROVE  /\ w = "held" /\ b = t
             /\ refs[n] = Cardinality(Readers(n)) /\ ~should[n]
             /\ ~(n >= poolIndex)
  <2>1. w = "held" /\ b = t
    BY <1>1, <1>4 DEF BlockAt
  <2>. QED
    BY <1>4, <2>1, ReadersFinite DEF BlockAt, Weight
<1>5. PICK w \in Places, b \in Triple \cup {Null} : BlockAt(n, w, b)
  BY BlockPlace
<1>6. /\ r \in ListRecord /\ r.pc \in {"push", "idle"} /\ Ready(r)
      /\ refs[n] = 0 => r = p
      /\ refs[n] # 0 => r = i
  <2>1. r \in ListRecord /\ r.pc \in {"push", "idle"}
    BY <1>i, <1>3, <1>r
  <2>2. refs[n] = 0 => r = p
    BY <1>4, <1>5, <1>r
  <2>3. refs[n] # 0 => r = i
    BY <1>r
  <2>4. Ready(r)
    BY <1>i, <1>3, <1>r DEF Ready
  <2>. QED
    BY <2>1, <2>2, <2>3, <2>4
<1>7. /\ held' \in [Triple -> SUBSET Block] /\ n \notin held'[t]
      /\ \A u \in Triple \ {t} : held'[u] = held[u]
      /\ \A m \in Block \ {n} : m \in held'[t] <=> m \in held[t]
  BY <1>1, <1>2 DEF ListTypes
<1>8. /\ should' \in [Block -> BOOLEAN] /\ should'[n]
      /\ \A m \in Block \ {n} : should'[m] = should[m]
  <2>1. ~should[n]
    BY <1>4, <1>5
  <2>. QED
    BY <1>1, <1>2, <2>1 DEF ListTypes
<1>9. /\ ~Reads(x, n) /\ ~Reads(r, n) /\ ~Gets(r, n) /\ ~Publishes(r, n)
      /\ Pushes(r, n) <=> refs[n] = 0
  BY <1>i, <1>1, <1>3, <1>6 DEF Gets, Pushes, Publishes, Reads
<1>10. Cardinality(Readers(n))' = Cardinality(Readers(n))
  BY <1>1, <1>2, <1>9, <1>x, ReadersChange
<1>11. ListTypes'
  BY <1>1, <1>2, <1>6, <1>7, <1>8, ListTypesStay DEF ListTypes
<1>12. ReadyInv'
  BY <1>1, <1>2, <1>6, ReadyStays
<1>13. \A m \in Block \ {n} : Alike(listThread[t], r, m) /\ Untouched(m)
  <2>1. \A m \in Block \ {n} : Alike(x, r, m)
    BY <1>i, <1>1, <1>3, <1>6 DEF Alike, Gets, Pushes, Publishes, Reads
  <2>. QED
    BY <1>1, <1>7, <1>8, <1>x, <2>1 DEF Untouched
<1>14. ASSUME NEW u \in Places, NEW c \in Triple \cup {Null}, BlockAt(n, u, c)
       PROVE  \E v \in Places : \E a \in Triple \cup {Null} :
                BlockAt(n, v, a)' /\ (v = "list" <=> u = "list")
  <2>1. /\ u = "held" /\ c = t /\ refs[n] = Cardinality(Readers(n))
        /\ ~(n >= poolIndex)
    BY <1>4, <1>14
  <2>2. PICK v : v = IF refs[n] = 0 THEN "push" ELSE "left"
    OBVIOUS
  <2>3. v \in Places /\ v # "list" /\ t \in Triple \cup {Null}
    BY <2>2 DEF Places
  <2>4. /\ refs'[n] = Cardinality(Readers(n))' + Weight(v)
        /\ v = "push" => refs'[n] = 0
        /\ v = "left" => refs'[n] # 0
    BY <1>1, <1>10, <2>1, <2>2, ReadersFinite DEF Weight
  <2>5. /\ n \in held'[t] <=> v = "held" /\ t = t
        /\ n >= poolIndex' <=> v = "pool"
        /\ should'[n] <=> v \in {"push", "left"}
    BY <1>1, <1>7, <1>8, <2>1, <2>2
  <2>6. /\ Gets(r, n) <=> v = "got" /\ t = t
        /\ Pushes(r, n) <=> v = "push" /\ t = t
        /\ Publishes(r, n) <=> v = "publish" /\ t = t
    BY <1>9, <2>2
  <2>7. \A y \in Triple \ {t} : n \in held'[y] <=> n \in held[y]
    BY <1>7
  <2>8. BlockAt(n, v, t)'
    BY <1>1, <1>2, <1>14, <2>1, <2>4, <2>5, <2>6, <2>7, BlockMoves
  <2>. QED
    BY <2>1, <2>3, <2>8
<1>15. listThread' = [listThread EXCEPT ![t] = r] /\ UNCHANGED <<listHead, listNext>>
  BY <1>1
<1>. QED
  BY <1>11, <1>12, <1>13, <1>14, <1>15, FreeMovesOne

\* next of a block that is on no list and that no thread refers to changes.
LEMMA FreeLink ==
  ASSUME FreeListInv, NEW t \in Triple, List!Link(t)
  PROVE  FreeListInv'
<1>x. PICK x, n : x = listThread[t] /\ n = x.node
  OBVIOUS
<1>r. PICK r : r = [x EXCEPT !.pc = "count"]
  OBVIOUS
<1>1. /\ x.pc = "link" /\ listNext' = [listNext EXCEPT ![n] = x.seen]
      /\ listThread' = [listThread EXCEPT ![t] = r]
      /\ UNCHANGED <<poolIndex, listHead, refs, should, held>>
  BY <1>x, <1>r DEF List!Link, List!At, List!Step, List!counts
<1>2. ListTypes /\ ReadyInv /\ x \in ListRecord /\ Ready(x)
  BY <1>x DEF FreeListInv, ListTypes, ReadyInv
<1>3. n \in Block /\ x.seen \in Block \cup {Null}
  <2>1. n \in Block
    BY <1>1, <1>2, <1>x DEF Ready
  <2>2. x.seen \in Block \cup {Null}
    BY <1>2 DEF ListRecord
  <2>. QED
    BY <2>1, <2>2
<1>4. r \in ListRecord /\ r.pc = "count" /\ r.node = n /\ r.seen = x.seen
  <2>1. r \in ListRecord
    BY <1>2, <1>r DEF ListRecord
  <2>2. r.pc = "count" /\ r.node = n /\ r.seen = x.seen
    BY <1>2, <1>r, <1>x DEF ListRecord
  <2>. QED
    BY <2>1, <2>2
<1>5. /\ listNext' \in [Block -> Block \cup {Null}] /\ listNext'[n] = x.seen
      /\ \A m \in Block \ {n} : listNext'[m] = listNext[m]
  BY <1>1, <1>2, <1>3 DEF ListTypes
<1>6. ListTypes'
  BY <1>1, <1>2, <1>4, <1>5, ListTypesStay DEF ListTypes
<1>7. \A m \in Block : Alike(x, r, m) /\ Untouched(m)
  BY <1>1, <1>4, <1>x DEF Alike, Untouched, Gets, Pushes, Publishes, Reads
<1>8. PICK s \in Seq(Block), where \in [Block -> Places],
           by \in [Block -> Triple \cup {Null}] : BlocksPlaced(s, where, by)
  BY FreePlaces
<1>9. PICK w, b : w = where[n] /\ b = by[n]
  OBVIOUS
<1>10. BlockAt(n, w, b) /\ w = "push" /\ b = t /\ refs[n] = 0
  <2>1. BlockAt(n, w, b)
    BY <1>3, <1>8, <1>9 DEF BlocksPlaced
  <2>2. Pushes(x, n)
    BY <1>1, <1>x DEF Pushes
  <2>3. w = "push" /\ b = t
    BY <1>x, <2>1, <2>2 DEF BlockAt
  <2>. QED
    BY <2>1, <2>3 DEF BlockAt
<1>11. \A u \in Triple : ~Reads(listThread[u], n)
  <2>1. Cardinality(Readers(n)) = 0
    BY <1>10, ReadersFinite DEF BlockAt, Weight
  <2>2. Readers(n) = {}
    BY <2>1, ReadersFinite, FS_EmptySet
  <2>. QED
    BY <2>2 DEF Readers
<1>12. \A u \in Triple \ {t} :
         ~Pushes(listThread[u], n) /\ ~Publishes(listThread[u], n)
  BY <1>10 DEF BlockAt
<1>13. ReadyInv'
  <2>1. /\ listThread'[t] = r
        /\ \A u \in Triple \ {t} : listThread'[u] = listThread[u]
    BY <1>1, <1>2 DEF ListTypes
  <2>2. ASSUME NEW u \in Triple
        PROVE  Ready(listThread[u])'
    <3>1. PICK y : y = listThread'[u]
      OBVIOUS
    <3>2. CASE u = t
      <4>1. y = r
        BY <2>1, <3>1, <3>2
      <4>2. Ready(y)'
        BY <1>3, <1>4, <1>5, <4>1 DEF Ready
      <4>. QED
        BY <3>1, <4>2
    <3>3. CASE u # t
      <4>1. /\ y = listThread[u] /\ Ready(y)
            /\ ~Reads(y, n) /\ ~Pushes(y, n) /\ ~Publishes(y, n)
        BY <1>2, <1>11, <1>12, <2>1, <3>1, <3>3 DEF ReadyInv
      <4>2. /\ y.pc = "pop" => y.head # n
            /\ y.pc \in {"count", "publish"} => y.node # n
        BY <4>1 DEF Reads, Pushes, Publishes
      <4>3. Ready(y)'
        BY <1>5, <4>1, <4>2 DEF Ready
      <4>. QED
        BY <3>1, <4>3
    <3>. QED
      BY <3>2, <3>3
  <2>. QED
    BY <2>2 DEF ReadyInv
<1>14. Linked(s)' /\ ~Occurs(s, n)
  <2>1. ~Occurs(s, n) /\ Linked(s)
    BY <1>3, <1>8, <1>9, <1>10 DEF BlocksPlaced
  <2>2. \A i \in 1..Len(s) : s[i] \in Block \ {n}
    BY <1>8, <2>1 DEF Occurs
  <2>. QED
    BY <1>1, <1>5, <2>1, <2>2 DEF Linked
<1>15. BlockAt(n, w, b)'
  BY <1>1, <1>2, <1>3, <1>7, <1>10, <1>x, BlockSame
<1>16. w \in Places /\ b \in Triple \cup {Null} /\ w # "list"
  BY <1>3, <1>8, <1>9, <1>10
<1>17. /\ listThread' = [listThread EXCEPT ![t] = r]
       /\ \A m \in Block \ {n} : Alike(listThread[t], r, m) /\ Untouched(m)
  BY <1>1, <1>7, <1>x
<1>. QED
  BY <1>2, <1>3, <1>6, <1>8, <1>13, <1>14, <1>15, <1>16, <1>17, FreeMoves

LEMMA FreeSetCount ==
  ASSUME FreeListInv, NEW t \in Triple, List!SetCount(t)
  PROVE  FreeListInv'
<1>x. PICK x, n : x = listThread[t] /\ n = x.node
  OBVIOUS
<1>r. PICK r : r = [x EXCEPT !.pc = "publish"]
  OBVIOUS
<1>1. /\ x.pc = "count" /\ refs' = [refs EXCEPT ![n] = 1]
      /\ should' = [should EXCEPT ![n] = FALSE]
      /\ listThread' = [listThread EXCEPT ![t] = r]
      /\ UNCHANGED <<poolIndex, listHead, listNext, held>>
  BY <1>x, <1>r DEF List!SetCount, List!ClearBit, List!At, List!Step, List!list
<1>2. ListTypes /\ ReadyInv /\ x \in ListRecord /\ Ready(x)
  BY <1>x DEF FreeListInv, ListTypes, ReadyInv
<1>3. n \in Block
  BY <1>1, <1>2, <1>x DEF Ready
<1>4. r \in ListRecord /\ r.pc = "publish" /\ r.node = n /\ r.seen = x.seen
  <2>1. r \in ListRecord
    BY <1>2, <1>r DEF ListRecord
  <2>2. r.pc = "publish" /\ r.node = n /\ r.seen = x.seen
    BY <1>2, <1>r, <1>x DEF ListRecord
  <2>. QED
    BY <2>1, <2>2
<1>5. /\ refs' \in [Block -> Nat] /\ refs'[n] = 1
      /\ \A m \in Block \ {n} : refs'[m] = refs[m]
      /\ should' \in [Block -> BOOLEAN] /\ ~should'[n]
      /\ \A m \in Block \ {n} : should'[m] = should[m]
  BY <1>1, <1>2, <1>3 DEF ListTypes
<1>6. ListTypes'
  BY <1>1, <1>2, <1>4, <1>5, ListTypesStay DEF ListTypes
<1>7. ReadyInv'
  <2>1. x.seen = listNext[n]
    BY <1>1, <1>2, <1>x DEF Ready
  <2>2. Ready(r)
    BY <1>3, <1>4, <2>1 DEF Ready
  <2>. QED
    BY <1>1, <1>2, <2>2, ReadyStays
<1>8. \A m \in Block \ {n} : Alike(listThread[t], r, m) /\ Untouched(m)
  BY <1>1, <1>4, <1>5, <1>x
  DEF Alike, Untouched, Gets, Pushes, Publishes, Reads
<1>9. /\ ~Reads(x, n) /\ ~Reads(r, n) /\ Pushes(x, n)
      /\ ~Gets(r, n) /\ ~Pushes(r, n) /\ Publishes(r, n)
  BY <1>1, <1>4, <1>x DEF Gets, Pushes, Publishes, Reads
<1>10. Cardinality(Readers(n))' = Cardinality(Readers(n))
  BY <1>1, <1>2, <1>9, <1>x, ReadersChange
<1>11. "publish" \in Places /\ t \in Triple \cup {Null}
  BY DEF Places
<1>12. ASSUME NEW w \in Places, NEW b \in Triple \cup {Null}, BlockAt(n, w, b)
       PROVE  \E v \in Places : \E a \in Triple \cup {Null} :
                BlockAt(n, v, a)' /\ (v = "list" <=> w = "list")
  <2>1. w = "push" /\ b = t
    BY <1>9, <1>12, <1>x DEF BlockAt
  <2>2. Cardinality(Readers(n)) = 0 /\ n \notin held[t] /\ ~(n >= poolIndex)
    BY <1>12, <2>1, ReadersFinite DEF BlockAt, Weight
  <2>3. refs'[n] = Cardinality(Readers(n))' + Weight("publish")
    BY <1>5, <1>10, <2>2 DEF Weight
  <2>4. n \notin held'[t] /\ ~(n >= poolIndex') /\ held' = held
    BY <1>1, <2>2
  <2>5. BlockAt(n, "publish", t)'
    BY <1>1, <1>2, <1>3, <1>5, <1>9, <1>12, <2>1, <2>3, <2>4, BlockMoves
  <2>. QED
    BY <1>11, <2>1, <2>5
<1>13. listThread' = [listThread EXCEPT ![t] = r] /\ UNCHANGED <<listHead, listNext>>
  BY <1>1
<1>. QED
  BY <1>3, <1>6, <1>7, <1>8, <1>12, <1>13, FreeMovesOne

LEMMA FreeWithdraw ==
  ASSUME FreeListInv, NEW t \in Triple, List!Withdraw(t)
  PROVE  FreeListInv'
<1>x. PICK x, n : x = listThread[t] /\ n = x.node
  OBVIOUS
<1>p. PICK p : p = [x EXCEPT !.pc = "link"]
  OBVIOUS
<1>1. /\ x.pc = "withdraw" /\ refs' = [refs EXCEPT ![n] = @ - 1]
      /\ should' = [should EXCEPT ![n] = ~@]
      /\ IF refs[n] = 1 /\ ~should[n]
         THEN listThread' = [listThread EXCEPT ![t] = p]
         ELSE List!Look(t, x, x.head)
      /\ UNCHANGED <<poolIndex, listHead, listNext, held>>
  BY <1>x, <1>p DEF List!Withdraw, List!Mark, List!Pushed, List!At, List!Step, List!list
<1>2. ListTypes /\ ReadyInv /\ x \in ListRecord /\ Ready(x)
  BY <1>x DEF FreeListInv, ListTypes, ReadyInv
<1>3. n \in Block /\ x.head \in Block \cup {Null}
  <2>1. n \in Block
    BY <1>1, <1>2, <1>x DEF Ready
  <2>2. x.head \in Block \cup {Null}
    BY <1>2 DEF ListRecord
  <2>. QED
    BY <2>1, <2>2
<1>4. p \in ListRecord /\ p.pc = "link" /\ p.node = n
  <2>1. p \in ListRecord
    BY <1>2, <1>p DEF ListRecord
  <2>2. p.pc = "link" /\ p.node = n
    BY <1>2, <1>p, <1>x DEF ListRecord
  <2>. QED
    BY <2>1, <2>2
<1>5. /\ ~Reads(x, n) /\ Publishes(x, n)
      /\ \A m \in Block \ {n} : /\ ~Gets(x, m) /\ ~Pushes(x, m)
                                /\ ~Publishes(x, m) /\ ~Reads(x, m)
  BY <1>1, <1>x DEF Gets, Pushes, Publishes, Reads
<1>6. ASSUME NEW w, NEW b, BlockAt(n, w, b)
      PROVE  /\ w = "publish" /\ b = t /\ ~should[n]
             /\ refs[n] = Cardinality(Readers(n)) + 1
             /\ n \notin held[t] /\ ~(n >= poolIndex)
  <2>1. w = "publish" /\ b = t
    BY <1>5, <1>6, <1>x DEF BlockAt
  <2>. QED
    BY <1>6, <2>1 DEF BlockAt, Weight
<1>7. PICK z \in Places, c \in Triple \cup {Null} : BlockAt(n, z, c)
  BY <1>3, BlockPlace
<1>8. /\ ~should[n] /\ Cardinality(Readers(n)) \in Nat
      /\ refs[n] = Cardinality(Readers(n)) + 1
  BY <1>6, <1>7, ReadersFinite
<1>9. PICK r \in ListRecord :
        /\ listThread' = [listThread EXCEPT ![t] = r]
        /\ \/ refs[n] = 1 /\ r = p
           \/ /\ refs[n] # 1
              /\ r.pc \in {"idle", "ref"} /\ (r.pc = "ref" => r.head \in Block)
  <2>1. CASE refs[n] = 1
    BY <1>1, <1>4, <1>8, <2>1
  <2>2. CASE refs[n] # 1
    <3>1. List!Look(t, x, x.head)
      BY <1>1, <2>2
    <3>2. PICK r \in ListRecord :
            /\ listThread' = [listThread EXCEPT ![t] = r]
            /\ r.pc \in {"idle", "ref"} /\ (r.pc = "ref" => r.head \in Block)
      BY <1>2, <1>3, <3>1, LooksAt
    <3>. QED
      BY <2>2, <3>2
  <2>. QED
    BY <2>1, <2>2
<1>10. r.pc \in {"link", "idle", "ref"} /\ Ready(r)
  <2>1. r.pc \in {"link", "idle", "ref"}
    BY <1>4, <1>9
  <2>2. Ready(r)
    BY <1>3, <1>4, <1>9 DEF Ready
  <2>. QED
    BY <2>1, <2>2
<1>11. /\ ~Reads(r, n) /\ ~Gets(r, n) /\ ~Publishes(r, n)
       /\ Pushes(r, n) <=> refs[n] = 1
       /\ \A m \in Block \ {n} : /\ ~Gets(r, m) /\ ~Pushes(r, m)
                                 /\ ~Publishes(r, m) /\ ~Reads(r, m)
  BY <1>4, <1>9, <1>10 DEF Gets, Pushes, Publishes, Reads
<1>12. listThread' = [listThread EXCEPT ![t] = r]
  BY <1>9
<1>13. Cardinality(Readers(n))' = Cardinality(Readers(n))
  BY <1>2, <1>5, <1>11, <1>12, <1>x, ReadersChange
<1>14. /\ refs' \in [Block -> Nat] /\ refs'[n] = Cardinality(Readers(n))
       /\ \A m \in Block \ {n} : refs'[m] = refs[m]
       /\ should' \in [Block -> BOOLEAN] /\ should'[n]
       /\ \A m \in Block \ {n} : should'[m] = should[m]
  <2>1. refs[n] - 1 = Cardinality(Readers(n))
    BY <1>8
  <2>. QED
    BY <1>1, <1>2, <1>3, <1>8, <2>1 DEF ListTypes
<1>15. ListTypes'
  BY <1>1, <1>2, <1>10, <1>12, <1>14, ListTypesStay DEF ListTypes
<1>16. ReadyInv'
  BY <1>1, <1>2, <1>10, <1>12, ReadyStays
<1>17. \A m \in Block \ {n} : Alike(listThread[t], r, m) /\ Untouched(m)
  BY <1>1, <1>5, <1>11, <1>14, <1>x DEF Alike, Untouched
<1>18. ASSUME NEW w \in Places, NEW b \in Triple \cup {Null}, BlockAt(n, w, b)
       PROVE  \E v \in Places : \E a \in Triple \cup {Null} :
                BlockAt(n, v, a)' /\ (v = "list" <=> w = "list")
  <2>1. w = "publish" /\ b = t /\ n \notin held[t] /\ ~(n >= poolIndex)
    BY <1>6, <1>18
  <2>2. PICK v : v = IF refs[n] = 1 THEN "push" ELSE "left"
    OBVIOUS
  <2>3. v \in Places /\ v # "list" /\ t \in Triple \cup {Null}
    BY <2>2 DEF Places
  <2>4. /\ refs'[n] = Cardinality(Readers(n))' + Weight(v)
        /\ v = "push" => refs'[n] = 0
        /\ v = "left" => refs'[n] # 0
    BY <1>8, <1>13, <1>14, <2>2 DEF Weight
  <2>5. /\ n \in held'[t] <=> v = "held" /\ t = t
        /\ n >= poolIndex' <=> v = "pool"
        /\ should'[n] <=> v \in {"push", "left"}
    BY <1>1, <1>14, <2>1, <2>2
  <2>6. /\ Gets(r, n) <=> v = "got" /\ t = t
        /\ Pushes(r, n) <=> v = "push" /\ t = t
        /\ Publishes(r, n) <=> v = "publish" /\ t = t
    BY <1>11, <2>2
  <2>7. \A y \in Triple \ {t} : n \in held'[y] <=> n \in held[y]
    BY <1>1
  <2>8. BlockAt(n, v, t)'
    BY <1>2, <1>3, <1>12, <1>18, <2>1, <2>4, <2>5, <2>6, <2>7, BlockMoves
  <2>. QED
    BY <2>1, <2>3, <2>8
<1>19. UNCHANGED <<listHead, listNext>>
  BY <1>1
<1>. QED
  BY <1>3, <1>12, <1>15, <1>16, <1>17, <1>18, <1>19, FreeMovesOne

\* The first block leaves the list.
LEMMA FreePop ==
  ASSUME FreeListInv, NEW t \in Triple, List!Pop(t)
  PROVE  FreeListInv'
<1>x. PICK x, n : x = listThread[t] /\ n = x.head
  OBVIOUS
<1>r. PICK r : r = [x EXCEPT !.pc = "got", !.next = Null]
  OBVIOUS
<1>1. /\ x.pc = "pop" /\ listHead = n /\ listHead' = x.next
      /\ listThread' = [listThread EXCEPT ![t] = r]
      /\ UNCHANGED <<poolIndex, listNext, refs, should, held>>
  BY <1>x, <1>r DEF List!Pop, List!At, List!Step, List!counts
<1>2. ListTypes /\ ReadyInv /\ x \in ListRecord /\ Ready(x)
  BY <1>x DEF FreeListInv, ListTypes, ReadyInv
<1>3. /\ n \in Block /\ n # Null
      /\ x.next = listNext[n] /\ listNext[n] \in Block \cup {Null}
  <2>1. n \in Block /\ x.next = listNext[n]
    BY <1>1, <1>2, <1>x DEF Ready
  <2>. QED
    BY <1>2, <2>1, FreeFacts DEF ListTypes
<1>4. r \in ListRecord /\ r.pc = "got" /\ r.head = n
  <2>1. r \in ListRecord
    BY <1>2, <1>r DEF ListRecord
  <2>2. r.pc = "got" /\ r.head = n
    BY <1>2, <1>r, <1>x DEF ListRecord
  <2>. QED
    BY <2>1, <2>2
<1>5. ListTypes'
  BY <1>1, <1>2, <1>3, <1>4, ListTypesStay DEF ListTypes
<1>6. ReadyInv'
  <2>1. Ready(r)
    BY <1>3, <1>4 DEF Ready
  <2>. QED
    BY <1>1, <1>2, <2>1, ReadyStays
<1>7. \A m \in Block \ {n} : Alike(listThread[t], r, m) /\ Untouched(m)
  BY <1>1, <1>4, <1>x DEF Alike, Untouched, Gets, Pushes, Publishes, Reads
<1>8. /\ Reads(x, n) /\ ~Reads(r, n)
      /\ Gets(r, n) /\ ~Pushes(r, n) /\ ~Publishes(r, n)
  BY <1>1, <1>4, <1>x DEF Gets, Pushes, Publishes, Reads
<1>9. /\ Cardinality(Readers(n))' = Cardinality(Readers(n)) - 1
      /\ Cardinality(Readers(n)) \in Nat
  BY <1>1, <1>2, <1>8, <1>x, ReadersChange
<1>10. PICK s \in Seq(Block), where \in [Block -> Places],
            by \in [Block -> Triple \cup {Null}] : BlocksPlaced(s, where, by)
  BY FreePlaces
<1>11. PICK w, b : w = where[n] /\ b = by[n]
  OBVIOUS
<1>12. s # <<>> /\ s[1] = n
  BY <1>1, <1>3, <1>10 DEF BlocksPlaced, Linked
<1>13. BlockAt(n, w, b) /\ w = "list"
  <2>1. Occurs(s, n)
    <3>1. 1 \in 1..Len(s)
      BY <1>10, <1>12
    <3>. QED
      BY <1>12, <3>1 DEF Occurs
  <2>. QED
    BY <1>3, <1>10, <1>11, <2>1 DEF BlocksPlaced
<1>14. PICK q : q = Tail(s)
  OBVIOUS
<1>15. /\ q \in Seq(Block) /\ Len(s) \in Nat \ {0} /\ Len(q) = Len(s) - 1
       /\ \A i \in 1..Len(q) : q[i] = s[i+1]
  BY <1>10, <1>12, <1>14
<1>16. \A i, j \in 1..Len(s) : s[i] = s[j] => i = j
  BY <1>10 DEF BlocksPlaced, Linked
<1>17. Linked(q)'
  <2>1. \A i, j \in 1..Len(q) : q[i] = q[j] => i = j
    BY <1>15, <1>16
  <2>2. listHead' = IF q = <<>> THEN Null ELSE q[1]
    <3>1. listHead' = IF 1 = Len(s) THEN Null ELSE s[2]
      <4>1. 1 \in 1..Len(s) /\ Linked(s)
        BY <1>10, <1>15 DEF BlocksPlaced
      <4>2. listNext[s[1]] = IF 1 = Len(s) THEN Null ELSE s[1+1]
        BY <4>1 DEF Linked
      <4>. QED
        BY <1>1, <1>3, <1>12, <4>2
    <3>2. q = <<>> <=> Len(s) = 1
      BY <1>15
    <3>3. q # <<>> => q[1] = s[2]
      BY <1>15
    <3>. QED
      BY <3>1, <3>2, <3>3
  <2>3. ASSUME NEW i \in 1..Len(q)
        PROVE  listNext'[q[i]] = IF i = Len(q) THEN Null ELSE q[i+1]
    <3>1. i + 1 \in 1..Len(s) /\ q[i] = s[i+1]
      BY <1>15
    <3>2. listNext[s[i+1]] = IF i + 1 = Len(s) THEN Null ELSE s[i+1+1]
      BY <1>10, <3>1 DEF BlocksPlaced, Linked
    <3>3. i # Len(q) => q[i+1] = s[i+1+1]
      BY <1>15
    <3>. QED
      BY <1>1, <1>15, <3>1, <3>2, <3>3
  <2>. QED
    BY <2>1, <2>2, <2>3 DEF Linked
<1>18. /\ ~Occurs(q, n)
       /\ \A m \in Block \ {n} : Occurs(q, m) <=> Occurs(s, m)
  <2>1. ~Occurs(q, n)
    BY <1>12, <1>15, <1>16 DEF Occurs
  <2>2. ASSUME NEW m \in Block \ {n}
        PROVE  Occurs(q, m) <=> Occurs(s, m)
    <3>1. ASSUME Occurs(q, m)
          PROVE  Occurs(s, m)
      <4>1. PICK i \in 1..Len(q) : q[i] = m
        BY <3>1 DEF Occurs
      <4>2. i + 1 \in 1..Len(s) /\ s[i+1] = m
        BY <1>15, <4>1
      <4>. QED
        BY <4>2 DEF Occurs
    <3>2. ASSUME Occurs(s, m)
          PROVE  Occurs(q, m)
      <4>1. PICK i \in 1..Len(s) : s[i] = m
        BY <3>2 DEF Occurs
      <4>2. i - 1 \in 1..Len(q) /\ q[i - 1] = m
        BY <1>12, <1>15, <4>1
      <4>. QED
        BY <4>2 DEF Occurs
    <3>. QED
      BY <3>1, <3>2
  <2>. QED
    BY <2>1, <2>2
<1>19. BlockAt(n, "got", t)'
  <2>1. refs'[n] = Cardinality(Readers(n))' + Weight("got")
    BY <1>1, <1>9, <1>13 DEF BlockAt, Weight
  <2>2. n \notin held'[t] /\ ~(n >= poolIndex') /\ held' = held /\ ~should'[n]
    BY <1>1, <1>13 DEF BlockAt
  <2>3. w \notin Owned
    BY <1>13 DEF Owned
  <2>. QED
    BY <1>1, <1>2, <1>3, <1>8, <1>13, <2>1, <2>2, <2>3, BlockMoves
<1>20. "got" \in Places /\ t \in Triple \cup {Null}
  BY DEF Places
<1>21. listThread' = [listThread EXCEPT ![t] = r]
  BY <1>1
<1>. QED
  BY <1>2, <1>3, <1>5, <1>6, <1>7, <1>10, <1>15, <1>17, <1>18, <1>19, <1>20,
     <1>21, FreeMoves

\* A block becomes the first of the list.
LEMMA FreePublish ==
  ASSUME FreeListInv, NEW t \in Triple, List!Publish(t)
  PROVE  FreeListInv'
<1>x. PICK x, n : x = listThread[t] /\ n = x.node
  OBVIOUS
<1>1. /\ x.pc = "publish" /\ listHead = x.seen /\ listHead' = n
      /\ List!Look(t, x, x.head)
      /\ UNCHANGED <<poolIndex, listNext, refs, should, held>>
  BY <1>x DEF List!Publish, List!Pushed, List!At, List!counts
<1>2. ListTypes /\ ReadyInv /\ x \in ListRecord /\ Ready(x)
  BY <1>x DEF FreeListInv, ListTypes, ReadyInv
<1>3. /\ n \in Block /\ x.seen = listNext[n] /\ x.head \in Block \cup {Null}
  <2>1. n \in Block /\ x.seen = listNext[n]
    BY <1>1, <1>2, <1>x DEF Ready
  <2>2. x.head \in Block \cup {Null}
    BY <1>2 DEF ListRecord
  <2>. QED
    BY <2>1, <2>2
<1>4. PICK r \in ListRecord :
        /\ listThread' = [listThread EXCEPT ![t] = r]
        /\ r.pc \in {"idle", "ref"} /\ (r.pc = "ref" => r.head \in Block)
  BY <1>1, <1>2, <1>3, LooksAt
<1>5. ListTypes'
  BY <1>1, <1>2, <1>3, <1>4, ListTypesStay DEF ListTypes
<1>6. ReadyInv'
  <2>1. Ready(r)
    BY <1>4 DEF Ready
  <2>. QED
    BY <1>1, <1>2, <1>4, <2>1, ReadyStays
<1>7. \A m \in Block \ {n} : Alike(listThread[t], r, m) /\ Untouched(m)
  BY <1>1, <1>4, <1>x DEF Alike, Untouched, Gets, Pushes, Publishes, Reads
<1>8. /\ ~Reads(x, n) /\ ~Reads(r, n) /\ Publishes(x, n)
      /\ ~Gets(r, n) /\ ~Pushes(r, n) /\ ~Publishes(r, n)
  BY <1>1, <1>4, <1>x DEF Gets, Pushes, Publishes, Reads
<1>9. listThread' = [listThread EXCEPT ![t] = r]
  BY <1>4
<1>10. Cardinality(Readers(n))' = Cardinality(Readers(n))
  BY <1>2, <1>8, <1>9, <1>x, ReadersChange
<1>11. PICK s \in Seq(Block), where \in [Block -> Places],
            by \in [Block -> Triple \cup {Null}] : BlocksPlaced(s, where, by)
  BY FreePlaces
<1>12. PICK w, b : w = where[n] /\ b = by[n]
  OBVIOUS
<1>13. /\ BlockAt(n, w, b) /\ w = "publish" /\ b = t
       /\ ~Occurs(s, n)
  <2>1. BlockAt(n, w, b)
    BY <1>3, <1>11, <1>12 DEF BlocksPlaced
  <2>2. w = "publish" /\ b = t
    BY <1>8, <1>x, <2>1 DEF BlockAt
  <2>. QED
    BY <1>3, <1>11, <1>12, <2>1, <2>2 DEF BlocksPlaced
<1>14. PICK q : q = <<n>> \o s
  OBVIOUS
<1>15. /\ q \in Seq(Block) /\ q # <<>> /\ Len(s) \in Nat
       /\ Len(q) = Len(s) + 1 /\ q[1] = n
       /\ \A i \in 1..Len(s) : q[i+1] = s[i]
  BY <1>3, <1>11, <1>14
<1>16. \A i \in 1..Len(q) : i = 1 \/ (i - 1 \in 1..Len(s) /\ q[i] = s[i-1])
  BY <1>15
<1>17. Linked(q)'
  <2>0. Linked(s)
    BY <1>11 DEF BlocksPlaced
  <2>1. \A i, j \in 1..Len(q) : q[i] = q[j] => i = j
    <3>1. \A i \in 1..Len(s) : s[i] # n
      BY <1>13 DEF Occurs
    <3>2. \A i, j \in 1..Len(s) : s[i] = s[j] => i = j
      BY <2>0 DEF Linked
    <3>3. \A i \in 1..Len(q) : i # 1 => i - 1 \in 1..Len(s) /\ q[i] # n
      BY <1>16, <3>1
    <3>4. ASSUME NEW i \in 1..Len(q), NEW j \in 1..Len(q), q[i] = q[j],
                 i # 1, j # 1
          PROVE  i = j
      <4>1. /\ i - 1 \in 1..Len(s) /\ q[i] = s[i-1]
            /\ j - 1 \in 1..Len(s) /\ q[j] = s[j-1]
        BY <1>16, <3>4
      <4>2. i - 1 = j - 1
        BY <3>2, <3>4, <4>1
      <4>. QED
        BY <4>2
    <3>. QED
      BY <1>15, <3>3, <3>4
  <2>2. ASSUME NEW i \in 1..Len(q)
        PROVE  listNext'[q[i]] = IF i = Len(q) THEN Null ELSE q[i+1]
    <3>1. CASE i = 1
      <4>1. listNext[n] = IF s = <<>> THEN Null ELSE s[1]
        BY <1>1, <1>3, <2>0 DEF Linked
      <4>2. s = <<>> <=> Len(q) = 1
        BY <1>11, <1>15
      <4>3. Len(q) # 1 => q[2] = s[1]
        BY <1>15
      <4>. QED
        BY <1>1, <1>15, <3>1, <4>1, <4>2, <4>3
    <3>2. CASE i # 1
      <4>1. i - 1 \in 1..Len(s) /\ q[i] = s[i-1]
        BY <1>16, <3>2
      <4>2. PICK j : j = i - 1
        OBVIOUS
      <4>3. listNext[s[j]] = IF j = Len(s) THEN Null ELSE s[j+1]
        BY <2>0, <4>1, <4>2 DEF Linked
      <4>4. j # Len(s) => q[j+1+1] = s[j+1]
        BY <1>15, <4>1, <4>2
      <4>. QED
        BY <1>1, <1>15, <4>1, <4>2, <4>3, <4>4
    <3>. QED
      BY <3>1, <3>2
  <2>3. listHead' = IF q = <<>> THEN Null ELSE q[1]
    BY <1>1, <1>15
  <2>. QED
    BY <2>1, <2>2, <2>3 DEF Linked
<1>18. /\ Occurs(q, n)
       /\ \A m \in Block \ {n} : Occurs(q, m) <=> Occurs(s, m)
  <2>1. Occurs(q, n)
    <3>1. 1 \in 1..Len(q)
      BY <1>15
    <3>. QED
      BY <1>15, <3>1 DEF Occurs
  <2>2. ASSUME NEW m \in Block \ {n}
        PROVE  Occurs(q, m) <=> Occurs(s, m)
    <3>1. ASSUME Occurs(q, m)
          PROVE  Occurs(s, m)
      <4>1. PICK i \in 1..Len(q) : q[i] = m
        BY <3>1 DEF Occurs
      <4>2. i - 1 \in 1..Len(s) /\ s[i-1] = m
        BY <1>15, <1>16, <4>1
      <4>. QED
        BY <4>2 DEF Occurs
    <3>2. ASSUME Occurs(s, m)
          PROVE  Occurs(q, m)
      <4>1. PICK i \in 1..Len(s) : s[i] = m
        BY <3>2 DEF Occurs
      <4>2. i + 1 \in 1..Len(q) /\ q[i+1] = m
        BY <1>15, <4>1
      <4>. QED
        BY <4>2 DEF Occurs
    <3>. QED
      BY <3>1, <3>2
  <2>. QED
    BY <2>1, <2>2
<1>19. BlockAt(n, "list", Null)'
  <2>1. refs'[n] = Cardinality(Readers(n))' + Weight("list")
    BY <1>1, <1>10, <1>13 DEF BlockAt, Weight
  <2>2. n \notin held'[t] /\ ~(n >= poolIndex') /\ held' = held /\ ~should'[n]
    BY <1>1, <1>13 DEF BlockAt
  <2>3. "list" \notin Owned
    BY DEF Owned
  <2>. QED
    BY <1>2, <1>3, <1>8, <1>9, <1>13, <2>1, <2>2, <2>3, BlockMoves
<1>20. "list" \in Places /\ Null \in Triple \cup {Null}
  BY DEF Places
<1>. QED
  BY <1>2, <1>3, <1>5, <1>6, <1>7, <1>9, <1>11, <1>15, <1>17, <1>18, <1>19,
     <1>20, FreeMoves

LEMMA FreeInit == List!Init => FreeListInv
<1>. SUFFICES ASSUME List!Init
              PROVE  FreeListInv
  OBVIOUS
<1>i. PICK i : i = List!Idle
  OBVIOUS
<1>0. i \in ListRecord /\ i.pc = "idle"
  BY <1>i, IdleRecord
<1>1. /\ poolIndex = 0 /\ listHead = Null
      /\ listNext = [n \in Block |-> Null]
      /\ refs = [n \in Block |-> 0] /\ should = [n \in Block |-> FALSE]
      /\ held = [t \in Triple |-> {}] /\ listThread = [t \in Triple |-> i]
  BY <1>i, FreeFacts DEF List!Init
<1>2. ListTypes
  <2>1. Taking = {}
    BY <1>0, <1>1 DEF Taking
  <2>2. /\ Cardinality(Taking) = 0 /\ Cardinality(Triple) \in Nat
    BY <2>1, FreeFacts, FS_EmptySet, FS_CardinalityType
  <2>3. poolIndex + Cardinality(Taking) <= PoolBlocks + Cardinality(Triple)
    BY <1>1, <2>2, FreeFacts
  <2>. QED
    BY <1>0, <1>1, <2>3 DEF ListTypes
<1>3. ReadyInv
  BY <1>0, <1>1 DEF ReadyInv, Ready
<1>4. ASSUME NEW n \in Block
      PROVE  BlockAt(n, "pool", Null)
  <2>1. Readers(n) = {}
    BY <1>0, <1>1 DEF Readers, Reads
  <2>2. refs[n] = Cardinality(Readers(n)) + Weight("pool")
    BY <1>1, <2>1, FS_EmptySet DEF Weight
  <2>3. \A t \in Triple :
          /\ n \notin held[t] /\ ~Gets(listThread[t], n)
          /\ ~Pushes(listThread[t], n) /\ ~Publishes(listThread[t], n)
    BY <1>0, <1>1 DEF Gets, Pushes, Publishes
  <2>4. n >= poolIndex
    BY <1>1 DEF Block
  <2>. QED
    BY <1>1, <2>2, <2>3, <2>4 DEF BlockAt, Owned
<1>5. PICK s, where, by : /\ s = <<>> /\ where = [n \in Block |-> "pool"]
                          /\ by = [n \in Block |-> Null]
  OBVIOUS
<1>6. /\ s \in Seq(Block) /\ Len(s) = 0
      /\ where \in [Block -> Places] /\ by \in [Block -> Triple \cup {Null}]
      /\ \A n \in Block : where[n] = "pool" /\ by[n] = Null
  BY <1>5 DEF Places
<1>7. Linked(s) /\ \A n \in Block : ~Occurs(s, n)
  BY <1>1, <1>5, <1>6 DEF Linked, Occurs
<1>8. BlocksPlaced(s, where, by)
  BY <1>4, <1>6, <1>7 DEF BlocksPlaced
<1>9. BlocksInv
  BY <1>6, <1>8 DEF BlocksInv
<1>. QED
  BY <1>2, <1>3, <1>9 DEF FreeListInv

LEMMA FreeSame ==
  ASSUME FreeListInv, UNCHANGED listVars
  PROVE  FreeListInv'
<1>1. UNCHANGED <<poolIndex, listHead, listNext, refs, should, held, listThread>>
  BY DEF listVars
<1>2. ListTypes'
  BY <1>1 DEF FreeListInv, ListTypes, Taking
<1>3. ReadyInv'
  BY <1>1 DEF FreeListInv, ReadyInv, Ready
<1>4. BlocksInv' = BlocksInv
  BY <1>1 DEF BlocksInv, BlocksPlaced, Linked, BlockAt, Readers, Gets, Pushes,
              Publishes, Reads
<1>. QED
  BY <1>2, <1>3, <1>4 DEF FreeListInv

LEMMA FreeStepInv ==
  ASSUME FreeListInv, [PartNext]_<<part, listVars, hashVars, exitVars, scanVars>>
  PROVE  FreeListInv'
<1>1. CASE UNCHANGED listVars
  BY <1>1, FreeSame
<1>2. CASE List!Next
  <2>1. PICK t \in Triple : List!Get(t) \/ List!Return(t)
    BY <1>2 DEF List!Next
  <2>2. CASE List!Get(t)
    BY <2>2, FreeTakeFromPool, FreeFetchIndex, FreePoolEmpty, FreeLooks,
       FreeAddRef, FreeLoadNext, FreePop, FreePopFails, FreeGot, FreeUnref
       DEF List!Get
  <2>3. CASE List!Return(t)
    BY <2>3, FreeFacts, FreeAdd, FreePush, FreeLink, FreeSetCount, FreePublish,
       FreePublishFails, FreeWithdraw DEF List!Return
  <2>. QED
    BY <2>1, <2>2, <2>3
<1>. QED
  BY <1>1, <1>2 DEF PartNext, ListStep, HashStep, ExitStep, ScanStep

\* The list has no more blocks than there are.
LEMMA LinkedShort ==
  ASSUME NEW s \in Seq(Block), Linked(s)
  PROVE  Len(s) <= PoolBlocks
<1>1. s \in Injection(1..Len(s), Block)
  BY DEF Linked, Injection, IsInjective
<1>2. IsFiniteSet(Block) /\ Cardinality(Block) = PoolBlocks
  BY FreeFacts, FS_Interval DEF Block
<1>3. Cardinality(1..Len(s)) <= PoolBlocks
  BY <1>1, <1>2, FS_Injection
<1>4. Cardinality(1..Len(s)) = Len(s)
  <2>1. PICK n \in Nat : n = Len(s)
    OBVIOUS
  <2>2. Cardinality(1..n) = IF 1 > n THEN 0 ELSE n - 1 + 1
    BY FS_Interval
  <2>. QED
    BY <2>1, <2>2
<1>. QED
  BY <1>3, <1>4

\* Following next from the head of the list meets its blocks, then null.
LEMMA WalkIs ==
  ASSUME NEW s \in Seq(Block), Linked(s)
  PROVE  /\ DOMAIN List!Walk = 0..PoolBlocks
         /\ \A k \in 0..PoolBlocks :
              List!Walk[k] = IF k < Len(s) THEN s[k+1] ELSE Null
<1>. DEFINE f == [k \in 0..PoolBlocks |-> IF k < Len(s) THEN s[k+1] ELSE Null]
            Follows(g) ==
              g = [k \in 0..PoolBlocks |->
                     IF k = 0 THEN listHead
                     ELSE IF g[k-1] = Null THEN Null ELSE listNext[g[k-1]]]
<1>1. Len(s) \in Nat /\ PoolBlocks \in Nat /\ Null \notin Block
  BY FreeFacts
<1>2. \A i \in 1..Len(s) : s[i] \in Block
  OBVIOUS
<1>3. \A k \in 0..PoolBlocks :
        f[k] = IF k = 0 THEN listHead
               ELSE IF f[k-1] = Null THEN Null ELSE listNext[f[k-1]]
  <2>. SUFFICES ASSUME NEW k \in 0..PoolBlocks
                PROVE  f[k] = IF k = 0 THEN listHead
                              ELSE IF f[k-1] = Null THEN Null
                                   ELSE listNext[f[k-1]]
    OBVIOUS
  <2>0. f[k] = IF k < Len(s) THEN s[k+1] ELSE Null
    OBVIOUS
  <2>1. CASE k = 0
    <3>1. s = <<>> <=> Len(s) = 0
      OBVIOUS
    <3>. QED
      BY <1>1, <2>0, <2>1, <3>1 DEF Linked
  <2>2. CASE k # 0
    <3>1. k - 1 \in 0..PoolBlocks
      BY <1>1, <2>2
    <3>2. f[k-1] = IF k - 1 < Len(s) THEN s[k-1+1] ELSE Null
      BY <3>1
    <3>3. s[k-1+1] = s[k]
      BY <1>1
    <3>. HIDE DEF f
    <3>4. CASE k <= Len(s)
      <4>1. k \in 1..Len(s) /\ k - 1 < Len(s)
        BY <1>1, <2>2, <3>4
      <4>2. f[k-1] = s[k] /\ f[k-1] # Null
        BY <1>1, <1>2, <3>2, <3>3, <4>1
      <4>3. listNext[s[k]] = IF k = Len(s) THEN Null ELSE s[k+1]
        BY <4>1 DEF Linked
      <4>4. k < Len(s) <=> k # Len(s)
        BY <1>1, <3>4
      <4>. QED
        BY <2>0, <2>2, <4>2, <4>3, <4>4
    <3>5. CASE ~(k <= Len(s))
      <4>1. ~(k < Len(s)) /\ ~(k - 1 < Len(s))
        BY <1>1, <3>5
      <4>. QED
        BY <2>0, <2>2, <3>2, <4>1
    <3>. QED
      BY <3>4, <3>5
  <2>. QED
    BY <2>1, <2>2
<1>4. Follows(f)
  <2>1. f = [k \in 0..PoolBlocks |-> f[k]]
    OBVIOUS
  <2>. HIDE DEF f
  <2>. QED
    BY <1>3, <2>1
<1>5. Follows(List!Walk)
  <2>1. List!Walk = CHOOSE g : Follows(g)
    BY DEF List!Walk
  <2>. HIDE DEF Follows
  <2>. QED
    BY <1>4, <2>1
<1>6. PICK g : g = List!Walk
  OBVIOUS
<1>7. Follows(g)
  BY <1>5, <1>6
<1>8. /\ DOMAIN g = 0..PoolBlocks
      /\ \A k \in 0..PoolBlocks :
           g[k] = IF k = 0 THEN listHead
                  ELSE IF g[k-1] = Null THEN Null ELSE listNext[g[k-1]]
  BY <1>7
<1>. HIDE DEF Follows
<1>9. \A k \in 0..PoolBlocks : g[k] = f[k]
  <2>. DEFINE Bad == {j \in 0..PoolBlocks : g[j] # f[j]}
  <2>. HIDE DEF f
  <2>1. CASE Bad = {}
    BY <2>1
  <2>2. CASE Bad # {}
    <3>1. Bad \subseteq Nat
      OBVIOUS
    <3>2. PICK j \in Bad : \A i \in Bad : ~(<<i, j>> \in OpToRel(<, Nat))
      BY <2>2, <3>1, NatLessThanWellFounded, WFMin
    <3>3. j \in 0..PoolBlocks /\ g[j] # f[j]
      BY <3>2
    <3>4. j # 0
      BY <1>3, <1>8, <3>3
    <3>5. j - 1 \in 0..PoolBlocks /\ j - 1 \in Nat /\ j \in Nat /\ j - 1 < j
      BY <1>1, <3>3, <3>4
    <3>6. g[j-1] = f[j-1]
      <4>1. j - 1 \notin Bad
        <5>. HIDE DEF Bad
        <5>. QED
          BY <3>2, <3>5 DEF OpToRel
      <4>. QED
        BY <3>5, <4>1
    <3>. HIDE DEF Bad
    <3>. QED
      BY <1>3, <1>8, <3>3, <3>4, <3>6
  <2>. QED
    BY <2>1, <2>2
<1>. QED
  BY <1>6, <1>8, <1>9

\* What the invariant says of the five properties.
LEMMA FreeSafe == FreeListInv => List!Safety
<1>. SUFFICES ASSUME FreeListInv
              PROVE  List!Safety
  OBVIOUS
<1>1. ListTypes /\ ReadyInv
  BY DEF FreeListInv
<1>2. PICK s \in Seq(Block), where \in [Block -> Places],
           by \in [Block -> Triple \cup {Null}] : BlocksPlaced(s, where, by)
  BY FreePlaces
<1>3. /\ \A n \in Block : Occurs(s, n) <=> where[n] = "list"
      /\ \A n \in Block : BlockAt(n, where[n], by[n])
      /\ Linked(s)
  BY <1>2 DEF BlocksPlaced
<1>4. /\ List!Node = Block /\ Block \subseteq Nat /\ Null \notin Block
      /\ Cardinality(Triple) \in Nat /\ PoolBlocks \in Nat
  BY FreeFacts, FS_CardinalityType
<1>5. Len(s) \in Nat /\ Len(s) <= PoolBlocks
  BY <1>3, LinkedShort
<1>6. /\ DOMAIN List!Walk = 0..PoolBlocks
      /\ \A k \in 0..PoolBlocks :
           List!Walk[k] = IF k < Len(s) THEN s[k+1] ELSE Null
  BY <1>3, WalkIs
<1>7. \A n \in Block : n \in List!OnList <=> where[n] = "list"
  <2>. SUFFICES ASSUME NEW n \in Block
                PROVE  n \in List!OnList <=> Occurs(s, n)
    BY <1>3
  <2>0. n \in List!OnList <=> \E k \in 0..PoolBlocks : List!Walk[k] = n
    BY <1>4, <1>6 DEF List!OnList, List!Range
  <2>1. ASSUME NEW k \in 0..PoolBlocks, List!Walk[k] = n
        PROVE  Occurs(s, n)
    <3>1. k < Len(s) /\ s[k+1] = n
      BY <1>4, <1>6, <2>1
    <3>2. k + 1 \in 1..Len(s)
      BY <1>5, <3>1
    <3>. QED
      BY <3>1, <3>2 DEF Occurs
  <2>2. ASSUME Occurs(s, n)
        PROVE  \E k \in 0..PoolBlocks : List!Walk[k] = n
    <3>1. PICK i \in 1..Len(s) : s[i] = n
      BY <2>2 DEF Occurs
    <3>2. i - 1 \in 0..PoolBlocks /\ i - 1 < Len(s) /\ s[i-1+1] = n
      BY <1>4, <1>5, <3>1
    <3>. QED
      BY <1>6, <3>2
  <2>. QED
    BY <2>0, <2>1, <2>2
<1>8. ASSUME NEW n \in Block
      PROVE  /\ where[n] \in Places
             /\ where[n] \in Owned => by[n] \in Triple
             /\ \A t \in Triple :
                  /\ n \in held[t] <=> where[n] = "held" /\ by[n] = t
                  /\ Gets(listThread[t], n) <=> where[n] = "got" /\ by[n] = t
                  /\ Pushes(listThread[t], n) <=> where[n] = "push" /\ by[n] = t
                  /\ Publishes(listThread[t], n) <=> where[n] = "publish" /\ by[n] = t
             /\ n >= poolIndex <=> where[n] = "pool"
             /\ refs[n] = Cardinality(Readers(n)) + Weight(where[n])
             /\ should[n] <=> where[n] \in {"push", "left"}
             /\ where[n] = "left" => refs[n] # 0
  BY <1>3 DEF BlockAt
<1>9. \A t \in Triple : \A n \in Block :
        /\ n \in held[t] <=> where[n] = "held" /\ by[n] = t
        /\ Gets(listThread[t], n) <=> where[n] = "got" /\ by[n] = t
  BY <1>8
<1>10. \A t \in Triple :
         /\ held[t] \subseteq Block
         /\ listThread[t].pc = "got" =>
              /\ listThread[t].head \in Block
              /\ where[listThread[t].head] = "got" /\ by[listThread[t].head] = t
         /\ listThread[t].pc = "withdraw" =>
              /\ listThread[t].node \in Block
              /\ where[listThread[t].node] = "publish"
  <2>. SUFFICES ASSUME NEW t \in Triple
                PROVE  /\ held[t] \subseteq Block
                       /\ listThread[t].pc = "got" =>
                            /\ listThread[t].head \in Block
                            /\ where[listThread[t].head] = "got"
                            /\ by[listThread[t].head] = t
                       /\ listThread[t].pc = "withdraw" =>
                            /\ listThread[t].node \in Block
                            /\ where[listThread[t].node] = "publish"
    OBVIOUS
  <2>1. held[t] \subseteq Block
    BY <1>1 DEF ListTypes
  <2>2. listThread[t].pc = "got" =>
          /\ listThread[t].head \in Block
          /\ where[listThread[t].head] = "got" /\ by[listThread[t].head] = t
    BY <1>1, <1>9 DEF ReadyInv, Ready, Gets
  <2>3. listThread[t].pc = "withdraw" =>
          /\ listThread[t].node \in Block
          /\ where[listThread[t].node] = "publish"
    BY <1>1, <1>8 DEF ReadyInv, Ready, Publishes
  <2>. QED
    BY <2>1, <2>2, <2>3
<1>11. ASSUME NEW n \in Block
       PROVE  /\ List!Pushing(n) \subseteq {by[n]}
              /\ List!Pushing(n) # {} <=> where[n] \in {"push", "publish"}
  <2>1. \A t \in Triple : t \in List!Pushing(n) <=>
          Pushes(listThread[t], n) \/ Publishes(listThread[t], n)
    BY DEF List!Pushing, Pushes, Publishes
  <2>2. List!Pushing(n) \subseteq Triple
    BY DEF List!Pushing
  <2>3. \A t \in Triple : t \in List!Pushing(n) <=>
          where[n] \in {"push", "publish"} /\ by[n] = t
    BY <1>8, <2>1
  <2>4. where[n] \in {"push", "publish"} => by[n] \in Triple
    BY <1>8 DEF Owned
  <2>. QED
    BY <2>2, <2>3, <2>4
<1>12. List!TypeOK
  <2>1. poolIndex \in 0..PoolBlocks + Cardinality(Triple)
    BY <1>1, <1>4, TakingFinite DEF ListTypes
  <2>2. ASSUME NEW n \in Block
        PROVE  refs[n] \in 0..Cardinality(Triple) + 1
    <3>1. refs[n] = Cardinality(Readers(n)) + Weight(where[n])
      BY <1>8
    <3>2. /\ Readers(n) \subseteq Triple /\ Cardinality(Readers(n)) \in Nat
          /\ Cardinality(Readers(n)) <= Cardinality(Triple)
      BY FreeFacts, ReadersFinite, FS_Subset DEF Readers
    <3>3. CASE where[n] # "got"
      BY <1>4, <3>1, <3>2, <3>3 DEF Weight
    <3>4. CASE where[n] = "got"
      <4>1. by[n] \in Triple /\ Gets(listThread[by[n]], n)
        BY <1>8, <3>4 DEF Owned
      <4>2. Readers(n) \subseteq Triple \ {by[n]}
        BY <4>1 DEF Readers, Reads, Gets
      <4>3. /\ IsFiniteSet(Triple \ {by[n]})
            /\ Cardinality(Triple \ {by[n]}) = Cardinality(Triple) - 1
        BY <4>1, FreeFacts, FS_RemoveElement
      <4>4. Cardinality(Readers(n)) <= Cardinality(Triple) - 1
        BY <4>2, <4>3, FS_Subset
      <4>. QED
        BY <1>4, <3>1, <3>2, <3>4, <4>4 DEF Weight
    <3>. QED
      BY <3>3, <3>4
  <2>3. refs \in [Block -> 0..Cardinality(Triple) + 1]
    BY <1>1, <2>2 DEF ListTypes
  <2>4. \A t \in Triple : /\ listThread[t].head \in Block \cup {Null}
                          /\ listThread[t].node \in Block \cup {Null}
    BY <1>1 DEF ListTypes, ListRecord
  <2>. QED
    BY <1>1, <1>4, <2>1, <2>3, <2>4, ListCardinality DEF List!TypeOK, ListTypes
<1>13. List!Exclusive
  <2>1. ASSUME NEW t \in Triple, NEW u \in Triple, t # u
        PROVE  /\ held[t] \cap held[u] = {}
               /\ List!At(t, "got") =>
                    /\ listThread[t].head \notin held[u] \cup List!OnList
                    /\ List!At(u, "got") =>
                         listThread[u].head # listThread[t].head
    <3>1. held[t] \cap held[u] = {}
      BY <1>9, <1>10, <2>1
    <3>2. ASSUME List!At(t, "got")
          PROVE  /\ listThread[t].head \notin held[u] \cup List!OnList
                 /\ List!At(u, "got") =>
                      listThread[u].head # listThread[t].head
      <4>1. PICK n : n = listThread[t].head
        OBVIOUS
      <4>2. n \in Block /\ where[n] = "got" /\ by[n] = t
        BY <1>10, <3>2, <4>1 DEF List!At
      <4>3. n \notin held[u] \cup List!OnList
        BY <1>7, <1>9, <4>2
      <4>4. List!At(u, "got") => listThread[u].head # n
        BY <1>10, <2>1, <4>2 DEF List!At
      <4>. QED
        BY <4>1, <4>3, <4>4
    <3>. QED
      BY <3>1, <3>2
  <2>2. ASSUME NEW n \in Block
        PROVE  /\ List!Cardinality(List!Pushing(n)) <= 1
               /\ n \in UNION List!Range(held) =>
                    n \notin List!OnList /\ List!Pushing(n) = {}
               /\ n \in List!OnList => List!Pushing(n) = {}
    <3>1. Cardinality(List!Pushing(n)) <= 1
      <4>1. IsFiniteSet({by[n]}) /\ Cardinality({by[n]}) = 1
        BY FS_Singleton
      <4>. QED
        BY <1>11, <4>1, FS_Subset
    <3>2. n \in UNION List!Range(held) => where[n] = "held"
      BY <1>1, <1>9 DEF List!Range, ListTypes
    <3>. QED
      BY <1>7, <1>11, <3>1, <3>2, ListCardinality
  <2>3. List!Walk[PoolBlocks] = Null
    BY <1>4, <1>5, <1>6
  <2>. QED
    BY <1>4, <2>1, <2>2, <2>3 DEF List!Exclusive
<1>14. List!BitClear
  <2>. SUFFICES ASSUME NEW t \in Triple
                PROVE  /\ \A n \in held[t] : ~should[n]
                       /\ List!At(t, "got") => ~should[listThread[t].head]
                       /\ List!At(t, "withdraw") => ~should[listThread[t].node]
    BY DEF List!BitClear
  <2>1. \A n \in held[t] : ~should[n]
    BY <1>8, <1>10
  <2>2. List!At(t, "got") => ~should[listThread[t].head]
    BY <1>8, <1>10 DEF List!At
  <2>3. List!At(t, "withdraw") => ~should[listThread[t].node]
    BY <1>8, <1>10 DEF List!At
  <2>. QED
    BY <2>1, <2>2, <2>3
<1>15. List!NextStable
  BY <1>1 DEF List!NextStable, List!At, ReadyInv, Ready
<1>16. List!NoneLost
  <2>. SUFFICES ASSUME NEW n \in Block
                PROVE  \/ n >= poolIndex
                       \/ n \in List!OnList
                       \/ n \in UNION List!Range(held)
                       \/ List!Pushing(n) # {}
                       \/ \E t \in Triple :
                            List!At(t, "got") /\ listThread[t].head = n
                       \/ /\ should[n]
                          /\ \E t \in Triple :
                               \/ List!At(t, "unref") /\ listThread[t].node = n
                               \/ /\ listThread[t].pc \in {"next", "pop"}
                                  /\ listThread[t].head = n
    BY <1>4 DEF List!NoneLost
  <2>1. CASE where[n] = "pool"
    BY <1>8, <2>1
  <2>2. CASE where[n] = "list"
    BY <1>7, <2>2
  <2>3. CASE where[n] = "held"
    <3>1. by[n] \in Triple /\ n \in held[by[n]]
      BY <1>8, <2>3 DEF Owned
    <3>. QED
      BY <1>1, <3>1 DEF List!Range, ListTypes
  <2>4. CASE where[n] \in {"push", "publish"}
    BY <1>11, <2>4
  <2>5. CASE where[n] = "got"
    <3>1. by[n] \in Triple /\ Gets(listThread[by[n]], n)
      BY <1>8, <2>5 DEF Owned
    <3>. QED
      BY <3>1 DEF Gets, List!At
  <2>6. CASE where[n] = "left"
    <3>1. should[n] /\ Cardinality(Readers(n)) # 0
      BY <1>8, <2>6, ReadersFinite DEF Weight
    <3>2. PICK t \in Triple : Reads(listThread[t], n)
      BY <3>1, FS_EmptySet DEF Readers
    <3>. QED
      BY <3>1, <3>2 DEF Reads, List!At
  <2>. QED
    BY <1>8, <2>1, <2>2, <2>3, <2>4, <2>5, <2>6 DEF Places
<1>. QED
  BY <1>12, <1>13, <1>14, <1>15, <1>16 DEF List!Safety

\* However often blocks are popped and pushed while others look at them, none
\* is handed to two threads, none is lost, the list is no cycle, next is stable
\* for whoever may exchange the head, and the bit is clear where it is added.
THEOREM NoBlockIsLost == PartSpec => []FreeListSafety
<1>1. PartInit => FreeListInv
  BY FreeInit DEF PartInit
<1>2. FreeListInv /\ [PartNext]_<<part, listVars, hashVars, exitVars, scanVars>>
        => FreeListInv'
  BY FreeStepInv
<1>3. FreeListInv => FreeListSafety
  BY FreeSafe DEF FreeListSafety
<1>. QED
  BY <1>1, <1>2, <1>3, PTL DEF PartSpec

-----------------------------------------------------------------------------
\* The tables of thread ids (ProducerHash, as instantiated in MCQueueParts): the
\* slots of table T with t's id, and those that the search for an id with hash
\* h gets to.
HashKeys == Id \cup {Hash!Empty, Hash!Reusable}
TableOf(n) ==
  [key : [0..n-1 -> HashKeys], value : [0..n-1 -> Pair \cup {None}], prev : Nat]
Table == UNION {TableOf(n) : n \in Nat \ {0}}
Width(T) == Cardinality(DOMAIN T.key)
Named(T, t) == {s \in DOMAIN T.key : T.key[s] = t}
Reached(T, h, s) ==
  \E m \in 0..Width(T)-1 :
    /\ s = (h + m) % Width(T)
    /\ \A l \in 0..m-1 : T.key[(h + l) % Width(T)] # Hash!Empty

\* The search for an id gets to every slot that has it, and the tables are
\* chained in their order.
TablesInv ==
  /\ tables \in Seq(Table) /\ Len(tables) \in 1..MaxTables
  /\ \A k \in 1..Len(tables) :
       /\ tables[k].prev = k - 1
       /\ \A t \in Id : \A s \in Named(tables[k], t) :
            Reached(tables[k], HashOf[t], s)

\* A thread's id is in no table, or it is in one of the first n and producer p
\* is beside it wherever it is.
Nowhere(t) == \A k \in 1..Len(tables) : Named(tables[k], t) = {}
Lists(t, p, n) ==
  /\ \A k \in 1..Len(tables) : \A s \in Named(tables[k], t) : tables[k].value[s] = p
  /\ \E k \in 1..n : Named(tables[k], t) # {}
Known(t, p, n) == IF p = None THEN Nowhere(t) ELSE Lists(t, p, n)

\* Thread t with record x and producer o; the slot it looks at in table k.
Entering == {"loop", "locked", "grow", "unlock", "room", "producer", "catch",
            "insert", "uncount"}
Building == {"locked", "grow", "unlock", "clear"}
HashRecord ==
  [pc : Entering \cup Building \cup {"asleep", "idle", "search", "move", "leave"},
   main : Nat, count : Nat, table : Nat, slot : Nat, producer : Pair \cup {None}]
SlotOf(x, k) == x.slot % Width(tables[k])
HashOK(t, x, o) ==
  /\ x.pc \notin {"idle", "search", "move", "insert", "uncount", "leave"} =>
       o = None /\ Nowhere(t)
  /\ x.pc \in {"idle", "uncount"} => Known(t, o, Len(tables))
  /\ x.pc \in {"search", "move"} => Known(t, o, x.main)
  /\ x.pc \in {"move", "insert"} => o # None /\ x.producer = o
  /\ x.pc = "move" =>
       /\ x.table = x.main
       /\ Reached(tables[x.main], HashOf[t], SlotOf(x, x.main))
  /\ x.pc = "insert" =>
       /\ Nowhere(t)
       /\ Reached(tables[x.main], HashOf[t], SlotOf(x, x.main))
  /\ x.pc = "leave" =>
       /\ o # None /\ x.table \in 0..Len(tables)
       /\ \A k \in x.table+1..Len(tables) : Named(tables[k], t) = {}
  /\ x.pc \in (Entering \ {"uncount"}) \cup {"search", "move"} =>
       x.main \in 1..Len(tables)
  /\ x.pc = "grow" => x.main = Len(tables)
  /\ x.pc = "catch" => x.producer # None
ThreadsInv == \A t \in Id : HashOK(t, hashThread[t], own[t])

\* count may be too low for the used slots, but not for the threads under way.
Counting == {t \in Id : hashThread[t].pc \in Entering}
HashTypes ==
  /\ hashThread \in [Id -> HashRecord]
  /\ count \in Nat /\ Cardinality(Counting) <= count
  /\ resizing \in BOOLEAN
OwnInv ==
  /\ producers \subseteq Pair /\ hashInactive \subseteq producers
  /\ own \in [Id -> Pair \cup {None}]
  /\ \A t \in Id : own[t] # None =>
       /\ own[t] \in producers \ hashInactive
       /\ \A u \in Id \ {t} : own[u] # own[t]
Builders == {t \in Id : hashThread[t].pc \in Building}
BuilderInv ==
  /\ \A t, u \in Builders : t = u
  /\ resizing <=> Builders # {}
HashInv == TablesInv /\ HashTypes /\ OwnInv /\ BuilderInv /\ ThreadsInv

LEMMA HashFacts ==
  /\ IsFiniteSet(Id) /\ HashOf \in [Id -> Nat]
  /\ InitialSize \in Nat \ {0} /\ MaxTables \in Nat \ {0}
  /\ None \notin Pair /\ Hash!Empty \notin Id /\ Hash!Reusable \notin Id
  /\ Hash!Empty # Hash!Reusable
<1>1. /\ HashOf \in [Id -> Nat]
      /\ InitialSize \in Nat \ {0} /\ MaxTables \in Nat \ {0}
      /\ None \notin Pair /\ {Hash!Empty, Hash!Reusable} \cap Id = {}
  BY PartsAssumption DEF Hash!HashAssumption
<1>2. Hash!Empty # Hash!Reusable
  BY DEF Hash!Empty, Hash!Reusable
<1>3. Hash!IsFiniteSet(Id)
  BY PartsAssumption DEF Hash!HashAssumption
<1>4. IsFiniteSet(Id)
  BY <1>3 DEF Hash!IsFiniteSet, IsFiniteSet
<1>. QED
  BY <1>1, <1>2, <1>4

LEMMA HashCardinality == \A S : Hash!Cardinality(S) = Cardinality(S)
BY DEF Hash!Cardinality, Cardinality

LEMMA SequenceExcept ==
  ASSUME NEW S, NEW f \in Seq(S), NEW k \in 1..Len(f), NEW e \in S
  PROVE  /\ [f EXCEPT ![k] = e] \in Seq(S) /\ Len([f EXCEPT ![k] = e]) = Len(f)
         /\ [f EXCEPT ![k] = e][k] = e
         /\ \A j \in (1..Len(f)) \ {k} : [f EXCEPT ![k] = e][j] = f[j]
OBVIOUS

\* Arithmetic.
LEMMA Remainder ==
  ASSUME NEW a \in Nat, NEW c \in Nat \ {0}
  PROVE  /\ a % c \in 0..c-1 /\ a \div c \in Nat
         /\ a = c * (a \div c) + (a % c)
OBVIOUS

LEMMA RemainderIs ==
  ASSUME NEW a \in Nat, NEW b \in Nat, NEW c \in Nat \ {0}, NEW q \in Nat,
         b < c, a = c * q + b
  PROVE  a % c = b
OBVIOUS

LEMMA NextRemainder ==
  ASSUME NEW a \in Nat, NEW c \in Nat \ {0}
  PROVE  /\ ((a % c) + 1) % c = (a + 1) % c
         /\ (a + c) % c = a % c
<1>1. PICK q, r : q = a \div c /\ r = a % c
  OBVIOUS
<1>2. q \in Nat /\ r \in 0..c-1 /\ a = c * q + r
  BY <1>1, Remainder
<1>3. PICK p \in Nat : p = q + 1
  BY <1>2
<1>4. c * p = c * q + c
  BY <1>2, <1>3
<1>5. (a + c) % c = r
  <2>1. PICK d \in Nat : d = a + c
    OBVIOUS
  <2>2. d = c * p + r /\ r \in Nat /\ r < c
    BY <1>2, <1>4, <2>1
  <2>3. d % c = r
    BY <1>3, <2>2, RemainderIs
  <2>. QED
    BY <2>1, <2>3
<1>6. CASE r + 1 < c
  <2>1. r + 1 \in Nat /\ r + 1 = c * 0 + (r + 1) /\ a + 1 = c * q + (r + 1)
    BY <1>2
  <2>2. (r + 1) % c = r + 1
    BY <1>6, <2>1, RemainderIs
  <2>3. (a + 1) % c = r + 1
    BY <1>2, <1>6, <2>1, RemainderIs
  <2>. QED
    BY <1>1, <1>5, <2>2, <2>3
<1>7. CASE r + 1 = c
  <2>1. r + 1 \in Nat /\ r + 1 = c * 1 + 0 /\ a + 1 = c * p + 0
    BY <1>2, <1>4, <1>7
  <2>2. (r + 1) % c = 0
    BY <2>1, RemainderIs
  <2>3. (a + 1) % c = 0
    BY <1>3, <2>1, RemainderIs
  <2>. QED
    BY <1>1, <1>5, <2>2, <2>3
<1>. QED
  BY <1>2, <1>6, <1>7

LEMMA TableFacts ==
  ASSUME NEW T \in Table
  PROVE  /\ Width(T) \in Nat \ {0}
         /\ DOMAIN T.key = 0..Width(T)-1
         /\ T \in TableOf(Width(T))
         /\ T.key \in [0..Width(T)-1 -> HashKeys]
         /\ T.value \in [0..Width(T)-1 -> Pair \cup {None}]
<1>1. PICK n \in Nat \ {0} : T \in TableOf(n)
  BY DEF Table
<1>2. DOMAIN T.key = 0..n-1
  BY <1>1 DEF TableOf
<1>3. Cardinality(0..n-1) = IF 0 > n-1 THEN 0 ELSE n-1-0+1
  BY FS_Interval
<1>4. Width(T) = n
  BY <1>2, <1>3 DEF Width
<1>5. /\ T.key \in [0..n-1 -> HashKeys]
      /\ T.value \in [0..n-1 -> Pair \cup {None}]
  BY <1>1 DEF TableOf
<1>. QED
  BY <1>1, <1>2, <1>4, <1>5

LEMMA TableIs ==
  ASSUME NEW n \in Nat \ {0}, NEW T \in TableOf(n)
  PROVE  T \in Table /\ Width(T) = n /\ DOMAIN T.key = 0..n-1
<1>1. T \in Table
  BY DEF Table
<1>2. DOMAIN T.key = 0..n-1
  BY DEF TableOf
<1>3. Cardinality(0..n-1) = IF 0 > n-1 THEN 0 ELSE n-1-0+1
  BY FS_Interval
<1>. QED
  BY <1>1, <1>2, <1>3 DEF Width

\* The search begins at the hash, modulo the width, and goes on to the next
\* slot, and the first after the last, where the slot is taken.
LEMMA ReachedFirst ==
  ASSUME NEW T \in Table, NEW h \in Nat
  PROVE  Reached(T, h, h % Width(T))
<1>1. Width(T) \in Nat \ {0}
  BY TableFacts
<1>2. 0 \in 0..Width(T)-1 /\ h + 0 = h
  BY <1>1
<1>. QED
  BY <1>2 DEF Reached

LEMMA ReachedNext ==
  ASSUME NEW T \in Table, NEW h \in Nat, NEW s, Reached(T, h, s),
         T.key[s] # Hash!Empty
  PROVE  Reached(T, h, (s + 1) % Width(T))
<1>1. PICK w \in Nat \ {0} : w = Width(T)
  BY TableFacts
<1>2. PICK m \in 0..w-1 :
        /\ s = (h + m) % w
        /\ \A l \in 0..m-1 : T.key[(h + l) % w] # Hash!Empty
  BY <1>1 DEF Reached
<1>3. (s + 1) % w = (h + m + 1) % w
  <2>1. PICK a \in Nat : a = h + m
    OBVIOUS
  <2>2. s = a % w /\ h + m + 1 = a + 1
    BY <1>2, <2>1
  <2>. QED
    BY <2>2, NextRemainder
<1>4. CASE m + 1 < w
  <2>1. PICK j \in 0..w-1 : j = m + 1
    BY <1>4
  <2>2. (s + 1) % w = (h + j) % w
    BY <1>3, <2>1
  <2>3. ASSUME NEW l \in 0..j-1
        PROVE  T.key[(h + l) % w] # Hash!Empty
    <3>1. l = m \/ l \in 0..m-1
      BY <2>1
    <3>. QED
      BY <1>2, <3>1
  <2>. QED
    BY <1>1, <2>1, <2>2, <2>3 DEF Reached
<1>5. CASE m + 1 = w
  <2>1. (h + m + 1) % w = h % w
    <3>1. h + m + 1 = h + w
      BY <1>5
    <3>. QED
      BY <3>1, NextRemainder
  <2>. QED
    BY <1>1, <1>3, <2>1, ReachedFirst
<1>. QED
  BY <1>2, <1>4, <1>5

LEMMA ReachedRange ==
  ASSUME NEW T \in Table, NEW h \in Nat, NEW s, Reached(T, h, s)
  PROVE  s \in DOMAIN T.key /\ s \in Nat
<1>1. PICK w \in Nat \ {0} : w = Width(T) /\ DOMAIN T.key = 0..w-1
  BY TableFacts
<1>2. PICK m \in 0..w-1 : s = (h + m) % w
  BY <1>1 DEF Reached
<1>3. h + m \in Nat
  OBVIOUS
<1>4. s \in 0..w-1
  BY <1>2, <1>3, Remainder
<1>. QED
  BY <1>1, <1>4

\* What was reached is, while no slot becomes empty.
LEMMA ReachedStays ==
  ASSUME NEW T \in Table, NEW U, Width(U) = Width(T),
         NEW h \in Nat, NEW s, Reached(T, h, s),
         \A i \in DOMAIN T.key : U.key[i] = Hash!Empty => T.key[i] = Hash!Empty
  PROVE  Reached(U, h, s)
<1>1. PICK w \in Nat \ {0} : w = Width(T) /\ DOMAIN T.key = 0..w-1
  BY TableFacts
<1>2. PICK m \in 0..w-1 :
        /\ s = (h + m) % w
        /\ \A l \in 0..m-1 : T.key[(h + l) % w] # Hash!Empty
  BY <1>1 DEF Reached
<1>3. ASSUME NEW l \in 0..m-1
      PROVE  U.key[(h + l) % w] # Hash!Empty
  <2>1. PICK a : a = h + l
    OBVIOUS
  <2>2. a \in Nat
    BY <2>1
  <2>3. a % w \in DOMAIN T.key
    BY <1>1, <2>2, Remainder
  <2>. QED
    BY <1>2, <2>1, <2>3
<1>. QED
  BY <1>1, <1>2, <1>3 DEF Reached

\* The chain of tables from the k-th on is the first k.
LEMMA ChainIs ==
  ASSUME TablesInv, NEW k \in 1..Len(tables)
  PROVE  Hash!Chain(k) = 1..k
<1>. DEFINE f == [l \in 0..k |-> 1..l]
            Follows(g) ==
              g = [l \in 0..k |-> IF l = 0 THEN {} ELSE {l} \cup g[tables[l].prev]]
<1>1. /\ Len(tables) \in Nat
      /\ \A l \in 1..k : tables[l].prev = l - 1
  <2>1. Len(tables) \in Nat
    BY DEF TablesInv
  <2>2. \A l \in 1..k : l \in 1..Len(tables)
    BY <2>1
  <2>. QED
    BY <2>1, <2>2 DEF TablesInv
<1>2. \A l \in 0..k : f[l] = IF l = 0 THEN {} ELSE {l} \cup f[tables[l].prev]
  <2>. SUFFICES ASSUME NEW l \in 0..k
                PROVE  f[l] = IF l = 0 THEN {} ELSE {l} \cup f[tables[l].prev]
    OBVIOUS
  <2>1. CASE l = 0
    BY <2>1
  <2>2. CASE l # 0
    <3>1. l \in 1..k /\ l - 1 \in 0..k /\ tables[l].prev = l - 1
      BY <1>1, <2>2
    <3>2. f[l-1] = 1..l-1 /\ f[l] = 1..l
      BY <3>1
    <3>3. 1..l = {l} \cup (1..l-1)
      BY <3>1
    <3>. HIDE DEF f
    <3>. QED
      BY <2>2, <3>1, <3>2, <3>3
  <2>. QED
    BY <2>1, <2>2
<1>3. Follows(f)
  <2>1. f = [l \in 0..k |-> f[l]]
    OBVIOUS
  <2>. HIDE DEF f
  <2>. QED
    BY <1>2, <2>1
<1>4. Hash!Chain(k) = (CHOOSE g : Follows(g))[k]
  BY DEF Hash!Chain
<1>5. PICK g : g = CHOOSE e : Follows(e)
  OBVIOUS
<1>6. Follows(g)
  <2>. HIDE DEF Follows
  <2>. QED
    BY <1>3, <1>5
<1>7. \A l \in 0..k : g[l] = IF l = 0 THEN {} ELSE {l} \cup g[tables[l].prev]
  BY <1>6
<1>. HIDE DEF Follows
<1>8. \A l \in 0..k : g[l] = f[l]
  <2>. DEFINE Bad == {l \in 0..k : g[l] # f[l]}
  <2>. HIDE DEF f
  <2>1. CASE Bad = {}
    BY <2>1
  <2>2. CASE Bad # {}
    <3>1. Bad \subseteq Nat
      OBVIOUS
    <3>2. PICK j \in Bad : \A i \in Bad : ~(<<i, j>> \in OpToRel(<, Nat))
      BY <2>2, <3>1, NatLessThanWellFounded, WFMin
    <3>3. j \in 0..k /\ g[j] # f[j]
      BY <3>2
    <3>4. j # 0
      BY <1>2, <1>7, <3>3
    <3>5. j \in 1..k /\ j - 1 \in 0..k /\ j - 1 \in Nat /\ j \in Nat /\ j - 1 < j
      BY <1>1, <3>3, <3>4
    <3>6. g[j-1] = f[j-1]
      <4>1. j - 1 \notin Bad
        <5>. HIDE DEF Bad
        <5>. QED
          BY <3>2, <3>5 DEF OpToRel
      <4>. QED
        BY <3>5, <4>1
    <3>. HIDE DEF Bad
    <3>7. tables[j].prev = j - 1
      BY <1>1, <3>5
    <3>8. g[j] = {j} \cup g[j-1]
      BY <1>7, <3>3, <3>4, <3>7
    <3>9. f[j] = {j} \cup f[j-1]
      BY <1>2, <3>3, <3>4, <3>7
    <3>. QED
      BY <3>3, <3>6, <3>8, <3>9
  <2>. QED
    BY <2>1, <2>2
<1>9. k \in 0..k /\ f[k] = 1..k
  OBVIOUS
<1>. QED
  BY <1>4, <1>5, <1>8, <1>9

\* A search finds an id wherever it is.
LEMMA SlotsAre ==
  ASSUME TablesInv, NEW t \in Id, NEW k \in 1..Len(tables)
  PROVE  Hash!Slots(t, k) = Named(tables[k], t)
<1>1. PICK T, w : T = tables[k] /\ w = Width(T)
  OBVIOUS
<1>2. T \in Table /\ \A s \in Named(T, t) : Reached(T, HashOf[t], s)
  <2>1. T \in Table
    BY <1>1 DEF TablesInv
  <2>2. \A s \in Named(tables[k], t) : Reached(tables[k], HashOf[t], s)
    BY DEF TablesInv
  <2>. QED
    BY <1>1, <2>1, <2>2
<1>3. /\ w \in Nat \ {0} /\ DOMAIN T.key = 0..w-1 /\ HashOf[t] \in Nat
  BY <1>1, <1>2, TableFacts, HashFacts
<1>4. Hash!Capacity(k) = w
  BY <1>1, HashCardinality DEF Hash!Capacity, Width
<1>5. \A m : Hash!Probe(t, k, m) = (HashOf[t] + m) % w
  BY <1>4 DEF Hash!Probe
<1>6. \A s : s \in Hash!Slots(t, k) <=>
        \E m \in 0..w-1 :
          /\ s = (HashOf[t] + m) % w /\ T.key[s] = t
          /\ \A l \in 0..m-1 : T.key[(HashOf[t] + l) % w] # Hash!Empty
  BY <1>1, <1>4, <1>5 DEF Hash!Slots
<1>7. \A s : s \in Hash!Slots(t, k) <=> T.key[s] = t /\ Reached(T, HashOf[t], s)
  BY <1>1, <1>6 DEF Reached
<1>8. \A s : Reached(T, HashOf[t], s) => s \in DOMAIN T.key
  BY <1>2, <1>3, ReachedRange
<1>9. \A s : s \in Hash!Slots(t, k) <=> s \in Named(T, t)
  BY <1>2, <1>7, <1>8 DEF Named
<1>. QED
  BY <1>1, <1>9

LEMMA TablesAre ==
  ASSUME TablesInv, NEW t \in Id, NEW k \in 1..Len(tables)
  PROVE  Hash!Tables(t, k) = {l \in 1..k : Named(tables[l], t) # {}}
<1>1. Hash!Chain(k) = 1..k
  BY ChainIs
<1>2. \A l \in 1..k : l \in 1..Len(tables)
  BY DEF TablesInv
<1>3. \A l \in 1..k : Hash!Slots(t, l) = Named(tables[l], t)
  BY <1>2, SlotsAre
<1>. QED
  BY <1>1, <1>3 DEF Hash!Tables

\* What a step of t does to a table, and to all of them, as the other threads
\* see it.
TableStep(T, U, t) ==
  /\ Width(U) = Width(T)
  /\ \A s \in DOMAIN T.key : U.key[s] = Hash!Empty => T.key[s] = Hash!Empty
  /\ \A u \in Id \ {t} :
       /\ Named(U, u) = Named(T, u)
       /\ \A s \in Named(T, u) : U.value[s] = T.value[s]
TablesStep(t) ==
  /\ Len(tables) <= Len(tables')
  /\ \A k \in 1..Len(tables) : TableStep(tables[k], tables'[k], t)
  /\ \A k \in Len(tables)+1..Len(tables') :
       \A u \in Id : Named(tables'[k], u) = {}

LEMMA TablesSame ==
  ASSUME TablesInv, UNCHANGED tables, NEW t \in Id
  PROVE  TablesInv' /\ TablesStep(t)
<1>1. TablesInv'
  BY DEF TablesInv
<1>2. Len(tables) \in Nat
  BY DEF TablesInv
<1>3. \A T : TableStep(T, T, t)
  BY DEF TableStep
<1>. QED
  BY <1>1, <1>2, <1>3 DEF TablesStep

LEMMA OtherStays ==
  ASSUME TablesInv, TablesInv', NEW t \in Id, TablesStep(t),
         NEW u \in Id \ {t}, NEW x, NEW o, HashOK(u, x, o),
         Len(tables') = Len(tables) \/ x.pc # "grow"
  PROVE  HashOK(u, x, o)'
<1>1. PICK n, m : n = Len(tables) /\ m = Len(tables')
  OBVIOUS
<1>2. n \in Nat \ {0} /\ m \in Nat \ {0} /\ n <= m
  <2>1. Len(tables) \in Nat \ {0} /\ Len(tables') \in Nat \ {0}
    BY DEF TablesInv
  <2>. QED
    BY <1>1, <2>1 DEF TablesStep
<1>3. \A k \in 1..n : TableStep(tables[k], tables'[k], t)
  BY <1>1 DEF TablesStep
<1>4. \A k \in 1..n :
        /\ Named(tables'[k], u) = Named(tables[k], u)
        /\ \A s \in Named(tables[k], u) : tables'[k].value[s] = tables[k].value[s]
  BY <1>3 DEF TableStep
<1>5. \A k \in n+1..m : Named(tables'[k], u) = {}
  BY <1>1 DEF TablesStep
<1>6. \A k \in 1..m : k \in 1..n \/ k \in n+1..m
  BY <1>2
<1>7. Nowhere(u) => Nowhere(u)'
  <2>. SUFFICES ASSUME Nowhere(u)
                PROVE  \A k \in 1..m : Named(tables'[k], u) = {}
    BY <1>1 DEF Nowhere, Named
  <2>. QED
    BY <1>1, <1>4, <1>5, <1>6 DEF Nowhere
<1>8. ASSUME NEW j \in 0..n, NEW i \in Nat, j <= i, Lists(u, o, j)
      PROVE  Lists(u, o, i)'
  <2>1. ASSUME NEW k \in 1..m, NEW s \in Named(tables'[k], u)
        PROVE  tables'[k].value[s] = o
    <3>1. k \in 1..n
      BY <1>5, <1>6
    <3>2. s \in Named(tables[k], u) /\ tables'[k].value[s] = tables[k].value[s]
      BY <1>4, <3>1
    <3>3. \A g \in 1..n : \A l \in Named(tables[g], u) : tables[g].value[l] = o
      BY <1>1, <1>8 DEF Lists
    <3>. QED
      BY <3>1, <3>2, <3>3
  <2>2. \E k \in 1..i : Named(tables'[k], u) # {}
    <3>1. PICK k \in 1..j : Named(tables[k], u) # {}
      BY <1>8 DEF Lists
    <3>2. k \in 1..n /\ k \in 1..i
      BY <1>2, <1>8
    <3>. QED
      BY <1>4, <3>1, <3>2
  <2>. QED
    BY <1>1, <2>1, <2>2 DEF Lists, Named
<1>9. ASSUME NEW j \in 0..n, NEW i \in Nat, j <= i, Known(u, o, j)
      PROVE  Known(u, o, i)'
  BY <1>7, <1>8, <1>9 DEF Known
<1>10. ASSUME NEW k \in 1..n, NEW s,
              Reached(tables[k], HashOf[u], s % Width(tables[k]))
       PROVE  Reached(tables'[k], HashOf[u], s % Width(tables'[k]))
  <2>1. PICK T, U : T = tables[k] /\ U = tables'[k]
    OBVIOUS
  <2>2. TableStep(T, U, t)
    BY <1>3, <2>1
  <2>3. /\ Width(U) = Width(T)
        /\ \A i \in DOMAIN T.key : U.key[i] = Hash!Empty => T.key[i] = Hash!Empty
    BY <2>2 DEF TableStep
  <2>4. PICK i, h : i = s % Width(T) /\ h = HashOf[u]
    OBVIOUS
  <2>5. T \in Table /\ h \in Nat
    BY <1>1, <2>1, <2>4, HashFacts DEF TablesInv
  <2>6. Reached(U, h, i)
    BY <1>10, <2>1, <2>3, <2>4, <2>5, ReachedStays
  <2>. QED
    BY <2>1, <2>3, <2>4, <2>6
<1>11. /\ x.pc \notin {"idle", "search", "move", "insert", "uncount", "leave"} =>
            o = None /\ Nowhere(u)'
       /\ x.pc = "insert" => Nowhere(u)'
  BY <1>7 DEF HashOK
<1>12. x.pc \in (Entering \ {"uncount"}) \cup {"search", "move"} => x.main \in 1..n
  BY <1>1 DEF HashOK
<1>13. x.pc \in {"idle", "uncount"} => Known(u, o, m)'
  BY <1>1, <1>2, <1>9 DEF HashOK
<1>14. x.pc \in {"search", "move"} => Known(u, o, x.main)'
  <2>1. PICK j : j = x.main
    OBVIOUS
  <2>2. x.pc \in {"search", "move"} => j \in 0..n /\ j \in Nat /\ j <= j /\ Known(u, o, j)
    BY <1>2, <1>12, <2>1 DEF HashOK
  <2>3. x.pc \in {"search", "move"} => Known(u, o, j)'
    BY <1>9, <2>2
  <2>. QED
    BY <2>1, <2>3
<1>15. x.pc \in {"move", "insert"} =>
         Reached(tables'[x.main], HashOf[u], x.slot % Width(tables'[x.main]))
  BY <1>10, <1>12 DEF HashOK, Entering, SlotOf
<1>16. x.pc = "leave" =>
         /\ o # None /\ x.table \in 0..m
         /\ \A k \in x.table+1..m : Named(tables'[k], u) = {}
  <2>. SUFFICES ASSUME x.pc = "leave"
                PROVE  /\ o # None /\ x.table \in 0..m
                       /\ \A k \in x.table+1..m : Named(tables'[k], u) = {}
    OBVIOUS
  <2>1. /\ o # None /\ x.table \in 0..n
        /\ \A k \in x.table+1..n : Named(tables[k], u) = {}
    BY <1>1 DEF HashOK
  <2>2. \A k \in x.table+1..m : k \in 1..m /\ (k \in 1..n => k \in x.table+1..n)
    BY <1>2, <2>1
  <2>. QED
    BY <1>2, <1>4, <1>5, <1>6, <2>1, <2>2
<1>17. /\ x.pc \in {"move", "insert"} => o # None /\ x.producer = o
       /\ x.pc = "move" => x.table = x.main
       /\ x.pc = "catch" => x.producer # None
       /\ x.pc = "grow" => x.main = m
  BY <1>1 DEF HashOK
<1>18. \A k : (Reached(tables[k], HashOf[u], SlotOf(x, k)))'
                <=> Reached(tables'[k], HashOf[u], x.slot % Width(tables'[k]))
  BY DEF Reached, Width, SlotOf
<1>19. \A k : Named(tables[k], u)' = Named(tables'[k], u)
  BY DEF Named
<1>20. x.pc \in (Entering \ {"uncount"}) \cup {"search", "move"} => x.main \in 1..m
  BY <1>2, <1>12
<1>21. /\ x.pc \in {"idle", "uncount"} => Known(u, o, Len(tables))'
       /\ x.pc \in (Entering \ {"uncount"}) \cup {"search", "move"} =>
            x.main \in 1..Len(tables')
       /\ x.pc = "grow" => x.main = Len(tables')
       /\ x.pc = "leave" =>
            /\ o # None /\ x.table \in 0..Len(tables')
            /\ \A k \in x.table+1..Len(tables') : Named(tables'[k], u) = {}
  BY <1>1, <1>13, <1>16, <1>17, <1>20 DEF Known, Lists
<1>. QED
  BY <1>11, <1>14, <1>15, <1>17, <1>18, <1>19, <1>21 DEF HashOK

\* A step of one thread.
LEMMA HashMoves ==
  ASSUME HashInv, NEW t \in Id, NEW r \in HashRecord, NEW o,
         hashThread' = [hashThread EXCEPT ![t] = r],
         own' = [own EXCEPT ![t] = o],
         TablesInv', TablesStep(t),
         Len(tables') = Len(tables) \/ hashThread[t].pc = "grow",
         HashOK(t, r, o)', HashTypes', OwnInv', BuilderInv'
  PROVE  HashInv'
<1>1. /\ TablesInv /\ BuilderInv /\ ThreadsInv
      /\ hashThread'[t] = r /\ own'[t] = o
      /\ \A u \in Id \ {t} : hashThread'[u] = hashThread[u] /\ own'[u] = own[u]
  <2>1. TablesInv /\ HashTypes /\ OwnInv /\ BuilderInv /\ ThreadsInv
    BY DEF HashInv
  <2>2. hashThread \in [Id -> HashRecord]
    BY <2>1 DEF HashTypes
  <2>3. own \in [Id -> Pair \cup {None}]
    BY <2>1 DEF OwnInv
  <2>. QED
    BY <2>1, <2>2, <2>3
<1>2. ASSUME NEW u \in Id
      PROVE  HashOK(u, hashThread[u], own[u])'
  <2>1. PICK x, p : x = hashThread'[u] /\ p = own'[u]
    OBVIOUS
  <2>2. CASE u = t
    <3>1. HashOK(u, x, p)'
      BY <1>1, <2>1, <2>2
    <3>. QED
      BY <2>1, <3>1
  <2>3. CASE u # t
    <3>1. HashOK(u, x, p)
      BY <1>1, <2>1, <2>3 DEF ThreadsInv
    <3>2. Len(tables') = Len(tables) \/ x.pc # "grow"
      BY <1>1, <2>1, <2>3 DEF BuilderInv, Builders, Building
    <3>3. HashOK(u, x, p)'
      BY <1>1, <2>3, <3>1, <3>2, OtherStays
    <3>. QED
      BY <2>1, <3>3
  <2>. QED
    BY <2>2, <2>3
<1>3. ThreadsInv'
  BY <1>2 DEF ThreadsInv
<1>4. TablesInv' /\ HashTypes' /\ OwnInv' /\ BuilderInv'
  OBVIOUS
<1>. QED
  BY <1>3, <1>4 DEF HashInv

LEMMA CountStays ==
  ASSUME HashTypes, NEW t \in Id, NEW r \in HashRecord,
         hashThread' = [hashThread EXCEPT ![t] = r], resizing' \in BOOLEAN,
         \/ count' = count + 1
         \/ count' = count /\ (r.pc \in Entering => hashThread[t].pc \in Entering)
         \/ /\ count' = count - 1
            /\ hashThread[t].pc \in Entering /\ r.pc \notin Entering
  PROVE  HashTypes'
<1>1. /\ hashThread' \in [Id -> HashRecord] /\ hashThread'[t] = r
      /\ \A u \in Id \ {t} : hashThread'[u] = hashThread[u]
  BY DEF HashTypes
<1>2. /\ count \in Nat /\ Cardinality(Counting) <= count
      /\ IsFiniteSet(Counting) /\ Cardinality(Counting) \in Nat
  BY HashFacts, FS_Subset, FS_CardinalityType DEF HashTypes, Counting
<1>3. /\ Counting' \subseteq Counting \cup {t}
      /\ t \in Counting' <=> r.pc \in Entering
      /\ t \in Counting <=> hashThread[t].pc \in Entering
  BY <1>1 DEF Counting
<1>4. Cardinality(Counting)' = Cardinality(Counting')
  OBVIOUS
<1>5. /\ IsFiniteSet(Counting \cup {t})
      /\ Cardinality(Counting \cup {t}) <= Cardinality(Counting) + 1
      /\ Cardinality(Counting \cup {t}) \in Nat
  <2>1. PICK C : C = Counting
    OBVIOUS
  <2>2. IsFiniteSet(C) /\ Cardinality(C) \in Nat
    BY <1>2, <2>1
  <2>3. /\ IsFiniteSet(C \cup {t})
        /\ Cardinality(C \cup {t}) = IF t \in C THEN Cardinality(C)
                                     ELSE Cardinality(C) + 1
    BY <2>2, FS_AddElement
  <2>4. /\ Cardinality(C \cup {t}) <= Cardinality(C) + 1
        /\ Cardinality(C \cup {t}) \in Nat
    BY <2>2, <2>3
  <2>. QED
    BY <2>1, <2>3, <2>4
<1>6. Cardinality(Counting') \in Nat
  BY <1>3, <1>5, FS_Subset, FS_CardinalityType
<1>7. CASE count' = count + 1
  <2>1. Cardinality(Counting') <= Cardinality(Counting \cup {t})
    BY <1>3, <1>5, FS_Subset
  <2>2. Cardinality(Counting') <= count' /\ count' \in Nat
    BY <1>2, <1>5, <1>6, <1>7, <2>1
  <2>. QED
    BY <1>1, <1>4, <2>2 DEF HashTypes
<1>8. CASE count' = count /\ (r.pc \in Entering => hashThread[t].pc \in Entering)
  <2>1. Counting' \subseteq Counting
    BY <1>3, <1>8
  <2>2. Cardinality(Counting') <= Cardinality(Counting)
    BY <1>2, <2>1, FS_Subset
  <2>3. Cardinality(Counting') <= count' /\ count' \in Nat
    BY <1>2, <1>6, <1>8, <2>2
  <2>. QED
    BY <1>1, <1>4, <2>3 DEF HashTypes
<1>9. CASE /\ count' = count - 1
           /\ hashThread[t].pc \in Entering /\ r.pc \notin Entering
  <2>1. t \in Counting /\ Counting' \subseteq Counting \ {t}
    BY <1>3, <1>9
  <2>2. /\ IsFiniteSet(Counting \ {t})
        /\ Cardinality(Counting \ {t}) = Cardinality(Counting) - 1
    BY <1>2, <2>1, FS_RemoveElement
  <2>3. Cardinality(Counting') <= Cardinality(Counting) - 1
    BY <2>1, <2>2, FS_Subset
  <2>4. Cardinality(Counting') <= count' /\ count' \in Nat
    BY <1>2, <1>6, <1>9, <2>3
  <2>. QED
    BY <1>1, <1>4, <2>4 DEF HashTypes
<1>. QED
  BY <1>7, <1>8, <1>9

LEMMA BuilderStays ==
  ASSUME HashTypes, BuilderInv, NEW t \in Id, NEW r,
         hashThread' = [hashThread EXCEPT ![t] = r], resizing' = resizing,
         r.pc \in Building <=> hashThread[t].pc \in Building
  PROVE  BuilderInv'
<1>1. /\ hashThread'[t] = r
      /\ \A u \in Id \ {t} : hashThread'[u] = hashThread[u]
  BY DEF HashTypes
<1>2. Builders' = Builders
  BY <1>1 DEF Builders
<1>. QED
  BY <1>2 DEF BuilderInv

\* A step that changes no table and gives no thread a producer.
LEMMA HashLocal ==
  ASSUME HashInv, NEW t \in Id, NEW r \in HashRecord,
         hashThread' = [hashThread EXCEPT ![t] = r],
         UNCHANGED <<tables, producers, hashInactive, own>>,
         HashOK(t, r, own[t]), HashTypes', BuilderInv'
  PROVE  HashInv'
<1>1. PICK o : o = own[t]
  OBVIOUS
<1>2. TablesInv' /\ TablesStep(t)
  BY TablesSame DEF HashInv
<1>3. own' = [own EXCEPT ![t] = o]
  BY <1>1 DEF HashInv, OwnInv
<1>4. OwnInv'
  BY DEF HashInv, OwnInv
<1>5. HashOK(t, r, o)'
  <2>1. HashOK(t, r, o)
    BY <1>1
  <2>2. HashOK(t, r, o)' <=> HashOK(t, r, o)
    BY DEF HashOK, Known, Nowhere, Lists, Named, Reached, Width, SlotOf
  <2>. QED
    BY <2>1, <2>2
<1>6. Len(tables') = Len(tables)
  OBVIOUS
<1>. QED
  BY <1>2, <1>3, <1>4, <1>5, <1>6, HashMoves

\* The same, and the lock is not concerned, nor what is counted.
LEMMA HashQuiet ==
  ASSUME HashInv, NEW t \in Id, NEW r \in HashRecord,
         hashThread' = [hashThread EXCEPT ![t] = r],
         UNCHANGED <<tables, producers, hashInactive, own, resizing>>,
         HashOK(t, r, own[t]),
         r.pc \in Building <=> hashThread[t].pc \in Building,
         \/ count' = count + 1
         \/ count' = count /\ (r.pc \in Entering => hashThread[t].pc \in Entering)
         \/ /\ count' = count - 1
            /\ hashThread[t].pc \in Entering /\ r.pc \notin Entering
  PROVE  HashInv'
<1>1. HashTypes /\ BuilderInv /\ resizing' \in BOOLEAN
  BY DEF HashInv, HashTypes
<1>2. HashTypes'
  BY <1>1, CountStays
<1>3. BuilderInv'
  BY <1>1, BuilderStays
<1>. QED
  BY <1>2, <1>3, HashLocal

LEMMA HashThreadFacts ==
  ASSUME HashInv, NEW t \in Id
  PROVE  /\ hashThread[t] \in HashRecord /\ own[t] \in Pair \cup {None}
         /\ HashOK(t, hashThread[t], own[t])
         /\ Len(tables) \in Nat \ {0} /\ HashOf[t] \in Nat
         /\ \A k \in 1..Len(tables) :
              /\ tables[k] \in Table /\ Width(tables[k]) \in Nat \ {0}
              /\ Hash!Capacity(k) = Width(tables[k])
<1>1. TablesInv /\ HashTypes /\ OwnInv /\ ThreadsInv
  BY DEF HashInv
<1>2. hashThread[t] \in HashRecord /\ own[t] \in Pair \cup {None}
  BY <1>1 DEF HashTypes, OwnInv
<1>3. HashOK(t, hashThread[t], own[t])
  BY <1>1 DEF ThreadsInv
<1>4. Len(tables) \in Nat \ {0} /\ \A k \in 1..Len(tables) : tables[k] \in Table
  BY <1>1 DEF TablesInv
<1>5. \A k \in 1..Len(tables) : Width(tables[k]) \in Nat \ {0}
  BY <1>4, TableFacts
<1>6. \A k : Hash!Capacity(k) = Width(tables[k])
  BY HashCardinality DEF Hash!Capacity, Width
<1>. QED
  BY <1>2, <1>3, <1>4, <1>5, <1>6, HashFacts

LEMMA HashIdle ==
  /\ Hash!Idle \in HashRecord /\ Hash!Idle.pc = "idle"
  /\ Hash!Asleep \in HashRecord /\ Hash!Asleep.pc = "asleep"
BY DEF Hash!Idle, Hash!Asleep, HashRecord

\* The search, the loop and the counting: nothing but the thread itself, and
\* the count, changes.
LEMMA HashQuietSteps ==
  ASSUME HashInv, NEW t \in Id,
         \/ Hash!Start(t) \/ Hash!LoadHash(t) \/ Hash!PassBy(t) \/ Hash!Reload(t)
         \/ Hash!GrowFails(t) \/ Hash!Enter(t) \/ Hash!Wait(t)
         \/ \E p \in Pair : Hash!Spot(t, p)
         \/ Hash!CreateFails(t) \/ Hash!Uncount(t) \/ Hash!Exit(t)
  PROVE  HashInv'
<1>1. PICK x, o, n : x = hashThread[t] /\ o = own[t] /\ n = Len(tables)
  OBVIOUS
<1>2. /\ x \in HashRecord /\ o \in Pair \cup {None} /\ HashOK(t, x, o)
      /\ n \in Nat \ {0}
  BY <1>1, HashThreadFacts
<1>3. count \in Nat
  BY DEF HashInv, HashTypes
<1>4. Hash!Current = n
  BY <1>1 DEF Hash!Current
<1>5. ASSUME NEW r \in HashRecord, hashThread' = [hashThread EXCEPT ![t] = r],
             UNCHANGED <<tables, producers, hashInactive, own, resizing>>,
             HashOK(t, r, o), r.pc \in Building <=> x.pc \in Building,
             \/ count' = count + 1
             \/ count' = count /\ (r.pc \in Entering => x.pc \in Entering)
             \/ /\ count' = count - 1
                /\ x.pc \in Entering /\ r.pc \notin Entering
      PROVE  HashInv'
  BY <1>1, <1>5, HashQuiet
<1>6. PICK idle, asleep : idle = Hash!Idle /\ asleep = Hash!Asleep
  OBVIOUS
<1>7. /\ idle \in HashRecord /\ idle.pc = "idle"
      /\ asleep \in HashRecord /\ asleep.pc = "asleep"
  BY <1>6, HashIdle
<1>8. CASE Hash!Start(t)
  <2>1. /\ hashThread' = [hashThread EXCEPT ![t] = idle] /\ x.pc = "asleep"
        /\ UNCHANGED <<tables, producers, hashInactive, own, resizing, count>>
    BY <1>1, <1>6, <1>8 DEF Hash!Start, Hash!Step, Hash!At
  <2>2. HashOK(t, idle, o)
    BY <1>2, <1>7, <2>1 DEF HashOK, Entering, Building, Known
  <2>. QED
    BY <1>5, <1>7, <2>1, <2>2 DEF Entering, Building
<1>9. CASE Hash!LoadHash(t)
  <2>1. PICK r : r = [idle EXCEPT !.pc = "search", !.main = n]
    OBVIOUS
  <2>2. r \in HashRecord /\ r.pc = "search" /\ r.main = n
    BY <1>2, <1>7, <2>1 DEF HashRecord
  <2>3. /\ hashThread' = [hashThread EXCEPT ![t] = r] /\ x.pc = "idle"
        /\ UNCHANGED <<tables, producers, hashInactive, own, resizing, count>>
    BY <1>1, <1>4, <1>6, <1>9, <2>1 DEF Hash!LoadHash, Hash!Step, Hash!At
  <2>4. HashOK(t, r, o)
    BY <1>1, <1>2, <2>2, <2>3 DEF HashOK, Entering, Building
  <2>. QED
    BY <1>5, <2>2, <2>3, <2>4 DEF Entering, Building
<1>10. CASE Hash!PassBy(t)
  <2>1. PICK r : r = [x EXCEPT !.pc = "room"]
    OBVIOUS
  <2>2. r \in HashRecord /\ r.pc = "room" /\ r.main = x.main
    BY <1>2, <2>1 DEF HashRecord, Entering
  <2>3. /\ hashThread' = [hashThread EXCEPT ![t] = r] /\ x.pc = "loop"
        /\ UNCHANGED <<tables, producers, hashInactive, own, resizing, count>>
    BY <1>1, <1>10, <2>1 DEF Hash!PassBy, Hash!Step, Hash!At
  <2>4. HashOK(t, r, o)
    BY <1>2, <2>2, <2>3 DEF HashOK, Entering, Building
  <2>. QED
    BY <1>5, <2>2, <2>3, <2>4 DEF Entering, Building
<1>11. CASE Hash!Reload(t)
  <2>1. PICK r : r = [x EXCEPT !.main = n,
                        !.pc = IF Hash!HalfFull(x.count, n) THEN "grow" ELSE "unlock"]
    OBVIOUS
  <2>2. /\ r \in HashRecord /\ r.pc \in {"grow", "unlock"} /\ r.main = n
    BY <1>2, <2>1 DEF HashRecord, Entering
  <2>3. /\ hashThread' = [hashThread EXCEPT ![t] = r] /\ x.pc = "locked"
        /\ UNCHANGED <<tables, producers, hashInactive, own, resizing, count>>
    BY <1>1, <1>4, <1>11, <2>1 DEF Hash!Reload, Hash!Reloaded, Hash!Step, Hash!At
  <2>4. HashOK(t, r, o)
    BY <1>1, <1>2, <2>2, <2>3 DEF HashOK, Entering, Building
  <2>. QED
    BY <1>5, <2>2, <2>3, <2>4 DEF Entering, Building
<1>12. CASE Hash!GrowFails(t)
  <2>1. PICK r : r = [x EXCEPT !.pc = "clear"]
    OBVIOUS
  <2>2. r \in HashRecord /\ r.pc = "clear"
    BY <1>2, <2>1 DEF HashRecord, Building
  <2>3. /\ hashThread' = [hashThread EXCEPT ![t] = r] /\ x.pc = "grow"
        /\ UNCHANGED <<tables, producers, hashInactive, own, resizing>>
        /\ count' = count - 1
    BY <1>1, <1>12, <2>1 DEF Hash!GrowFails, Hash!Step, Hash!At
  <2>4. HashOK(t, r, o)
    BY <1>2, <2>2, <2>3 DEF HashOK, Entering, Building
  <2>. QED
    BY <1>5, <2>2, <2>3, <2>4 DEF Entering, Building
<1>13. CASE Hash!Enter(t)
  <2>1. PICK r : r = [x EXCEPT !.pc = "producer"]
    OBVIOUS
  <2>2. r \in HashRecord /\ r.pc = "producer" /\ r.main = x.main
    BY <1>2, <2>1 DEF HashRecord, Entering
  <2>3. /\ hashThread' = [hashThread EXCEPT ![t] = r] /\ x.pc = "room"
        /\ UNCHANGED <<tables, producers, hashInactive, own, resizing, count>>
    BY <1>1, <1>13, <2>1 DEF Hash!Enter, Hash!Step, Hash!At
  <2>4. HashOK(t, r, o)
    BY <1>2, <2>2, <2>3 DEF HashOK, Entering, Building
  <2>. QED
    BY <1>5, <2>2, <2>3, <2>4 DEF Entering, Building
<1>14. CASE Hash!Wait(t)
  <2>1. PICK r : r = [x EXCEPT !.pc = "loop", !.main = n]
    OBVIOUS
  <2>2. r \in HashRecord /\ r.pc = "loop" /\ r.main = n
    BY <1>2, <2>1 DEF HashRecord, Entering
  <2>3. /\ hashThread' = [hashThread EXCEPT ![t] = r] /\ x.pc = "room"
        /\ UNCHANGED <<tables, producers, hashInactive, own, resizing, count>>
    BY <1>1, <1>4, <1>14, <2>1 DEF Hash!Wait, Hash!Step, Hash!At
  <2>4. HashOK(t, r, o)
    BY <1>1, <1>2, <2>2, <2>3 DEF HashOK, Entering, Building
  <2>. QED
    BY <1>5, <2>2, <2>3, <2>4 DEF Entering, Building
<1>15. ASSUME NEW p \in Pair, Hash!Spot(t, p)
       PROVE  HashInv'
  <2>1. PICK r : r = [x EXCEPT !.pc = "catch", !.producer = p]
    OBVIOUS
  <2>2. /\ r \in HashRecord /\ r.pc = "catch" /\ r.main = x.main
        /\ r.producer = p /\ p # None
    BY <1>2, <2>1, HashFacts DEF HashRecord, Entering
  <2>3. /\ hashThread' = [hashThread EXCEPT ![t] = r] /\ x.pc = "producer"
        /\ UNCHANGED <<tables, producers, hashInactive, own, resizing, count>>
    BY <1>1, <1>15, <2>1 DEF Hash!Spot, Hash!Step, Hash!At
  <2>4. HashOK(t, r, o)
    BY <1>2, <2>2, <2>3 DEF HashOK, Entering, Building
  <2>. QED
    BY <1>5, <2>2, <2>3, <2>4 DEF Entering, Building
<1>16. CASE Hash!CreateFails(t)
  <2>1. /\ hashThread' = [hashThread EXCEPT ![t] = idle] /\ x.pc = "producer"
        /\ UNCHANGED <<tables, producers, hashInactive, own, resizing>>
        /\ count' = count - 1
    BY <1>1, <1>6, <1>16 DEF Hash!CreateFails, Hash!Step, Hash!At
  <2>2. HashOK(t, idle, o)
    BY <1>2, <1>7, <2>1 DEF HashOK, Entering, Building, Known
  <2>. QED
    BY <1>5, <1>7, <2>1, <2>2 DEF Entering, Building
<1>17. CASE Hash!Uncount(t)
  <2>1. /\ hashThread' = [hashThread EXCEPT ![t] = idle] /\ x.pc = "uncount"
        /\ UNCHANGED <<tables, producers, hashInactive, own, resizing>>
        /\ count' = count - 1
    BY <1>1, <1>6, <1>17 DEF Hash!Uncount, Hash!Step, Hash!At
  <2>2. HashOK(t, idle, o)
    BY <1>2, <1>7, <2>1 DEF HashOK, Entering, Building
  <2>. QED
    BY <1>5, <1>7, <2>1, <2>2 DEF Entering, Building
<1>18. CASE Hash!Exit(t)
  <2>1. /\ x.pc = "idle"
        /\ UNCHANGED <<tables, producers, hashInactive, own, resizing, count>>
    BY <1>1, <1>18 DEF Hash!Exit, Hash!At
  <2>2. CASE o = None
    <3>1. hashThread' = [hashThread EXCEPT ![t] = asleep]
      BY <1>1, <1>6, <1>18, <2>2 DEF Hash!Exit, Hash!Step, Hash!Subscribed
    <3>2. HashOK(t, asleep, o)
      BY <1>2, <1>7, <2>1, <2>2 DEF HashOK, Entering, Building, Known
    <3>. QED
      BY <1>5, <1>7, <2>1, <3>1, <3>2 DEF Entering, Building
  <2>3. CASE o # None
    <3>1. PICK r : r = [idle EXCEPT !.pc = "leave", !.table = n]
      OBVIOUS
    <3>2. r \in HashRecord /\ r.pc = "leave" /\ r.table = n
      BY <1>2, <1>7, <3>1 DEF HashRecord
    <3>3. hashThread' = [hashThread EXCEPT ![t] = r]
      BY <1>1, <1>4, <1>6, <1>18, <2>3, <3>1
         DEF Hash!Exit, Hash!Step, Hash!Subscribed
    <3>4. HashOK(t, r, o)
      BY <1>1, <1>2, <2>1, <2>3, <3>2 DEF HashOK, Entering, Building
    <3>. QED
      BY <1>5, <2>1, <3>2, <3>3, <3>4 DEF Entering, Building
  <2>. QED
    BY <2>2, <2>3
<1>. QED
  BY <1>8, <1>9, <1>10, <1>11, <1>12, <1>13, <1>14, <1>15, <1>16, <1>17, <1>18

\* The search: what it finds in an older table is the thread's own producer.
LEMMA HashFound ==
  ASSUME HashInv, NEW t \in Id, Hash!Found(t)
  PROVE  HashInv'
<1>1. PICK x, o, n, m : x = hashThread[t] /\ o = own[t] /\ n = Len(tables) /\ m = x.main
  OBVIOUS
<1>2. /\ x \in HashRecord /\ o \in Pair \cup {None} /\ HashOK(t, x, o)
      /\ n \in Nat \ {0} /\ HashOf[t] \in Nat
  BY <1>1, HashThreadFacts
<1>3. /\ x.pc = "search" /\ Hash!Tables(t, m) # {}
      /\ UNCHANGED <<tables, producers, hashInactive, own, resizing, count>>
  BY <1>1 DEF Hash!Found, Hash!At
<1>4. m \in 1..n /\ Known(t, o, m)
  BY <1>1, <1>2, <1>3 DEF HashOK, Entering, Building
<1>5. PICK S : S = {l \in 1..m : Named(tables[l], t) # {}}
  OBVIOUS
<1>6. Hash!Tables(t, m) = S
  BY <1>1, <1>4, <1>5, TablesAre DEF HashInv
<1>7. PICK k : k = Hash!Latest(S)
  OBVIOUS
<1>8. k \in S
  <2>1. m \in Nat /\ S \subseteq 0..m /\ S # {}
    BY <1>3, <1>4, <1>5, <1>6
  <2>2. \E l \in S : \A i \in S : i <= l
    BY <2>1, Largest
  <2>. QED
    BY <1>7, <2>2 DEF Hash!Latest
<1>9. k \in 1..m /\ k \in 1..n /\ Named(tables[k], t) # {}
  <2>1. k \in 1..m /\ Named(tables[k], t) # {}
    BY <1>5, <1>8
  <2>2. k \in 1..n
    BY <1>2, <1>4, <2>1
  <2>. QED
    BY <2>1, <2>2
<1>10. PICK s, p : s = (CHOOSE i \in Hash!Slots(t, k) : TRUE) /\ p = tables[k].value[s]
  OBVIOUS
<1>11. s \in Named(tables[k], t)
  <2>1. Hash!Slots(t, k) = Named(tables[k], t)
    BY <1>1, <1>9, SlotsAre DEF HashInv
  <2>. QED
    BY <1>9, <1>10, <2>1
<1>12. o # None /\ p = o
  BY <1>1, <1>4, <1>9, <1>10, <1>11 DEF Known, Nowhere, Lists
<1>13. PICK idle, r :
         /\ idle = Hash!Idle
         /\ r = [x EXCEPT !.pc = "move", !.producer = p, !.table = m, !.slot = HashOf[t]]
  OBVIOUS
<1>14. hashThread' = [hashThread EXCEPT ![t] = IF k = m THEN idle ELSE r]
  BY <1>1, <1>6, <1>7, <1>10, <1>13 DEF Hash!Found, Hash!Step
<1>15. ASSUME NEW y \in HashRecord, hashThread' = [hashThread EXCEPT ![t] = y],
              y.pc \in {"idle", "move"}, HashOK(t, y, o)
       PROVE  HashInv'
  BY <1>1, <1>3, <1>15, HashQuiet DEF Entering, Building
<1>16. CASE k = m
  <2>1. idle \in HashRecord /\ idle.pc = "idle"
    BY <1>13, HashIdle
  <2>2. Known(t, o, n)
    <3>1. \A l \in 1..Len(tables) : \A i \in Named(tables[l], t) : tables[l].value[i] = o
      BY <1>4, <1>12 DEF Known, Lists
    <3>. QED
      BY <1>9, <1>12, <3>1 DEF Known, Lists
  <2>3. HashOK(t, idle, o)
    BY <1>1, <2>1, <2>2 DEF HashOK, Entering, Building
  <2>. QED
    BY <1>14, <1>15, <1>16, <2>1, <2>3
<1>17. CASE k # m
  <2>1. /\ r \in HashRecord /\ r.pc = "move" /\ r.main = m
        /\ r.producer = o /\ r.table = m /\ r.slot = HashOf[t]
    BY <1>1, <1>2, <1>4, <1>12, <1>13 DEF HashRecord
  <2>2. Reached(tables[m], HashOf[t], SlotOf(r, m))
    BY <1>1, <1>2, <1>4, <2>1, HashThreadFacts, ReachedFirst DEF SlotOf
  <2>3. HashOK(t, r, o)
    BY <1>1, <1>4, <1>12, <2>1, <2>2 DEF HashOK, Entering, Building
  <2>. QED
    BY <1>14, <1>15, <1>17, <2>1, <2>3
<1>. QED
  BY <1>16, <1>17

LEMMA HashNotFound ==
  ASSUME HashInv, NEW t \in Id, Hash!NotFound(t)
  PROVE  HashInv'
<1>1. PICK x, o, n, m : x = hashThread[t] /\ o = own[t] /\ n = Len(tables) /\ m = x.main
  OBVIOUS
<1>2. /\ x \in HashRecord /\ o \in Pair \cup {None} /\ HashOK(t, x, o)
      /\ n \in Nat \ {0} /\ count \in Nat
  BY <1>1, HashThreadFacts DEF HashInv, HashTypes
<1>3. /\ x.pc = "search" /\ Hash!Tables(t, m) = {} /\ count' = count + 1
      /\ UNCHANGED <<tables, producers, hashInactive, own, resizing>>
  BY <1>1 DEF Hash!NotFound, Hash!At
<1>4. m \in 1..n /\ Known(t, o, m)
  BY <1>1, <1>2, <1>3 DEF HashOK, Entering, Building
<1>5. \A l \in 1..m : Named(tables[l], t) = {}
  <2>1. Hash!Tables(t, m) = {l \in 1..m : Named(tables[l], t) # {}}
    BY <1>1, <1>4, TablesAre DEF HashInv
  <2>. QED
    BY <1>3, <2>1
<1>6. o = None /\ Nowhere(t)
  BY <1>4, <1>5 DEF Known, Lists
<1>7. PICK c, r : c = count + 1 /\ r = [x EXCEPT !.pc = "loop", !.count = c]
  OBVIOUS
<1>8. r \in HashRecord /\ r.pc = "loop" /\ r.main = m
  <2>1. c \in Nat
    BY <1>2, <1>7
  <2>. QED
    BY <1>1, <1>2, <1>7, <2>1 DEF HashRecord, Entering
<1>9. hashThread' = [hashThread EXCEPT ![t] = r]
  BY <1>1, <1>7 DEF Hash!NotFound, Hash!Step
<1>10. HashOK(t, r, o)
  BY <1>1, <1>4, <1>6, <1>8 DEF HashOK, Entering, Building
<1>11. r.pc \in Building <=> x.pc \in Building
  BY <1>3, <1>8 DEF Building
<1>. QED
  BY <1>1, <1>3, <1>8, <1>9, <1>10, <1>11, HashQuiet

\* The lock: only one thread can have it.
LEMMA HashTryLock ==
  ASSUME HashInv, NEW t \in Id, Hash!TryLock(t)
  PROVE  HashInv'
<1>1. PICK x, o : x = hashThread[t] /\ o = own[t]
  OBVIOUS
<1>2. x \in HashRecord /\ HashOK(t, x, o)
  BY <1>1, HashThreadFacts
<1>3. HashTypes /\ BuilderInv
  BY DEF HashInv
<1>4. PICK r : r = [x EXCEPT !.pc = "locked"]
  OBVIOUS
<1>5. r \in HashRecord /\ r.pc = "locked" /\ r.main = x.main
  BY <1>2, <1>4 DEF HashRecord, Entering
<1>6. /\ x.pc = "loop" /\ ~resizing /\ resizing' = TRUE
      /\ hashThread' = [hashThread EXCEPT ![t] = r]
      /\ UNCHANGED <<tables, count, producers, hashInactive, own>>
  BY <1>1, <1>4 DEF Hash!TryLock, Hash!Step, Hash!At
<1>7. HashTypes'
  <2>1. resizing' \in BOOLEAN /\ count' = count
        /\ (r.pc \in Entering => hashThread[t].pc \in Entering)
    BY <1>1, <1>6 DEF Entering
  <2>. QED
    BY <1>3, <1>5, <1>6, <2>1, CountStays
<1>8. BuilderInv'
  <2>1. /\ hashThread'[t] = r
        /\ \A u \in Id \ {t} : hashThread'[u] = hashThread[u]
    BY <1>3, <1>6 DEF HashTypes
  <2>2. Builders = {}
    BY <1>3, <1>6 DEF BuilderInv
  <2>3. Builders' = {t}
    BY <1>5, <2>1, <2>2 DEF Builders, Building
  <2>. QED
    BY <1>6, <2>3 DEF BuilderInv
<1>9. HashOK(t, r, o)
  BY <1>2, <1>5, <1>6 DEF HashOK, Entering, Building
<1>. QED
  BY <1>1, <1>5, <1>6, <1>7, <1>8, <1>9, HashLocal

LEMMA HashUnlock ==
  ASSUME HashInv, NEW t \in Id, Hash!Unlock(t)
  PROVE  HashInv'
<1>1. PICK x, o : x = hashThread[t] /\ o = own[t]
  OBVIOUS
<1>2. x \in HashRecord /\ HashOK(t, x, o)
  BY <1>1, HashThreadFacts
<1>3. HashTypes /\ BuilderInv
  BY DEF HashInv
<1>4. PICK idle, r : /\ idle = Hash!Idle
                     /\ r = IF x.pc = "unlock" THEN [x EXCEPT !.pc = "room"] ELSE idle
  OBVIOUS
<1>5. /\ r \in HashRecord
      /\ x.pc = "unlock" => r.pc = "room" /\ r.main = x.main
      /\ x.pc # "unlock" => r.pc = "idle"
  BY <1>2, <1>4, HashIdle DEF HashRecord, Entering
<1>6. /\ x.pc \in {"unlock", "clear"} /\ resizing' = FALSE
      /\ hashThread' = [hashThread EXCEPT ![t] = r]
      /\ UNCHANGED <<tables, count, producers, hashInactive, own>>
  BY <1>1, <1>4 DEF Hash!Unlock, Hash!Locked, Hash!Step, Hash!At
<1>7. HashTypes'
  <2>1. resizing' \in BOOLEAN /\ count' = count
        /\ (r.pc \in Entering => hashThread[t].pc \in Entering)
    BY <1>1, <1>5, <1>6 DEF Entering
  <2>. QED
    BY <1>3, <1>5, <1>6, <2>1, CountStays
<1>8. BuilderInv'
  <2>1. /\ hashThread'[t] = r
        /\ \A u \in Id \ {t} : hashThread'[u] = hashThread[u]
    BY <1>3, <1>6 DEF HashTypes
  <2>2. t \in Builders
    BY <1>1, <1>6 DEF Builders, Building
  <2>3. Builders = {t}
    BY <1>3, <2>2 DEF BuilderInv
  <2>4. Builders' = {}
    BY <1>5, <1>6, <2>1, <2>3 DEF Builders, Building
  <2>. QED
    BY <1>6, <2>4 DEF BuilderInv
<1>9. HashOK(t, r, o)
  BY <1>2, <1>5, <1>6 DEF HashOK, Entering, Building, Known
<1>. QED
  BY <1>1, <1>5, <1>6, <1>7, <1>8, <1>9, HashLocal

\* The doubling of a capacity until the table is less than half full comes to
\* an end, as every doubling adds one at least.
Doubles(g, c, n) ==
  /\ g = [j \in 0..n |-> g[j]]
  /\ \A j \in 0..n : g[j] = IF j = 0 THEN c ELSE 2 * g[j-1]

LEMMA Doubling ==
  ASSUME NEW c, NEW n \in Nat
  PROVE  \E g : Doubles(g, c, n)
<1>. DEFINE Bad == {i \in Nat : ~\E g : Doubles(g, c, i)}
<1>1. CASE Bad = {}
  BY <1>1
<1>2. CASE Bad # {}
  <2>1. PICK i \in Bad : \A h \in Bad : ~(<<h, i>> \in OpToRel(<, Nat))
    <3>1. Bad \subseteq Nat
      OBVIOUS
    <3>. HIDE DEF Bad
    <3>. QED
      BY <1>2, <3>1, NatLessThanWellFounded, WFMin
  <2>2. i \in Nat /\ ~\E g : Doubles(g, c, i)
    BY <2>1
  <2>3. CASE i = 0
    <3>1. PICK g : g = [j \in 0..0 |-> c]
      OBVIOUS
    <3>2. g = [j \in 0..0 |-> g[j]]
      BY <3>1
    <3>3. \A j \in 0..0 : g[j] = c /\ j = 0
      BY <3>1
    <3>. QED
      BY <2>2, <2>3, <3>2, <3>3 DEF Doubles
  <2>4. CASE i # 0
    <3>1. i - 1 \in Nat /\ i - 1 < i
      BY <2>2, <2>4
    <3>2. i - 1 \notin Bad
      <4>. HIDE DEF Bad
      <4>. QED
        BY <2>1, <2>2, <3>1 DEF OpToRel
    <3>3. PICK g : Doubles(g, c, i - 1)
      BY <3>1, <3>2
    <3>4. \A j \in 0..i-1 : g[j] = IF j = 0 THEN c ELSE 2 * g[j-1]
      BY <3>3 DEF Doubles
    <3>5. PICK h : h = [j \in 0..i |-> IF j = i THEN 2 * g[i-1] ELSE g[j]]
      OBVIOUS
    <3>6. ASSUME NEW j \in 0..i
          PROVE  h[j] = IF j = 0 THEN c ELSE 2 * h[j-1]
      <4>1. CASE j = i
        <5>1. j - 1 \in 0..i /\ j - 1 # i /\ j # 0
          BY <2>2, <2>4, <4>1
        <5>2. h[j-1] = g[i-1] /\ h[j] = 2 * g[i-1]
          BY <3>5, <4>1, <5>1
        <5>. QED
          BY <5>1, <5>2
      <4>2. CASE j # i
        <5>1. j \in 0..i-1 /\ h[j] = g[j]
          BY <2>2, <3>5, <4>2
        <5>2. j # 0 => j - 1 \in 0..i /\ j - 1 # i /\ h[j-1] = g[j-1]
          BY <2>2, <3>5, <5>1
        <5>. QED
          BY <3>4, <5>1, <5>2
      <4>. QED
        BY <4>1, <4>2
    <3>7. h = [j \in 0..i |-> h[j]]
      BY <3>5
    <3>8. Doubles(h, c, i)
      BY <3>6, <3>7 DEF Doubles
    <3>. QED
      BY <2>2, <3>8
  <2>. QED
    BY <2>3, <2>4
<1>. QED
  BY <1>1, <1>2

LEMMA Doubled ==
  ASSUME NEW c \in Nat \ {0}, NEW n \in Nat, NEW g, Doubles(g, c, n)
  PROVE  \A j \in 0..n : g[j] \in Nat /\ j < g[j]
<1>. DEFINE Bad == {j \in 0..n : ~(g[j] \in Nat /\ j < g[j])}
<1>1. CASE Bad = {}
  BY <1>1
<1>2. CASE Bad # {}
  <2>1. PICK i \in Bad : \A h \in Bad : ~(<<h, i>> \in OpToRel(<, Nat))
    <3>1. Bad \subseteq Nat
      OBVIOUS
    <3>. HIDE DEF Bad
    <3>. QED
      BY <1>2, <3>1, NatLessThanWellFounded, WFMin
  <2>2. i \in 0..n /\ ~(g[i] \in Nat /\ i < g[i])
    BY <2>1
  <2>3. i # 0
    <3>1. 0 \in 0..n
      OBVIOUS
    <3>2. g[0] = c
      BY <3>1 DEF Doubles
    <3>. QED
      BY <2>2, <3>2
  <2>4. i - 1 \in 0..n /\ i - 1 \in Nat /\ i \in Nat /\ i - 1 < i
    BY <2>2, <2>3
  <2>5. i - 1 \notin Bad
    <3>. HIDE DEF Bad
    <3>. QED
      BY <2>1, <2>4 DEF OpToRel
  <2>6. PICK d : d = g[i-1]
    OBVIOUS
  <2>7. d \in Nat /\ i - 1 < d
    BY <2>4, <2>5, <2>6
  <2>8. g[i] = 2 * d
    BY <2>2, <2>3, <2>6 DEF Doubles
  <2>9. 2 * d \in Nat /\ i < 2 * d
    BY <2>4, <2>7
  <2>. QED
    BY <2>2, <2>8, <2>9
<1>. QED
  BY <1>1, <1>2

LEMMA NewCapacityIs ==
  ASSUME NEW n \in Nat, NEW k, Hash!Capacity(k) \in Nat \ {0}
  PROVE  Hash!NewCapacity(n, k) \in Nat \ {0}
<1>. DEFINE Size(g) ==
              g = [j \in 0..n+1 |-> IF j = 0 THEN Hash!Capacity(k) ELSE 2 * g[j-1]]
            Fits(g, j) ==
              ~(n >= g[j] \div 2) /\ \A i \in 1..j-1 : n >= g[i] \div 2
<1>1. PICK g : g = CHOOSE h : Size(h)
  OBVIOUS
<1>2. Hash!NewCapacity(n, k) = g[CHOOSE j \in 1..n+1 : Fits(g, j)]
  BY <1>1 DEF Hash!NewCapacity
<1>3. PICK c, m : c = Hash!Capacity(k) /\ m = n + 1
  OBVIOUS
<1>4. Doubles(g, c, m)
  <2>1. c \in Nat \ {0} /\ m \in Nat
    BY <1>3
  <2>2. PICK h : Doubles(h, c, m)
    BY <2>1, Doubling
  <2>3. Size(h)
    BY <1>3, <2>2 DEF Doubles
  <2>4. Size(g)
    <3>. HIDE DEF Size
    <3>. QED
      BY <1>1, <2>3
  <2>5. \A j \in 0..n+1 : g[j] = IF j = 0 THEN Hash!Capacity(k) ELSE 2 * g[j-1]
    BY <2>4
  <2>6. g = [j \in 0..n+1 |-> g[j]]
    BY <2>4
  <2>. QED
    BY <1>3, <2>5, <2>6 DEF Doubles
<1>. HIDE DEF Size
<1>5. \A j \in 0..n+1 : g[j] \in Nat /\ j < g[j]
  <2>1. c \in Nat \ {0} /\ m \in Nat
    BY <1>3
  <2>. QED
    BY <1>3, <1>4, <2>1, Doubled
<1>6. \E j \in 1..n+1 : Fits(g, j)
  <2>. DEFINE Large == {j \in 1..n+1 : ~(n >= g[j] \div 2)}
  <2>1. n + 1 \in Large
    <3>1. n + 1 \in 0..n+1 /\ n \in 0..n+1 /\ (n + 1) - 1 = n /\ n + 1 # 0
      OBVIOUS
    <3>2. PICK d : d = g[n]
      OBVIOUS
    <3>3. d \in Nat /\ n < d
      BY <1>5, <3>1, <3>2
    <3>4. g[n+1] = 2 * d
      BY <1>3, <1>4, <3>1, <3>2 DEF Doubles
    <3>5. (2 * d) \div 2 = d
      BY <3>3
    <3>. QED
      BY <3>1, <3>3, <3>4, <3>5
  <2>2. PICK j \in Large : \A i \in Large : ~(<<i, j>> \in OpToRel(<, Nat))
    <3>1. Large \subseteq Nat
      OBVIOUS
    <3>. HIDE DEF Large
    <3>. QED
      BY <2>1, <3>1, NatLessThanWellFounded, WFMin
  <2>3. j \in 1..n+1 /\ ~(n >= g[j] \div 2)
    BY <2>2
  <2>4. ASSUME NEW i \in 1..j-1
        PROVE  n >= g[i] \div 2
    <3>1. i \in 1..n+1 /\ i \in Nat /\ j \in Nat /\ i < j
      BY <2>3
    <3>2. i \notin Large
      <4>. HIDE DEF Large
      <4>. QED
        BY <2>2, <3>1 DEF OpToRel
    <3>. QED
      BY <3>1, <3>2
  <2>. QED
    BY <2>3, <2>4
<1>7. PICK j : j = CHOOSE i \in 1..n+1 : Fits(g, i)
  OBVIOUS
<1>8. j \in 1..n+1
  <2>. HIDE DEF Fits
  <2>. QED
    BY <1>6, <1>7
<1>9. g[j] \in Nat /\ j < g[j] /\ j \in Nat
  BY <1>5, <1>8
<1>. QED
  BY <1>2, <1>7, <1>9

\* A larger table: nobody's id is in it yet.
LEMMA HashGrow ==
  ASSUME HashInv, NEW t \in Id, Hash!Grow(t)
  PROVE  HashInv'
<1>1. PICK x, o, n, m : x = hashThread[t] /\ o = own[t] /\ n = Len(tables) /\ m = x.main
  OBVIOUS
<1>2. /\ x \in HashRecord /\ o \in Pair \cup {None} /\ HashOK(t, x, o)
      /\ n \in Nat \ {0} /\ \A k \in 1..n : Hash!Capacity(k) \in Nat \ {0}
  BY <1>1, HashThreadFacts
<1>3. TablesInv /\ HashTypes /\ BuilderInv /\ OwnInv
  BY DEF HashInv
<1>4. PICK w, U : w = Hash!NewCapacity(x.count, m) /\ U = Hash!NewTable(w, m)
  OBVIOUS
<1>5. PICK l, r : l = n + 1 /\ r = [x EXCEPT !.pc = "unlock", !.main = l]
  OBVIOUS
<1>6. /\ x.pc = "grow" /\ n < MaxTables
      /\ tables' = Append(tables, U)
      /\ hashThread' = [hashThread EXCEPT ![t] = r]
      /\ UNCHANGED <<count, resizing, producers, hashInactive, own>>
  BY <1>1, <1>4, <1>5 DEF Hash!Grow, Hash!Step, Hash!At
<1>7. m = n
  BY <1>1, <1>2, <1>6 DEF HashOK
<1>8. w \in Nat \ {0}
  <2>1. x.count \in Nat
    BY <1>2 DEF HashRecord
  <2>2. Hash!Capacity(m) \in Nat \ {0}
    BY <1>2, <1>7
  <2>. QED
    BY <1>4, <2>1, <2>2, NewCapacityIs
<1>9. U \in TableOf(w) /\ U.prev = n /\ \A i \in 0..w-1 : U.key[i] = Hash!Empty
  BY <1>2, <1>4, <1>7 DEF Hash!NewTable, TableOf, HashKeys
<1>10. U \in Table /\ DOMAIN U.key = 0..w-1
  BY <1>8, <1>9, TableIs
<1>11. \A u \in Id : Named(U, u) = {}
  BY <1>9, <1>10, HashFacts DEF Named
<1>12. /\ tables \in Seq(Table) /\ MaxTables \in Nat
       /\ \A k \in 1..n :
            /\ tables[k].prev = k - 1
            /\ \A u \in Id : \A s \in Named(tables[k], u) :
                 Reached(tables[k], HashOf[u], s)
  BY <1>1, <1>3, HashFacts DEF TablesInv
<1>13. /\ tables' \in Seq(Table) /\ Len(tables') = n + 1 /\ tables'[n+1] = U
       /\ \A k \in 1..n : tables'[k] = tables[k]
  BY <1>1, <1>6, <1>10, <1>12
<1>14. \A k \in 1..n+1 : k \in 1..n \/ k = n + 1
  BY <1>2
<1>15. ASSUME NEW k \in 1..n+1
       PROVE  /\ tables'[k].prev = k - 1
              /\ \A u \in Id : \A s \in Named(tables'[k], u) :
                   Reached(tables'[k], HashOf[u], s)
  <2>1. CASE k \in 1..n
    BY <1>12, <1>13, <2>1
  <2>2. CASE k = n + 1
    <3>1. tables'[k] = U /\ U.prev = k - 1
      BY <1>2, <1>9, <1>13, <2>2
    <3>. QED
      BY <1>11, <3>1
  <2>. QED
    BY <1>14, <2>1, <2>2
<1>16. TablesInv'
  <2>1. Len(tables') \in 1..MaxTables
    BY <1>2, <1>6, <1>12, <1>13
  <2>2. \A k \in 1..Len(tables') :
          /\ tables'[k].prev = k - 1
          /\ \A u \in Id : \A s \in Named(tables'[k], u) :
               Reached(tables'[k], HashOf[u], s)
    BY <1>13, <1>15
  <2>. QED
    BY <1>13, <2>1, <2>2 DEF TablesInv, Named, Reached, Width
<1>17. TablesStep(t)
  <2>1. \A T : TableStep(T, T, t)
    BY DEF TableStep
  <2>2. Len(tables) <= Len(tables')
    BY <1>1, <1>2, <1>13
  <2>3. \A k \in 1..Len(tables) : TableStep(tables[k], tables'[k], t)
    BY <1>1, <1>13, <2>1
  <2>4. \A k \in Len(tables)+1..Len(tables') :
          \A u \in Id : Named(tables'[k], u) = {}
    <3>1. \A k \in n+1..n+1 : k = n + 1
      BY <1>2
    <3>. QED
      BY <1>1, <1>11, <1>13, <3>1
  <2>. QED
    BY <2>2, <2>3, <2>4 DEF TablesStep
<1>18. r \in HashRecord /\ r.pc = "unlock" /\ r.main = n + 1
  <2>1. l \in Nat
    BY <1>2, <1>5
  <2>2. r \in HashRecord
    BY <1>2, <1>5, <2>1 DEF HashRecord, Entering
  <2>3. r.pc = "unlock" /\ r.main = l
    BY <1>2, <1>5 DEF HashRecord
  <2>. QED
    BY <1>5, <2>2, <2>3
<1>19. HashOK(t, r, o)'
  <2>1. o = None /\ Nowhere(t)
    BY <1>2, <1>6 DEF HashOK
  <2>2. \A k \in 1..n+1 : Named(tables'[k], t) = {}
    BY <1>1, <1>11, <1>13, <1>14, <2>1 DEF Nowhere
  <2>3. Nowhere(t)'
    BY <1>13, <2>2 DEF Nowhere, Named
  <2>4. r.main \in 1..Len(tables')
    BY <1>2, <1>13, <1>18
  <2>. QED
    BY <1>18, <2>1, <2>3, <2>4 DEF HashOK, Entering, Building
<1>20. HashTypes'
  <2>1. resizing' \in BOOLEAN /\ count' = count
        /\ (r.pc \in Entering => hashThread[t].pc \in Entering)
    BY <1>1, <1>3, <1>6 DEF Entering, HashTypes
  <2>. QED
    BY <1>3, <1>6, <1>18, <2>1, CountStays
<1>21. BuilderInv'
  <2>1. r.pc \in Building <=> hashThread[t].pc \in Building
    BY <1>1, <1>6, <1>18 DEF Building
  <2>. QED
    BY <1>3, <1>6, <2>1, BuilderStays
<1>22. own' = [own EXCEPT ![t] = o] /\ OwnInv'
  BY <1>1, <1>3, <1>6 DEF OwnInv
<1>23. hashThread[t].pc = "grow"
  BY <1>1, <1>6
<1>. QED
  BY <1>6, <1>16, <1>17, <1>18, <1>19, <1>20, <1>21, <1>22, <1>23, HashMoves

\* A thread's id is written into a free slot that its search gets to.
LEMMA HashWrite ==
  ASSUME HashInv, NEW t \in Id, NEW k \in 1..Len(tables), NEW s, NEW p \in Pair,
         Reached(tables[k], HashOf[t], s),
         tables[k].key[s] \in {Hash!Empty, Hash!Reusable},
         tables' = [tables EXCEPT ![k].key[s] = t, ![k].value[s] = p],
         Nowhere(t) \/ Lists(t, p, Len(tables))
  PROVE  /\ TablesInv' /\ TablesStep(t) /\ Len(tables') = Len(tables)
         /\ Known(t, p, Len(tables))'
<1>1. PICK n, T, h : n = Len(tables) /\ T = tables[k] /\ h = HashOf[t]
  OBVIOUS
<1>2. /\ tables \in Seq(Table) /\ n \in 1..MaxTables /\ MaxTables \in Nat
      /\ \A j \in 1..n :
           /\ tables[j].prev = j - 1
           /\ \A u \in Id : \A i \in Named(tables[j], u) :
                Reached(tables[j], HashOf[u], i)
  BY <1>1, HashFacts DEF HashInv, TablesInv
<1>3. T \in Table /\ h \in Nat /\ Reached(T, h, s) /\ k \in 1..n
  BY <1>1, <1>2, HashFacts
<1>4. PICK w \in Nat \ {0} :
        /\ w = Width(T) /\ T \in TableOf(w) /\ DOMAIN T.key = 0..w-1
        /\ T.key \in [0..w-1 -> HashKeys] /\ T.value \in [0..w-1 -> Pair \cup {None}]
  BY <1>3, TableFacts
<1>5. s \in 0..w-1
  BY <1>3, <1>4, ReachedRange
<1>6. PICK U : U = [T EXCEPT !.key[s] = t, !.value[s] = p]
  OBVIOUS
<1>7. /\ U \in TableOf(w) /\ U.prev = T.prev
      /\ U.key = [T.key EXCEPT ![s] = t] /\ U.value = [T.value EXCEPT ![s] = p]
  <2>1. PICK K, V : K = [T.key EXCEPT ![s] = t] /\ V = [T.value EXCEPT ![s] = p]
    OBVIOUS
  <2>2. U.key = K /\ U.value = V /\ U.prev = T.prev
    BY <1>4, <1>6, <2>1 DEF TableOf
  <2>3. K \in [0..w-1 -> HashKeys] /\ V \in [0..w-1 -> Pair \cup {None}]
    BY <1>4, <1>5, <2>1 DEF HashKeys
  <2>4. U \in TableOf(w)
    BY <1>4, <1>6, <2>1, <2>3 DEF TableOf
  <2>. QED
    BY <2>1, <2>2, <2>4
<1>8. U \in Table /\ Width(U) = w /\ DOMAIN U.key = 0..w-1
  BY <1>7, TableIs
<1>9. /\ U.key[s] = t /\ U.value[s] = p
      /\ \A i \in (0..w-1) \ {s} : U.key[i] = T.key[i] /\ U.value[i] = T.value[i]
  BY <1>4, <1>5, <1>7
<1>10. tables' = [tables EXCEPT ![k] = U]
  BY <1>1, <1>6
<1>11. /\ tables' \in Seq(Table) /\ Len(tables') = n /\ tables'[k] = U
       /\ \A j \in (1..n) \ {k} : tables'[j] = tables[j]
  <2>1. PICK f, g : f = tables /\ g = [f EXCEPT ![k] = U]
    OBVIOUS
  <2>2. f \in Seq(Table) /\ Len(f) = n /\ k \in 1..Len(f) /\ U \in Table
    BY <1>1, <1>2, <1>3, <1>8, <2>1
  <2>3. /\ g \in Seq(Table) /\ Len(g) = n /\ g[k] = U
        /\ \A j \in (1..n) \ {k} : g[j] = f[j]
    BY <2>1, <2>2, SequenceExcept
  <2>. QED
    BY <1>10, <2>1, <2>3
<1>12. \A i \in DOMAIN T.key : U.key[i] = Hash!Empty => T.key[i] = Hash!Empty
  BY <1>4, <1>9, HashFacts
<1>13. ASSUME NEW u \in Id, NEW i, Reached(T, HashOf[u], i)
       PROVE  Reached(U, HashOf[u], i)
  <2>1. PICK g : g = HashOf[u]
    OBVIOUS
  <2>2. g \in Nat /\ Width(U) = Width(T)
    BY <1>4, <1>8, <2>1, HashFacts
  <2>. QED
    BY <1>3, <1>12, <1>13, <2>1, <2>2, ReachedStays
<1>14. \A u \in Id \ {t} :
         /\ Named(U, u) = Named(T, u)
         /\ \A i \in Named(T, u) : U.value[i] = T.value[i] /\ i # s
  <2>1. t \in Id /\ T.key[s] \notin Id
    BY <1>1, HashFacts
  <2>. QED
    BY <1>4, <1>8, <1>9, <2>1 DEF Named
<1>15. Named(U, t) = Named(T, t) \cup {s}
  BY <1>4, <1>5, <1>8, <1>9 DEF Named
<1>16. ASSUME NEW u \in Id, NEW i \in Named(U, u)
       PROVE  Reached(U, HashOf[u], i)
  <2>1. \A j : Reached(T, HashOf[u], j) => Reached(U, HashOf[u], j)
    BY <1>13
  <2>2. \A j \in Named(T, u) : Reached(T, HashOf[u], j)
    BY <1>1, <1>2, <1>3
  <2>3. CASE u = t
    BY <1>1, <1>3, <1>15, <1>16, <2>1, <2>2, <2>3
  <2>4. CASE u # t
    BY <1>14, <1>16, <2>1, <2>2, <2>4
  <2>. QED
    BY <2>3, <2>4
<1>17. TablesInv'
  <2>1. \A j \in 1..n :
          /\ tables'[j].prev = j - 1
          /\ \A u \in Id : \A i \in Named(tables'[j], u) :
               Reached(tables'[j], HashOf[u], i)
    <3>. SUFFICES ASSUME NEW j \in 1..n
                  PROVE  /\ tables'[j].prev = j - 1
                         /\ \A u \in Id : \A i \in Named(tables'[j], u) :
                              Reached(tables'[j], HashOf[u], i)
      OBVIOUS
    <3>1. CASE j = k
      BY <1>1, <1>2, <1>7, <1>11, <1>16, <3>1
    <3>2. CASE j # k
      BY <1>2, <1>11, <3>2
    <3>. QED
      BY <3>1, <3>2
  <2>. QED
    BY <1>2, <1>11, <2>1, Zenon DEF TablesInv, Named, Reached, Width
<1>18. TablesStep(t)
  <2>1. \A X : TableStep(X, X, t)
    BY DEF TableStep
  <2>2. TableStep(T, U, t)
    BY <1>4, <1>8, <1>12, <1>14 DEF TableStep
  <2>3. \A j \in 1..n : TableStep(tables[j], tables'[j], t)
    BY <1>1, <1>11, <2>1, <2>2
  <2>4. Len(tables) = n /\ Len(tables') = n /\ n \in Nat
    BY <1>1, <1>2, <1>11
  <2>5. Len(tables) <= Len(tables') /\ Len(tables)+1..Len(tables') = {}
    BY <2>4
  <2>6. \A j \in 1..Len(tables) : TableStep(tables[j], tables'[j], t)
    BY <2>3, <2>4
  <2>. QED
    BY <2>5, <2>6 DEF TablesStep
<1>19. Known(t, p, Len(tables))'
  <2>1. \A j \in 1..n : \A i \in Named(tables[j], t) : tables[j].value[i] = p
    BY <1>1 DEF Nowhere, Lists
  <2>2. ASSUME NEW j \in 1..n, NEW i \in Named(tables'[j], t)
        PROVE  tables'[j].value[i] = p
    <3>1. CASE j # k
      BY <1>11, <2>1, <2>2, <3>1
    <3>2. CASE j = k /\ i = s
      BY <1>9, <1>11, <3>2
    <3>3. CASE j = k /\ i # s
      <4>1. i \in Named(T, t) /\ i \in 0..w-1
        BY <1>4, <1>11, <1>15, <2>2, <3>3 DEF Named
      <4>. QED
        BY <1>1, <1>9, <1>11, <2>1, <3>3, <4>1
    <3>. QED
      BY <3>1, <3>2, <3>3
  <2>3. Named(tables'[k], t) # {} /\ k \in 1..n
    BY <1>3, <1>11, <1>15
  <2>4. Lists(t, p, Len(tables))'
    BY <1>11, <2>2, <2>3 DEF Lists, Named
  <2>. QED
    BY <2>4, HashFacts DEF Known
<1>. QED
  BY <1>1, <1>11, <1>17, <1>18, <1>19

\* A probe finds a free slot and takes it, or goes on.
Takes(t, x, r, k, s) ==
  /\ k = x.main /\ s = SlotOf(x, k)
  /\ tables[k].key[s] \in {Hash!Empty, Hash!Reusable}
  /\ tables' = [tables EXCEPT ![k].key[s] = t, ![k].value[s] = x.producer]
  /\ hashThread' = [hashThread EXCEPT ![t] = r]
  /\ \/ x.pc \in {"move", "insert"} /\ r.pc = "idle"
     \/ x.pc = "insert" /\ r.pc = "uncount"
GoesOn(t, x, k, s) ==
  /\ k = x.main /\ s = SlotOf(x, k)
  /\ tables[k].key[s] \notin {Hash!Empty, Hash!Reusable}
  /\ hashThread' = [hashThread EXCEPT ![t] = [x EXCEPT !.slot = s + 1]]
  /\ x.pc \in {"move", "insert"} /\ UNCHANGED tables

LEMMA HashWritten ==
  ASSUME HashInv, NEW t \in Id, NEW r \in HashRecord, NEW k, NEW s,
         Takes(t, hashThread[t], r, k, s),
         UNCHANGED <<count, resizing, producers, hashInactive, own>>
  PROVE  HashInv'
<1>1. PICK x, o, n : x = hashThread[t] /\ o = own[t] /\ n = Len(tables)
  OBVIOUS
<1>probe. /\ k = x.main /\ s = SlotOf(x, k)
      /\ tables[k].key[s] \in {Hash!Empty, Hash!Reusable}
      /\ tables' = [tables EXCEPT ![k].key[s] = t, ![k].value[s] = x.producer]
      /\ hashThread' = [hashThread EXCEPT ![t] = r]
      /\ \/ x.pc \in {"move", "insert"} /\ r.pc = "idle"
         \/ x.pc = "insert" /\ r.pc = "uncount"
  BY <1>1 DEF Takes
<1>2. /\ x \in HashRecord /\ o \in Pair \cup {None} /\ HashOK(t, x, o)
      /\ n \in Nat \ {0}
  BY <1>1, HashThreadFacts
<1>3. HashTypes /\ BuilderInv /\ OwnInv
  BY DEF HashInv
<1>4. /\ x.pc \in {"move", "insert"} /\ r.pc \in {"idle", "uncount"}
      /\ r.pc = "uncount" => x.pc = "insert"
  BY <1>probe
<1>5. /\ o # None /\ x.producer = o /\ k \in 1..n
      /\ Reached(tables[k], HashOf[t], s)
  BY <1>probe, <1>1, <1>2, <1>4 DEF HashOK, Entering, Building
<1>6. Nowhere(t) \/ Lists(t, o, Len(tables))
  <2>1. CASE x.pc = "insert"
    BY <1>2, <2>1 DEF HashOK
  <2>2. CASE x.pc = "move"
    <3>1. Lists(t, o, k)
      BY <1>probe, <1>2, <1>5, <2>2 DEF HashOK, Known
    <3>2. k \in 1..n /\ n \in Nat
      BY <1>2, <1>5
    <3>3. \A j \in 1..k : j \in 1..n
      BY ONLY <3>2
    <3>. QED
      BY <1>1, <3>1, <3>3 DEF Lists
  <2>. QED
    BY <1>4, <2>1, <2>2
<1>7. /\ TablesInv' /\ TablesStep(t) /\ Len(tables') = Len(tables)
      /\ Known(t, o, Len(tables))'
  <2>1. o \in Pair /\ k \in 1..Len(tables)
    BY <1>1, <1>2, <1>5
  <2>2. tables' = [tables EXCEPT ![k].key[s] = t, ![k].value[s] = o]
    BY <1>probe, <1>5
  <2>. QED
    BY <1>probe, <1>5, <1>6, <2>1, <2>2, HashWrite
<1>8. HashOK(t, r, o)'
  BY <1>4, <1>7 DEF HashOK, Entering, Building
<1>9. HashTypes'
  <2>1. resizing' \in BOOLEAN /\ count' = count
        /\ (r.pc \in Entering => hashThread[t].pc \in Entering)
    BY <1>1, <1>3, <1>4 DEF Entering, HashTypes
  <2>. QED
    BY <1>probe, <1>3, <2>1, CountStays
<1>10. BuilderInv'
  <2>1. r.pc \in Building <=> hashThread[t].pc \in Building
    BY <1>1, <1>4 DEF Building
  <2>2. resizing' = resizing
    OBVIOUS
  <2>. QED
    BY <1>probe, <1>3, <2>1, <2>2, BuilderStays
<1>11. own' = [own EXCEPT ![t] = o] /\ OwnInv'
  BY <1>1, <1>3 DEF OwnInv
<1>. QED
  BY <1>probe, <1>7, <1>8, <1>9, <1>10, <1>11, HashMoves

LEMMA HashTaken ==
  ASSUME HashInv, NEW t \in Id, NEW k, NEW s, GoesOn(t, hashThread[t], k, s),
         UNCHANGED <<count, resizing, producers, hashInactive, own>>
  PROVE  HashInv'
<1>1. PICK x, o, n, c : /\ x = hashThread[t] /\ o = own[t] /\ n = Len(tables)
                        /\ c = s + 1
  OBVIOUS
<1>probe. /\ k = x.main /\ s = SlotOf(x, k)
      /\ tables[k].key[s] \notin {Hash!Empty, Hash!Reusable}
      /\ hashThread' = [hashThread EXCEPT ![t] = [x EXCEPT !.slot = c]]
      /\ UNCHANGED tables
  BY <1>1 DEF GoesOn
<1>2. /\ x \in HashRecord /\ o \in Pair \cup {None} /\ HashOK(t, x, o)
      /\ n \in Nat \ {0} /\ HashOf[t] \in Nat
  BY <1>1, HashThreadFacts
<1>3. x.pc \in {"move", "insert"}
  BY <1>1 DEF GoesOn
<1>4. k \in 1..n /\ Reached(tables[k], HashOf[t], s)
  BY <1>probe, <1>1, <1>2, <1>3 DEF HashOK, Entering, Building
<1>5. tables[k] \in Table
  BY <1>1, <1>4, HashThreadFacts
<1>6. s \in Nat /\ c \in Nat /\ Reached(tables[k], HashOf[t], c % Width(tables[k]))
  <2>1. s \in Nat
    BY <1>2, <1>4, <1>5, ReachedRange
  <2>2. Reached(tables[k], HashOf[t], c % Width(tables[k]))
    BY <1>probe, <1>1, <1>2, <1>4, <1>5, HashFacts, ReachedNext
  <2>3. c \in Nat
    BY ONLY <1>1, <2>1
  <2>. QED
    BY <2>1, <2>2, <2>3
<1>7. PICK r : r = [x EXCEPT !.slot = c]
  OBVIOUS
<1>8. /\ r \in HashRecord /\ r.pc = x.pc /\ r.main = k /\ r.slot = c
      /\ r.table = x.table /\ r.producer = x.producer
  <2>1. c \in Nat
    BY <1>6
  <2>2. r \in HashRecord
    BY <1>2, <1>7, <2>1 DEF HashRecord
  <2>3. /\ r.pc = x.pc /\ r.main = x.main /\ r.slot = c
        /\ r.table = x.table /\ r.producer = x.producer
    BY <1>2, <1>7 DEF HashRecord
  <2>. QED
    BY <1>probe, <2>2, <2>3
<1>9. HashOK(t, r, o)
  <2>1. Reached(tables[k], HashOf[t], SlotOf(r, k))
    BY <1>6, <1>8 DEF SlotOf
  <2>. QED
    BY <1>probe, <1>1, <1>2, <1>3, <1>8, <2>1 DEF HashOK, Entering, Building
<1>10. hashThread' = [hashThread EXCEPT ![t] = r]
  BY <1>probe, <1>7
<1>. QED
  BY <1>probe, <1>1, <1>3, <1>8, <1>9, <1>10, HashQuiet

LEMMA HashMove ==
  ASSUME HashInv, NEW t \in Id, Hash!Move(t)
  PROVE  HashInv'
<1>1. PICK x, k, s : /\ x = hashThread[t] /\ k = x.main
                     /\ s = SlotOf(x, k)
  OBVIOUS
<1>2. x.pc = "move" /\ x \in HashRecord
  BY <1>1, HashThreadFacts DEF Hash!Move, Hash!At
<1>3. x.table = k /\ Hash!Capacity(k) = Width(tables[k])
  <2>1. HashOK(t, x, own[t])
    BY <1>1, HashThreadFacts
  <2>2. x.table = k /\ k \in 1..Len(tables)
    BY <1>1, <1>2, <2>1 DEF HashOK, Entering, Building
  <2>. QED
    BY <2>2, HashThreadFacts
<1>4. CASE tables[k].key[s] \in {Hash!Empty, Hash!Reusable}
  <2>1. PICK idle : idle = Hash!Idle
    OBVIOUS
  <2>2. idle \in HashRecord /\ idle.pc = "idle"
    BY <2>1, HashIdle
  <2>3. /\ tables' = [tables EXCEPT ![k].key[s] = t, ![k].value[s] = x.producer]
        /\ hashThread' = [hashThread EXCEPT ![t] = idle]
        /\ UNCHANGED <<count, resizing, producers, hashInactive, own>>
    BY <1>1, <1>3, <1>4, <2>1 DEF Hash!Move, Hash!Write, Hash!Step, SlotOf
  <2>4. Takes(t, hashThread[t], idle, k, s)
    BY <1>1, <1>2, <1>4, <2>2, <2>3 DEF Takes
  <2>. QED
    BY <2>2, <2>3, <2>4, HashWritten
<1>5. CASE tables[k].key[s] \notin {Hash!Empty, Hash!Reusable}
  <2>1. /\ hashThread' = [hashThread EXCEPT ![t] = [x EXCEPT !.slot = s + 1]]
        /\ UNCHANGED <<tables, count, resizing, producers, hashInactive, own>>
    BY <1>1, <1>3, <1>5 DEF Hash!Move, Hash!Step, SlotOf
  <2>2. GoesOn(t, hashThread[t], k, s)
    BY <1>1, <1>2, <1>5, <2>1 DEF GoesOn
  <2>. QED
    BY <2>1, <2>2, HashTaken
<1>. QED
  BY <1>4, <1>5

LEMMA HashInsert ==
  ASSUME HashInv, NEW t \in Id, Hash!Insert(t)
  PROVE  HashInv'
<1>1. PICK x, k, s : /\ x = hashThread[t] /\ k = x.main
                     /\ s = SlotOf(x, k)
  OBVIOUS
<1>2. x.pc = "insert" /\ x \in HashRecord
  BY <1>1, HashThreadFacts DEF Hash!Insert, Hash!At
<1>3. Hash!Capacity(k) = Width(tables[k])
  <2>1. HashOK(t, x, own[t])
    BY <1>1, HashThreadFacts
  <2>2. k \in 1..Len(tables)
    BY <1>1, <1>2, <2>1 DEF HashOK, Entering, Building
  <2>. QED
    BY <2>2, HashThreadFacts
<1>4. CASE tables[k].key[s] \in {Hash!Empty, Hash!Reusable}
  <2>1. PICK idle, r : /\ idle = Hash!Idle
                       /\ r = IF tables[k].key[s] = Hash!Reusable
                              THEN [x EXCEPT !.pc = "uncount"] ELSE idle
    OBVIOUS
  <2>2. r \in HashRecord /\ r.pc \in {"idle", "uncount"}
    BY <1>2, <2>1, HashIdle DEF HashRecord, Entering
  <2>3. /\ tables' = [tables EXCEPT ![k].key[s] = t, ![k].value[s] = x.producer]
        /\ hashThread' = [hashThread EXCEPT ![t] = r]
        /\ UNCHANGED <<count, resizing, producers, hashInactive, own>>
    BY <1>1, <1>3, <1>4, <2>1 DEF Hash!Insert, Hash!UsedBefore, Hash!Write, Hash!Step,
       SlotOf
  <2>4. Takes(t, hashThread[t], r, k, s)
    BY <1>1, <1>2, <1>4, <2>2, <2>3 DEF Takes
  <2>. QED
    BY <2>2, <2>3, <2>4, HashWritten
<1>5. CASE tables[k].key[s] \notin {Hash!Empty, Hash!Reusable}
  <2>1. /\ hashThread' = [hashThread EXCEPT ![t] = [x EXCEPT !.slot = s + 1]]
        /\ UNCHANGED <<tables, count, resizing, producers, hashInactive, own>>
    BY <1>1, <1>3, <1>5 DEF Hash!Insert, Hash!Step, SlotOf
  <2>2. GoesOn(t, hashThread[t], k, s)
    BY <1>1, <1>2, <1>5, <2>1 DEF GoesOn
  <2>. QED
    BY <2>1, <2>2, HashTaken
<1>. QED
  BY <1>4, <1>5

\* A producer that nobody has is caught or created.
LEMMA HashGiven ==
  ASSUME HashInv, NEW t \in Id, NEW p \in Pair,
         hashThread[t].pc \in {"catch", "producer"},
         hashThread' = [hashThread EXCEPT ![t] =
           [hashThread[t] EXCEPT !.pc = "insert", !.slot = HashOf[t], !.producer = p]],
         own' = [own EXCEPT ![t] = p],
         hashInactive' \subseteq hashInactive, producers \subseteq producers',
         producers' \subseteq producers \cup {p},
         p \in producers' \ hashInactive', \A u \in Id : own[u] # p,
         UNCHANGED <<tables, count, resizing>>
  PROVE  HashInv'
<1>1. PICK x, n, h : x = hashThread[t] /\ n = Len(tables) /\ h = HashOf[t]
  OBVIOUS
<1>2. /\ x \in HashRecord /\ HashOK(t, x, own[t])
      /\ n \in Nat \ {0} /\ h \in Nat
  BY <1>1, HashThreadFacts
<1>3. TablesInv /\ HashTypes /\ BuilderInv /\ OwnInv
  BY DEF HashInv
<1>4. x.pc \in {"catch", "producer"}
  BY <1>1
<1>5. Nowhere(t) /\ x.main \in 1..n
  BY <1>1, <1>2, <1>4 DEF HashOK, Entering, Building
<1>6. PICK r : r = [x EXCEPT !.pc = "insert", !.slot = h, !.producer = p]
  OBVIOUS
<1>7. /\ r \in HashRecord /\ r.pc = "insert" /\ r.main = x.main /\ r.slot = h
      /\ r.producer = p
  BY <1>2, <1>6 DEF HashRecord, Entering
<1>8. Reached(tables[x.main], h, SlotOf(r, x.main))
  BY <1>1, <1>2, <1>5, <1>7, HashThreadFacts, ReachedFirst DEF SlotOf
<1>9. hashThread' = [hashThread EXCEPT ![t] = r]
  BY <1>1, <1>6
<1>10. TablesInv' /\ TablesStep(t) /\ Len(tables') = Len(tables)
  BY <1>3, TablesSame
<1>11. HashOK(t, r, p)'
  <2>1. HashOK(t, r, p)
    BY <1>1, <1>5, <1>8, <1>7, HashFacts DEF HashOK, Entering, Building
  <2>2. HashOK(t, r, p)' <=> HashOK(t, r, p)
    BY DEF HashOK, Known, Nowhere, Lists, Named, Reached, Width, SlotOf
  <2>. QED
    BY <2>1, <2>2
<1>12. HashTypes'
  <2>1. resizing' \in BOOLEAN /\ count' = count
        /\ (r.pc \in Entering => hashThread[t].pc \in Entering)
    BY <1>1, <1>3, <1>4 DEF Entering, HashTypes
  <2>. QED
    BY <1>3, <1>7, <1>9, <2>1, CountStays
<1>13. BuilderInv'
  <2>1. r.pc \in Building <=> hashThread[t].pc \in Building
    BY <1>1, <1>4, <1>7 DEF Building
  <2>2. resizing' = resizing
    OBVIOUS
  <2>. QED
    BY <1>3, <1>9, <2>1, <2>2, BuilderStays
<1>14. OwnInv'
  <2>1. /\ producers \subseteq Pair /\ hashInactive \subseteq producers
        /\ own \in [Id -> Pair \cup {None}]
        /\ \A u \in Id : own[u] # None =>
             /\ own[u] \in producers \ hashInactive
             /\ \A v \in Id \ {u} : own[v] # own[u]
    BY <1>3 DEF OwnInv
  <2>2. /\ own' \in [Id -> Pair \cup {None}] /\ own'[t] = p
        /\ \A u \in Id \ {t} : own'[u] = own[u]
    BY <2>1
  <2>3. producers' \subseteq Pair /\ hashInactive' \subseteq producers'
    BY <2>1
  <2>4. ASSUME NEW u \in Id, own'[u] # None
        PROVE  /\ own'[u] \in producers' \ hashInactive'
               /\ \A v \in Id \ {u} : own'[v] # own'[u]
    <3>1. CASE u = t
      BY <2>2, <3>1
    <3>2. CASE u # t
      <4>1. own'[u] = own[u] /\ own[u] # None /\ own[u] # p
        BY <2>2, <2>4, <3>2
      <4>. QED
        BY <2>1, <2>2, <4>1
    <3>. QED
      BY <3>1, <3>2
  <2>. QED
    BY <2>2, <2>3, <2>4 DEF OwnInv
<1>. QED
  BY <1>7, <1>9, <1>10, <1>11, <1>12, <1>13, <1>14, HashMoves

LEMMA HashCatch ==
  ASSUME HashInv, NEW t \in Id, Hash!Catch(t)
  PROVE  HashInv'
<1>1. PICK x, o, p : x = hashThread[t] /\ o = own[t] /\ p = x.producer
  OBVIOUS
<1>2. x \in HashRecord /\ HashOK(t, x, o)
  BY <1>1, HashThreadFacts
<1>3. OwnInv
  BY DEF HashInv
<1>4. x.pc = "catch" /\ UNCHANGED <<tables, count, resizing, producers>>
  BY <1>1 DEF Hash!Catch, Hash!At
<1>5. CASE p \in hashInactive
  <2>1. p \in Pair /\ p \in producers /\ \A u \in Id : own[u] # p
    BY <1>3, <1>5, HashFacts DEF OwnInv
  <2>2. /\ hashInactive' = hashInactive \ {p}
        /\ own' = [own EXCEPT ![t] = p]
        /\ hashThread' = [hashThread EXCEPT ![t] =
             [x EXCEPT !.pc = "insert", !.slot = HashOf[t]]]
    BY <1>1, <1>5 DEF Hash!Catch, Hash!StillInactive, Hash!Step
  <2>3. [x EXCEPT !.pc = "insert", !.slot = HashOf[t]]
          = [x EXCEPT !.pc = "insert", !.slot = HashOf[t], !.producer = p]
    BY <1>1, <1>2 DEF HashRecord
  <2>4. hashThread' = [hashThread EXCEPT ![t] =
          [hashThread[t] EXCEPT !.pc = "insert", !.slot = HashOf[t], !.producer = p]]
    BY <1>1, <2>2, <2>3
  <2>5. /\ hashInactive' \subseteq hashInactive /\ producers \subseteq producers'
        /\ producers' \subseteq producers \cup {p}
        /\ p \in producers' \ hashInactive'
    BY <1>4, <2>1, <2>2
  <2>6. hashThread[t].pc \in {"catch", "producer"}
    BY <1>1, <1>4
  <2>. QED
    BY <1>4, <2>1, <2>2, <2>4, <2>5, <2>6, HashGiven
<1>6. CASE p \notin hashInactive
  <2>1. PICK r : r = [x EXCEPT !.pc = "producer", !.producer = None]
    OBVIOUS
  <2>2. r \in HashRecord /\ r.pc = "producer" /\ r.main = x.main
    BY <1>2, <2>1 DEF HashRecord, Entering
  <2>3. /\ hashThread' = [hashThread EXCEPT ![t] = r]
        /\ UNCHANGED <<hashInactive, own>>
    BY <1>1, <1>6, <2>1 DEF Hash!Catch, Hash!StillInactive, Hash!Step
  <2>4. HashOK(t, r, o)
    BY <1>2, <1>4, <2>2 DEF HashOK, Entering, Building
  <2>5. r.pc \in Building <=> hashThread[t].pc \in Building
    BY <1>1, <1>4, <2>2 DEF Building
  <2>6. count' = count /\ (r.pc \in Entering => hashThread[t].pc \in Entering)
    BY <1>1, <1>4 DEF Entering
  <2>. QED
    BY <1>1, <1>4, <2>2, <2>3, <2>4, <2>5, <2>6, HashQuiet
<1>. QED
  BY <1>5, <1>6

LEMMA HashCreate ==
  ASSUME HashInv, NEW t \in Id, NEW p \in Pair, Hash!Create(t, p)
  PROVE  HashInv'
<1>1. OwnInv
  BY DEF HashInv
<1>2. /\ p \notin producers /\ \A u \in Id : own[u] # p
      /\ p \notin hashInactive
  BY <1>1, HashFacts DEF OwnInv, Hash!Create
<1>3. /\ hashThread[t].pc = "producer"
      /\ hashThread' = [hashThread EXCEPT ![t] =
           [hashThread[t] EXCEPT !.pc = "insert", !.slot = HashOf[t], !.producer = p]]
      /\ own' = [own EXCEPT ![t] = p] /\ producers' = producers \cup {p}
      /\ UNCHANGED <<tables, count, resizing, hashInactive>>
  BY DEF Hash!Create, Hash!Step, Hash!At
<1>. QED
  BY <1>2, <1>3, HashGiven

\* The end of a thread.
LEMMA HashDeactivate ==
  ASSUME HashInv, NEW t \in Id, Hash!Deactivate(t)
  PROVE  HashInv'
<1>1. PICK x, o, n : x = hashThread[t] /\ o = own[t] /\ n = Len(tables)
  OBVIOUS
<1>2. /\ x \in HashRecord /\ HashOK(t, x, o) /\ n \in Nat \ {0}
  BY <1>1, HashThreadFacts
<1>3. TablesInv /\ HashTypes /\ BuilderInv /\ OwnInv
  BY DEF HashInv
<1>4. PICK r : r = [x EXCEPT !.pc = "asleep"]
  OBVIOUS
<1>5. /\ x.pc = "leave" /\ x.table = 0
      /\ hashInactive' = hashInactive \cup {o}
      /\ own' = [own EXCEPT ![t] = None]
      /\ hashThread' = [hashThread EXCEPT ![t] = r]
      /\ UNCHANGED <<tables, count, resizing, producers>>
  BY <1>1, <1>4 DEF Hash!Deactivate, Hash!Step, Hash!At
<1>6. r \in HashRecord /\ r.pc = "asleep"
  BY <1>2, <1>4 DEF HashRecord
<1>7. o # None /\ Nowhere(t)
  <2>1. o # None /\ \A k \in 0+1..Len(tables) : Named(tables[k], t) = {}
    BY <1>2, <1>5 DEF HashOK
  <2>. QED
    BY <2>1 DEF Nowhere
<1>8. TablesInv' /\ TablesStep(t) /\ Len(tables') = Len(tables)
  BY <1>3, <1>5, TablesSame
<1>9. HashOK(t, r, None)'
  <2>1. Nowhere(t)'
    BY <1>5, <1>7 DEF Nowhere, Named
  <2>. QED
    BY <1>6, <2>1 DEF HashOK, Entering, Building
<1>10. HashTypes'
  <2>1. resizing' \in BOOLEAN /\ count' = count
        /\ (r.pc \in Entering => hashThread[t].pc \in Entering)
    BY <1>3, <1>5, <1>6 DEF Entering, HashTypes
  <2>. QED
    BY <1>3, <1>5, <1>6, <2>1, CountStays
<1>11. BuilderInv'
  <2>1. r.pc \in Building <=> hashThread[t].pc \in Building
    BY <1>1, <1>5, <1>6 DEF Building
  <2>2. resizing' = resizing
    BY <1>5
  <2>. QED
    BY <1>3, <1>5, <2>1, <2>2, BuilderStays
<1>12. OwnInv'
  <2>1. /\ producers \subseteq Pair /\ hashInactive \subseteq producers
        /\ own \in [Id -> Pair \cup {None}]
        /\ \A u \in Id : own[u] # None =>
             /\ own[u] \in producers \ hashInactive
             /\ \A v \in Id \ {u} : own[v] # own[u]
    BY <1>3 DEF OwnInv
  <2>2. /\ own' \in [Id -> Pair \cup {None}] /\ own'[t] = None
        /\ \A u \in Id \ {t} : own'[u] = own[u]
    BY <1>5, <2>1
  <2>3. o \in producers /\ \A u \in Id \ {t} : own[u] # o
    BY <1>1, <1>7, <2>1
  <2>4. producers' \subseteq Pair /\ hashInactive' \subseteq producers'
    BY <1>5, <2>1, <2>3
  <2>5. ASSUME NEW u \in Id, own'[u] # None
        PROVE  /\ own'[u] \in producers' \ hashInactive'
               /\ \A v \in Id \ {u} : own'[v] # own'[u]
    <3>1. u # t /\ own'[u] = own[u] /\ own[u] # None /\ own[u] # o
      BY <2>2, <2>3, <2>5
    <3>2. own'[u] \in producers' \ hashInactive'
      BY <1>5, <2>1, <3>1
    <3>3. \A v \in Id \ {u} : own'[v] # own'[u]
      BY <2>1, <2>2, <3>1
    <3>. QED
      BY <3>2, <3>3
  <2>. QED
    BY <2>2, <2>4, <2>5 DEF OwnInv
<1>. QED
  BY <1>5, <1>6, <1>8, <1>9, <1>10, <1>11, <1>12, HashMoves

LEMMA HashLeave ==
  ASSUME HashInv, NEW t \in Id, Hash!Leave(t)
  PROVE  HashInv'
<1>1. PICK x, o, n, k : x = hashThread[t] /\ o = own[t] /\ n = Len(tables) /\ k = x.table
  OBVIOUS
<1>2. /\ x \in HashRecord /\ HashOK(t, x, o) /\ n \in Nat \ {0}
  BY <1>1, HashThreadFacts
<1>3. TablesInv /\ HashTypes /\ BuilderInv /\ OwnInv
  BY DEF HashInv
<1>4. /\ x.pc = "leave" /\ k # 0
      /\ UNCHANGED <<count, resizing, producers, hashInactive, own>>
  BY <1>1 DEF Hash!Leave, Hash!At
<1>5. /\ o # None /\ k \in 1..n
      /\ \A j \in k+1..n : Named(tables[j], t) = {}
  <2>1. /\ o # None /\ k \in 0..n
        /\ \A j \in k+1..n : Named(tables[j], t) = {}
    BY <1>1, <1>2, <1>4 DEF HashOK
  <2>. QED
    BY <1>4, <2>1
<1>6. /\ tables \in Seq(Table) /\ n \in 1..MaxTables /\ MaxTables \in Nat
      /\ \A j \in 1..n :
           /\ tables[j].prev = j - 1
           /\ \A u \in Id : \A i \in Named(tables[j], u) :
                Reached(tables[j], HashOf[u], i)
  BY <1>1, <1>3, HashFacts DEF TablesInv
<1>7. PICK T, K, U :
        /\ T = tables[k]
        /\ K = [s \in DOMAIN T.key |->
                 IF s \in Hash!Slots(t, k) THEN Hash!Reusable ELSE T.key[s]]
        /\ U = [T EXCEPT !.key = K]
  OBVIOUS
<1>8. PICK w \in Nat \ {0} :
        /\ w = Width(T) /\ T \in TableOf(w) /\ DOMAIN T.key = 0..w-1
        /\ T.key \in [0..w-1 -> HashKeys]
  <2>1. T \in Table
    BY <1>1, <1>5, <1>7, HashThreadFacts
  <2>. QED
    BY <2>1, TableFacts
<1>9. K = [s \in 0..w-1 |-> IF s \in Named(T, t) THEN Hash!Reusable ELSE T.key[s]]
  <2>1. Hash!Slots(t, k) = Named(T, t)
    BY <1>1, <1>3, <1>5, <1>7, SlotsAre
  <2>. QED
    BY <1>7, <1>8, <2>1
<1>10. K \in [0..w-1 -> HashKeys]
  BY <1>8, <1>9 DEF HashKeys
<1>11. U \in TableOf(w) /\ U.key = K /\ U.value = T.value /\ U.prev = T.prev
  BY <1>7, <1>8, <1>10 DEF TableOf
<1>12. U \in Table /\ Width(U) = w /\ DOMAIN U.key = 0..w-1
  BY <1>11, TableIs
<1>13. Named(U, t) = {}
  BY <1>8, <1>9, <1>11, <1>12, HashFacts DEF Named
<1>14. \A u \in Id \ {t} : Named(U, u) = Named(T, u)
  BY <1>8, <1>9, <1>11, <1>12, HashFacts DEF Named
<1>15. \A i \in DOMAIN T.key : U.key[i] = Hash!Empty => T.key[i] = Hash!Empty
  BY <1>8, <1>9, <1>11, HashFacts
<1>16. ASSUME NEW u \in Id, NEW i \in Named(U, u)
       PROVE  Reached(U, HashOf[u], i)
  <2>1. PICK g : g = HashOf[u]
    OBVIOUS
  <2>2. g \in Nat /\ Width(U) = Width(T) /\ T \in Table
    <3>1. T \in Table
      BY <1>1, <1>5, <1>7, HashThreadFacts
    <3>2. g \in Nat
      BY <2>1, HashFacts
    <3>. QED
      BY <1>8, <1>12, <3>1, <3>2
  <2>3. u # t
    BY <1>13, <1>16
  <2>4. i \in Named(T, u)
    BY <1>14, <1>16, <2>3
  <2>5. Reached(T, g, i)
    BY <1>5, <1>6, <1>7, <2>1, <2>4
  <2>. QED
    BY <1>15, <2>1, <2>2, <2>5, ReachedStays
<1>17. PICK l, r : l = k - 1 /\ r = [x EXCEPT !.table = l]
  OBVIOUS
<1>18. /\ tables' = [tables EXCEPT ![k] = U]
       /\ hashThread' = [hashThread EXCEPT ![t] = r]
  <2>1. l = Hash!Previous(k)
    BY <1>5, <1>6, <1>17 DEF Hash!Previous
  <2>2. hashThread' = [hashThread EXCEPT ![t] = r]
    BY <1>1, <1>17, <2>1 DEF Hash!Leave, Hash!Step
  <2>3. tables' = [tables EXCEPT ![k] = U]
    BY <1>1, <1>7 DEF Hash!Leave
  <2>. QED
    BY <2>2, <2>3
<1>19. /\ tables' \in Seq(Table) /\ Len(tables') = n /\ tables'[k] = U
       /\ \A j \in (1..n) \ {k} : tables'[j] = tables[j]
  <2>1. PICK f, g : f = tables /\ g = [f EXCEPT ![k] = U]
    OBVIOUS
  <2>2. f \in Seq(Table) /\ Len(f) = n /\ k \in 1..Len(f) /\ U \in Table
    BY <1>1, <1>6, <1>5, <1>12, <2>1
  <2>3. /\ g \in Seq(Table) /\ Len(g) = n /\ g[k] = U
        /\ \A j \in (1..n) \ {k} : g[j] = f[j]
    BY <2>1, <2>2, SequenceExcept
  <2>. QED
    BY <1>18, <2>1, <2>3
<1>20. TablesInv'
  <2>1. \A j \in 1..n :
          /\ tables'[j].prev = j - 1
          /\ \A u \in Id : \A i \in Named(tables'[j], u) :
               Reached(tables'[j], HashOf[u], i)
    <3>. SUFFICES ASSUME NEW j \in 1..n
                  PROVE  /\ tables'[j].prev = j - 1
                         /\ \A u \in Id : \A i \in Named(tables'[j], u) :
                              Reached(tables'[j], HashOf[u], i)
      OBVIOUS
    <3>1. CASE j = k
      <4>1. tables'[j] = U /\ U.prev = tables[k].prev /\ tables[k].prev = k - 1
        BY <1>5, <1>6, <1>7, <1>11, <1>19, <3>1
      <4>. QED
        BY <1>16, <3>1, <4>1
    <3>2. CASE j # k
      BY <1>6, <1>19, <3>2
    <3>. QED
      BY <3>1, <3>2
  <2>. QED
    BY <1>6, <1>19, <2>1 DEF TablesInv, Named, Reached, Width
<1>21. TablesStep(t)
  <2>1. \A X : TableStep(X, X, t)
    BY DEF TableStep
  <2>2. TableStep(T, U, t)
    BY <1>8, <1>11, <1>12, <1>14, <1>15 DEF TableStep
  <2>3. \A j \in 1..n : TableStep(tables[j], tables'[j], t)
    BY <1>7, <1>19, <2>1, <2>2
  <2>4. Len(tables) = n /\ Len(tables') = n /\ n \in Nat
    BY <1>1, <1>2, <1>19
  <2>5. Len(tables) <= Len(tables') /\ Len(tables)+1..Len(tables') = {}
    BY <2>4
  <2>6. \A j \in 1..Len(tables) : TableStep(tables[j], tables'[j], t)
    BY <2>3, <2>4
  <2>. QED
    BY <2>5, <2>6 DEF TablesStep
<1>22. l \in 0..n /\ l \in Nat /\ l + 1 = k
  BY <1>2, <1>5, <1>17
<1>23. r \in HashRecord /\ r.pc = "leave" /\ r.table = l
  BY <1>2, <1>4, <1>17, <1>22 DEF HashRecord
<1>24. HashOK(t, r, o)'
  <2>1. \A j \in l+1..n : Named(tables'[j], t) = {}
    <3>. SUFFICES ASSUME NEW j \in l+1..n
                  PROVE  Named(tables'[j], t) = {}
      OBVIOUS
    <3>1. CASE j = k
      BY <1>13, <1>19, <3>1
    <3>2. CASE j # k
      <4>1. j \in k+1..n /\ j \in (1..n) \ {k}
        BY <1>2, <1>5, <1>22, <3>2
      <4>. QED
        BY <1>5, <1>19, <4>1
    <3>. QED
      BY <3>1, <3>2
  <2>2. /\ o # None /\ r.table \in 0..Len(tables')
        /\ \A j \in r.table+1..Len(tables') : Named(tables'[j], t) = {}
    BY <1>5, <1>19, <1>22, <1>23, <2>1
  <2>3. \A j : Named(tables[j], t)' = Named(tables'[j], t)
    BY DEF Named
  <2>. QED
    BY <1>23, <2>2, <2>3 DEF HashOK, Entering, Building
<1>25. HashTypes'
  <2>1. resizing' \in BOOLEAN /\ count' = count
        /\ (r.pc \in Entering => hashThread[t].pc \in Entering)
    BY <1>3, <1>4, <1>23 DEF Entering, HashTypes
  <2>. QED
    BY <1>3, <1>18, <1>23, <2>1, CountStays
<1>26. BuilderInv'
  <2>1. r.pc \in Building <=> hashThread[t].pc \in Building
    BY <1>1, <1>4, <1>23 DEF Building
  <2>2. resizing' = resizing
    BY <1>4
  <2>. QED
    BY <1>3, <1>18, <2>1, <2>2, BuilderStays
<1>27. own' = [own EXCEPT ![t] = o] /\ OwnInv'
  BY <1>1, <1>3, <1>4 DEF OwnInv
<1>28. Len(tables') = Len(tables)
  BY <1>1, <1>19
<1>. QED
  BY <1>18, <1>20, <1>21, <1>23, <1>24, <1>25, <1>26, <1>27, <1>28, HashMoves

LEMMA HashInit ==
  ASSUME Hash!Init
  PROVE  HashInv
<1>1. PICK T : T = Hash!NewTable(InitialSize, 0)
  OBVIOUS
<1>2. /\ tables = <<T>> /\ count = 0 /\ resizing = FALSE
      /\ producers = {} /\ hashInactive = {}
      /\ hashThread = [t \in Id |-> Hash!Asleep]
      /\ own = [t \in Id |-> None]
  BY <1>1 DEF Hash!Init
<1>3. /\ T \in TableOf(InitialSize) /\ T.prev = 0
      /\ \A i \in 0..InitialSize-1 : T.key[i] = Hash!Empty
  BY <1>1, HashFacts DEF Hash!NewTable, TableOf, HashKeys
<1>4. T \in Table /\ DOMAIN T.key = 0..InitialSize-1
  BY <1>3, HashFacts, TableIs
<1>5. \A t \in Id : Named(T, t) = {}
  BY <1>3, <1>4, HashFacts DEF Named
<1>6. tables \in Seq(Table) /\ Len(tables) = 1 /\ tables[1] = T
  BY <1>2, <1>4
<1>7. TablesInv
  BY <1>3, <1>5, <1>6, HashFacts DEF TablesInv
<1>8. PICK asleep : asleep = Hash!Asleep
  OBVIOUS
<1>9. asleep \in HashRecord /\ asleep.pc = "asleep"
  BY <1>8, HashIdle
<1>10. \A t \in Id : hashThread[t] = asleep /\ own[t] = None
  BY <1>2, <1>8
<1>11. HashTypes
  <2>1. Counting = {}
    BY <1>9, <1>10 DEF Counting, Entering
  <2>2. Cardinality({}) = 0
    BY FS_EmptySet
  <2>3. hashThread \in [Id -> HashRecord]
    BY <1>2, <1>8, <1>9
  <2>4. Cardinality(Counting) = 0 /\ count = 0 /\ resizing \in BOOLEAN
    BY <1>2, <2>1, <2>2
  <2>. QED
    BY <2>3, <2>4 DEF HashTypes
<1>12. OwnInv
  BY <1>2 DEF OwnInv
<1>13. BuilderInv
  <2>1. Builders = {}
    BY <1>9, <1>10 DEF Builders, Building
  <2>. QED
    BY <1>2, <2>1 DEF BuilderInv
<1>14. ThreadsInv
  <2>1. \A t \in Id : Nowhere(t)
    BY <1>5, <1>6 DEF Nowhere
  <2>. QED
    BY <1>9, <1>10, <2>1 DEF ThreadsInv, HashOK, Entering, Building
<1>. QED
  BY <1>7, <1>11, <1>12, <1>13, <1>14 DEF HashInv

LEMMA HashNext ==
  ASSUME HashInv, Hash!Next
  PROVE  HashInv'
<1>1. PICK t \in Id :
        Hash!Start(t) \/ Hash!LoadHash(t) \/ Hash!GetOrAdd(t) \/ Hash!Ending(t)
  BY DEF Hash!Next
<1>2. \/ Hash!Start(t) \/ Hash!LoadHash(t) \/ Hash!PassBy(t) \/ Hash!Reload(t)
      \/ Hash!GrowFails(t) \/ Hash!Enter(t) \/ Hash!Wait(t)
      \/ \E p \in Pair : Hash!Spot(t, p)
      \/ Hash!CreateFails(t) \/ Hash!Uncount(t) \/ Hash!Exit(t)
      \/ Hash!Found(t) \/ Hash!Move(t) \/ Hash!NotFound(t)
      \/ Hash!TryLock(t) \/ Hash!Grow(t) \/ Hash!Unlock(t)
      \/ \E p \in Pair : Hash!Create(t, p)
      \/ Hash!Catch(t) \/ Hash!Insert(t)
      \/ Hash!Leave(t) \/ Hash!Deactivate(t)
  BY <1>1 DEF Hash!GetOrAdd, Hash!Ending
<1>. QED
  BY <1>2, HashQuietSteps, HashFound, HashMove, HashNotFound, HashTryLock, HashGrow,
     HashUnlock, HashCreate, HashCatch, HashInsert, HashLeave, HashDeactivate

LEMMA HashSame ==
  ASSUME HashInv, UNCHANGED hashVars
  PROVE  HashInv'
<1>1. UNCHANGED <<tables, count, resizing, producers, hashInactive, hashThread, own>>
  BY DEF hashVars
<1>2. TablesInv /\ HashTypes /\ OwnInv /\ BuilderInv /\ ThreadsInv
  BY DEF HashInv
<1>3. TablesInv'
  BY <1>1, <1>2 DEF TablesInv
<1>4. HashTypes'
  BY <1>1, <1>2 DEF HashTypes, Counting
<1>5. OwnInv'
  BY <1>1, <1>2 DEF OwnInv
<1>6. BuilderInv'
  BY <1>1, <1>2 DEF BuilderInv, Builders
<1>7. ThreadsInv'
  <2>1. \A t, x, o : HashOK(t, x, o)' <=> HashOK(t, x, o)
    BY <1>1 DEF HashOK, Known, Nowhere, Lists, Named, Reached, Width, SlotOf
  <2>. QED
    BY <1>1, <1>2, <2>1 DEF ThreadsInv
<1>. QED
  BY <1>3, <1>4, <1>5, <1>6, <1>7 DEF HashInv

\* What the invariant says of the searches.
LEMMA HashSafe ==
  ASSUME HashInv
  PROVE  Hash!Safety
<1>1. TablesInv /\ HashTypes /\ OwnInv /\ BuilderInv /\ ThreadsInv
  BY DEF HashInv
<1>2. PICK n : n = Len(tables)
  OBVIOUS
<1>3. n \in 1..MaxTables /\ n \in Nat /\ tables \in Seq(Table)
  BY <1>1, <1>2, HashFacts DEF TablesInv
<1>4. Hash!Current = n
  BY <1>2 DEF Hash!Current
<1>5. Hash!TypeOK
  <2>1. ASSUME NEW k \in DOMAIN tables
        PROVE  /\ tables[k].key \in [0..Hash!Capacity(k)-1 ->
                                       Id \cup {Hash!Empty, Hash!Reusable}]
               /\ tables[k].value \in [0..Hash!Capacity(k)-1 -> Pair \cup {None}]
               /\ tables[k].prev \in 0..k-1
    <3>1. k \in 1..n /\ k \in 1..Len(tables)
      BY <1>2, <1>3
    <3>2. tables[k] \in Table /\ tables[k].prev = k - 1
      BY <1>1, <3>1 DEF TablesInv
    <3>3. Hash!Capacity(k) = Width(tables[k])
      BY HashCardinality DEF Hash!Capacity, Width
    <3>4. /\ tables[k].key \in [0..Width(tables[k])-1 -> HashKeys]
          /\ tables[k].value \in [0..Width(tables[k])-1 -> Pair \cup {None}]
      BY <3>2, TableFacts
    <3>5. tables[k].prev \in 0..k-1
      BY <3>1, <3>2
    <3>. QED
      BY <3>3, <3>4, <3>5 DEF HashKeys
  <2>2. count \in Nat /\ resizing \in BOOLEAN
    BY <1>1 DEF HashTypes
  <2>3. /\ hashInactive \subseteq producers /\ producers \subseteq Pair
        /\ own \in [Id -> Pair \cup {None}]
    BY <1>1 DEF OwnInv
  <2>. QED
    BY <1>2, <1>3, <2>1, <2>2, <2>3 DEF Hash!TypeOK
<1>6. Hash!OneThread
  BY <1>1 DEF OwnInv, Hash!OneThread
<1>7. Hash!SameProducer
  <2>. SUFFICES ASSUME NEW t \in Id
                PROVE  /\ hashThread[t].pc \in {"idle", "search", "move"} =>
                            IF own[t] = None THEN Hash!Tables(t, n) = {}
                            ELSE /\ Hash!Tables(t, n) # {}
                                 /\ \A k \in Hash!Tables(t, n) :
                                      \A s \in Hash!Slots(t, k) :
                                        tables[k].value[s] = own[t]
                       /\ hashThread[t].pc = "move" => hashThread[t].producer = own[t]
    BY <1>4 DEF Hash!SameProducer
  <2>1. PICK x, o : x = hashThread[t] /\ o = own[t]
    OBVIOUS
  <2>2. HashOK(t, x, o)
    BY <2>1, HashThreadFacts
  <2>3. Hash!Tables(t, n) = {k \in 1..n : Named(tables[k], t) # {}}
    <3>1. n \in 1..Len(tables)
      BY <1>2, <1>3
    <3>. QED
      BY <1>1, <3>1, TablesAre
  <2>4. \A k \in 1..n : Hash!Slots(t, k) = Named(tables[k], t)
    BY <1>1, <1>2, SlotsAre
  <2>5. x.pc \in {"idle", "search", "move"} =>
          IF o = None THEN Nowhere(t) ELSE \E m \in 0..n : Lists(t, o, m)
    <3>1. CASE x.pc = "idle"
      BY <1>2, <1>3, <2>2, <3>1 DEF HashOK, Known
    <3>2. CASE x.pc \in {"search", "move"}
      <4>1. x.main \in 0..n
        BY <1>2, <1>3, <2>2, <3>2 DEF HashOK
      <4>. QED
        BY <2>2, <3>2, <4>1 DEF HashOK, Known
    <3>. QED
      BY <3>1, <3>2
  <2>6. ASSUME Nowhere(t)
        PROVE  Hash!Tables(t, n) = {}
    BY <1>2, <2>3, <2>6 DEF Nowhere
  <2>7. ASSUME NEW m \in 0..n, Lists(t, o, m)
        PROVE  /\ Hash!Tables(t, n) # {}
               /\ \A k \in Hash!Tables(t, n) : \A s \in Hash!Slots(t, k) :
                    tables[k].value[s] = o
    <3>1. PICK k \in 1..m : Named(tables[k], t) # {}
      BY <2>7 DEF Lists
    <3>2. k \in 1..n
      BY <1>3, <3>1
    <3>3. \A j \in 1..n : \A s \in Named(tables[j], t) : tables[j].value[s] = o
      BY <1>2, <2>7 DEF Lists
    <3>. QED
      BY <2>3, <2>4, <3>1, <3>2, <3>3
  <2>8. x.pc = "move" => x.producer = o
    BY <2>2 DEF HashOK
  <2>. QED
    BY <2>1, <2>5, <2>6, <2>7, <2>8
<1>8. Hash!OneBuilder
  <2>1. Hash!OneBuilder <=> Cardinality(Builders) = IF resizing THEN 1 ELSE 0
    BY HashCardinality DEF Hash!OneBuilder, Builders, Building
  <2>2. CASE resizing
    <3>1. PICK t : t \in Builders
      BY <1>1, <2>2 DEF BuilderInv
    <3>2. Builders = {t}
      BY <1>1, <3>1 DEF BuilderInv
    <3>3. Cardinality(Builders) = 1
      BY <3>2, FS_Singleton
    <3>. QED
      BY <2>1, <2>2, <3>3
  <2>3. CASE ~resizing
    <3>1. Builders = {}
      BY <1>1, <2>3 DEF BuilderInv
    <3>2. Cardinality(Builders) = 0
      BY <3>1, FS_EmptySet
    <3>. QED
      BY <2>1, <2>3, <3>2
  <2>. QED
    BY <2>2, <2>3
<1>. QED
  BY <1>5, <1>6, <1>7, <1>8 DEF Hash!Safety

\* get_or_add_implicit_producer finds a thread its own producer, in whatever
\* table its id is and however the tables grow, never that of another thread or
\* of an earlier thread with the same id; no producer has two threads, and one
\* thread at a time builds a larger table.
THEOREM OwnProducerFound == PartSpec => []ProducerHashSafety
<1>1. PartInit => HashInv
  BY HashInit DEF PartInit
<1>2. HashInv /\ [PartNext]_<<part, listVars, hashVars, exitVars, scanVars>> => HashInv'
  <2>. SUFFICES ASSUME HashInv,
                       [PartNext]_<<part, listVars, hashVars, exitVars, scanVars>>
                PROVE  HashInv'
    OBVIOUS
  <2>1. CASE Hash!Next
    BY <2>1, HashNext
  <2>2. CASE UNCHANGED hashVars
    BY <2>2, HashSame
  <2>. QED
    BY <2>1, <2>2 DEF PartNext, ListStep, HashStep, ExitStep, ScanStep
<1>3. HashInv => ProducerHashSafety
  BY HashSafe DEF ProducerHashSafety
<1>. QED
  BY <1>1, <1>2, <1>3, PTL DEF PartSpec

-----------------------------------------------------------------------------
\* The first table: the count covers its used slots and the threads under way
\* (only a later table has slots that are not counted), so a thread whose count
\* is below three quarters of the capacity has a slot reserved for it.
FirstUsed == Hash!Used(1)
Threshold == Width(tables[1]) \div 2 + Width(tables[1]) \div 4
Fitting == {t \in Counting : hashThread[t].count < Threshold}
EnteredOK(x) ==
  /\ x.pc \in {"producer", "catch", "insert"} /\ x.main = 1 => x.count < Threshold
  /\ x.pc = "move" => x.main # 1
FirstInv ==
  /\ Cardinality(FirstUsed) + Cardinality(Counting) <= count
  /\ Cardinality(FirstUsed) + Cardinality(Fitting)
       <= IF Threshold = 0 THEN 0 ELSE Threshold - 1
  /\ \A t \in Id : EnteredOK(hashThread[t])

LEMMA FirstFacts ==
  ASSUME HashInv
  PROVE  /\ Hash!Capacity(1) = Width(tables[1]) /\ Threshold \in Nat
         /\ hashThread \in [Id -> HashRecord] /\ count \in Nat
         /\ IsFiniteSet(FirstUsed) /\ Cardinality(FirstUsed) \in Nat
         /\ IsFiniteSet(Counting) /\ Cardinality(Counting) \in Nat
         /\ IsFiniteSet(Fitting) /\ Cardinality(Fitting) \in Nat
<1>1. hashThread \in [Id -> HashRecord] /\ count \in Nat
  BY DEF HashInv, HashTypes
<1>2. /\ IsFiniteSet(Counting) /\ Cardinality(Counting) \in Nat
      /\ IsFiniteSet(Fitting) /\ Cardinality(Fitting) \in Nat
  BY HashFacts, FS_Subset, FS_CardinalityType DEF Counting, Fitting
<1>3. tables[1] \in Table
  BY DEF HashInv, TablesInv
<1>4. PICK w \in Nat \ {0} : w = Width(tables[1]) /\ DOMAIN tables[1].key = 0..w-1
  BY <1>3, TableFacts
<1>5. IsFiniteSet(FirstUsed) /\ Cardinality(FirstUsed) \in Nat
  <2>1. IsFiniteSet(0..w-1)
    BY FS_Interval
  <2>2. FirstUsed \subseteq 0..w-1
    BY <1>4 DEF FirstUsed, Hash!Used
  <2>. QED
    BY <2>1, <2>2, FS_Subset, FS_CardinalityType
<1>6. Threshold \in Nat
  BY <1>4 DEF Threshold
<1>7. Hash!Capacity(1) = Width(tables[1])
  BY HashCardinality DEF Hash!Capacity, Width
<1>. QED
  BY <1>1, <1>2, <1>5, <1>6, <1>7

\* The same on any sets, those that are used (U, then V), counted (C, then D)
\* and fitting (F, then G).
Covered(U, C, F, n, m) ==
  /\ IsFiniteSet(U) /\ IsFiniteSet(C) /\ IsFiniteSet(F)
  /\ Cardinality(U) + Cardinality(C) <= n
  /\ Cardinality(U) + Cardinality(F) <= IF m = 0 THEN 0 ELSE m - 1
Moved(U, C, F, V, D, G, t, s, n, k, m) ==
  /\ F \subseteq C /\ G \subseteq D /\ (m = 0 => G = {})
  /\ \/ V = U /\ D \subseteq C /\ G \subseteq F /\ k = n
     \/ /\ V = U /\ D \subseteq C \cup {t} /\ k = n + 1
        /\ n + 1 < m \/ G \subseteq F
     \/ V = U /\ t \in C /\ D \subseteq C \ {t} /\ G \subseteq F /\ k = n - 1
     \/ /\ V \subseteq U \cup {s} /\ t \in F /\ D \subseteq C \ {t}
        /\ G \subseteq F \ {t} /\ k = n

LEMMA FirstCounts ==
  ASSUME NEW U, NEW C, NEW F, NEW V, NEW D, NEW G, NEW t, NEW s,
         NEW n \in Nat, NEW k, NEW m \in Nat,
         Covered(U, C, F, n, m), Moved(U, C, F, V, D, G, t, s, n, k, m)
  PROVE  /\ Cardinality(V) + Cardinality(D) <= k
         /\ Cardinality(V) + Cardinality(G) <= IF m = 0 THEN 0 ELSE m - 1
<1>. USE DEF Covered, Moved
<1>1. PICK u, c, f : u = Cardinality(U) /\ c = Cardinality(C) /\ f = Cardinality(F)
  OBVIOUS
<1>2. u \in Nat /\ c \in Nat /\ f \in Nat
  BY <1>1, FS_CardinalityType
<1>3. \A A, B : IsFiniteSet(B) /\ A \subseteq B =>
        Cardinality(A) \in Nat /\ Cardinality(A) <= Cardinality(B)
  BY FS_Subset, FS_CardinalityType
<1>4. \A x, B : IsFiniteSet(B) =>
        /\ IsFiniteSet(B \cup {x}) /\ Cardinality(B \cup {x}) \in Nat
        /\ Cardinality(B \cup {x}) <= Cardinality(B) + 1
  <2>. SUFFICES ASSUME NEW x, NEW B, IsFiniteSet(B)
                PROVE  /\ IsFiniteSet(B \cup {x}) /\ Cardinality(B \cup {x}) \in Nat
                       /\ Cardinality(B \cup {x}) <= Cardinality(B) + 1
    OBVIOUS
  <2>1. /\ IsFiniteSet(B \cup {x}) /\ Cardinality(B) \in Nat
        /\ Cardinality(B \cup {x}) = IF x \in B THEN Cardinality(B)
                                     ELSE Cardinality(B) + 1
    BY FS_AddElement, FS_CardinalityType
  <2>. QED
    BY <2>1
<1>5. \A B : IsFiniteSet(B) /\ t \in B =>
        IsFiniteSet(B \ {t}) /\ Cardinality(B \ {t}) = Cardinality(B) - 1
  BY FS_RemoveElement
<1>6. CASE V = U /\ D \subseteq C /\ G \subseteq F /\ k = n
  <2>1. /\ Cardinality(D) \in Nat /\ Cardinality(D) <= c
        /\ Cardinality(G) \in Nat /\ Cardinality(G) <= f
    BY <1>1, <1>3, <1>6
  <2>. QED
    BY <1>1, <1>2, <1>6, <2>1
<1>7. CASE /\ V = U /\ D \subseteq C \cup {t} /\ k = n + 1
           /\ n + 1 < m \/ G \subseteq F
  <2>1. IsFiniteSet(D) /\ Cardinality(D) \in Nat /\ Cardinality(D) <= c + 1
    <3>1. /\ IsFiniteSet(C \cup {t}) /\ Cardinality(C \cup {t}) \in Nat
          /\ Cardinality(C \cup {t}) <= c + 1
      BY <1>1, <1>4
    <3>2. IsFiniteSet(D) /\ Cardinality(D) \in Nat
          /\ Cardinality(D) <= Cardinality(C \cup {t})
      BY <1>7, <3>1, FS_Subset, FS_CardinalityType
    <3>. QED
      BY <1>2, <3>1, <3>2
  <2>2. CASE n + 1 < m
    <3>1. Cardinality(G) \in Nat /\ Cardinality(G) <= Cardinality(D)
      BY <1>3, <2>1
    <3>. QED
      BY <1>1, <1>2, <1>7, <2>1, <2>2, <3>1
  <2>3. CASE G \subseteq F
    <3>1. Cardinality(G) \in Nat /\ Cardinality(G) <= f
      BY <1>1, <1>3, <2>3
    <3>. QED
      BY <1>1, <1>2, <1>7, <2>1, <3>1
  <2>. QED
    BY <1>7, <2>2, <2>3
<1>8. CASE V = U /\ t \in C /\ D \subseteq C \ {t} /\ G \subseteq F /\ k = n - 1
  <2>1. IsFiniteSet(C \ {t}) /\ Cardinality(C \ {t}) = c - 1
    BY <1>1, <1>5, <1>8
  <2>2. /\ Cardinality(D) \in Nat /\ Cardinality(D) <= c - 1
        /\ Cardinality(G) \in Nat /\ Cardinality(G) <= f
    BY <1>1, <1>3, <1>8, <2>1
  <2>. QED
    BY <1>1, <1>2, <1>8, <2>2
<1>9. CASE /\ V \subseteq U \cup {s} /\ t \in F /\ D \subseteq C \ {t}
           /\ G \subseteq F \ {t} /\ k = n
  <2>1. /\ IsFiniteSet(U \cup {s}) /\ Cardinality(U \cup {s}) \in Nat
        /\ Cardinality(U \cup {s}) <= u + 1
    BY <1>1, <1>4
  <2>2. Cardinality(V) \in Nat /\ Cardinality(V) <= Cardinality(U \cup {s})
    BY <1>3, <1>9, <2>1
  <2>3. /\ IsFiniteSet(C \ {t}) /\ Cardinality(C \ {t}) = c - 1
        /\ IsFiniteSet(F \ {t}) /\ Cardinality(F \ {t}) = f - 1
    BY <1>1, <1>5, <1>9
  <2>4. /\ Cardinality(D) \in Nat /\ Cardinality(D) <= c - 1
        /\ Cardinality(G) \in Nat /\ Cardinality(G) <= f - 1
    BY <1>3, <1>9, <2>3
  <2>5. /\ Cardinality(V) + Cardinality(D) <= n
        /\ Cardinality(V) + Cardinality(G) <= u + f
    BY <1>1, <1>2, <2>1, <2>2, <2>4
  <2>. QED
    BY <1>1, <1>2, <1>9, <2>2, <2>4, <2>5
<1>. QED
  BY <1>6, <1>7, <1>8, <1>9

\* A step of t goes on, is counted, is uncounted, or takes a slot.
LEMMA FirstMoves ==
  ASSUME HashInv, HashInv', FirstInv, NEW t \in Id, NEW r, NEW s,
         hashThread' = [hashThread EXCEPT ![t] = r],
         Threshold' = Threshold, EnteredOK(r),
         \/ /\ FirstUsed' = FirstUsed /\ count' = count
            /\ r.pc \in Entering =>
                 hashThread[t].pc \in Entering /\ r.count = hashThread[t].count
         \/ FirstUsed' = FirstUsed /\ count' = count + 1 /\ r.count = count + 1
         \/ /\ FirstUsed' = FirstUsed /\ count' = count - 1
            /\ hashThread[t].pc \in Entering /\ r.pc \notin Entering
         \/ /\ FirstUsed' \subseteq FirstUsed \cup {s} /\ count' = count
            /\ hashThread[t].pc \in Entering /\ r.pc \notin Entering
            /\ hashThread[t].count < Threshold
  PROVE  FirstInv'
<1>1. PICK U, C, F, m, x : /\ U = FirstUsed /\ C = Counting /\ F = Fitting
                           /\ m = Threshold /\ x = hashThread[t]
  OBVIOUS
<1>2. PICK V, D, G, k : /\ V = FirstUsed' /\ D = Counting' /\ G = Fitting'
                        /\ k = count'
  OBVIOUS
<1>3. /\ IsFiniteSet(U) /\ IsFiniteSet(C) /\ IsFiniteSet(F)
      /\ m \in Nat /\ count \in Nat /\ hashThread \in [Id -> HashRecord]
  BY <1>1, FirstFacts
<1>4. /\ hashThread'[t] = r
      /\ \A u \in Id \ {t} : hashThread'[u] = hashThread[u]
  BY <1>3
<1>5. /\ C = {u \in Id : hashThread[u].pc \in Entering}
      /\ F = {u \in C : hashThread[u].count < m}
      /\ D = {u \in Id : hashThread'[u].pc \in Entering}
      /\ G = {u \in D : hashThread'[u].count < m}
  BY <1>1, <1>2 DEF Counting, Fitting
<1>6. F \subseteq C /\ G \subseteq D
  BY <1>5
<1>7. m = 0 => G = {}
  <2>1. hashThread' \in [Id -> HashRecord]
    BY DEF HashInv, HashTypes
  <2>2. \A u \in Id : hashThread'[u].count \in Nat
    BY <2>1 DEF HashRecord
  <2>. QED
    BY <1>5, <2>2
<1>8. /\ Cardinality(U) + Cardinality(C) <= count
      /\ Cardinality(U) + Cardinality(F) <= IF m = 0 THEN 0 ELSE m - 1
  BY <1>1 DEF FirstInv
<1>9. \/ V = U /\ D \subseteq C /\ G \subseteq F /\ k = count
      \/ /\ V = U /\ D \subseteq C \cup {t} /\ k = count + 1
         /\ count + 1 < m \/ G \subseteq F
      \/ V = U /\ t \in C /\ D \subseteq C \ {t} /\ G \subseteq F /\ k = count - 1
      \/ /\ V \subseteq U \cup {s} /\ t \in F /\ D \subseteq C \ {t}
         /\ G \subseteq F \ {t} /\ k = count
  <2>1. /\ D \subseteq C \cup {t} /\ G \subseteq F \cup {t}
        /\ t \in D <=> r.pc \in Entering
        /\ t \in G <=> r.pc \in Entering /\ r.count < m
        /\ t \in C <=> x.pc \in Entering
        /\ t \in F <=> x.pc \in Entering /\ x.count < m
    BY <1>1, <1>4, <1>5
  <2>2. CASE /\ FirstUsed' = FirstUsed /\ count' = count
             /\ r.pc \in Entering => x.pc \in Entering /\ r.count = x.count
    BY <1>1, <1>2, <1>3, <2>1, <2>2
  <2>3. CASE FirstUsed' = FirstUsed /\ count' = count + 1 /\ r.count = count + 1
    <3>1. count + 1 < m \/ t \notin G
      BY <2>1, <2>3
    <3>. QED
      BY <1>1, <1>2, <1>3, <2>1, <2>3, <3>1
  <2>4. CASE /\ FirstUsed' = FirstUsed /\ count' = count - 1
             /\ x.pc \in Entering /\ r.pc \notin Entering
    BY <1>1, <1>2, <1>3, <2>1, <2>4
  <2>5. CASE /\ FirstUsed' \subseteq FirstUsed \cup {s} /\ count' = count
             /\ x.pc \in Entering /\ r.pc \notin Entering /\ x.count < m
    BY <1>1, <1>2, <1>3, <2>1, <2>5
  <2>. QED
    BY <1>1, <2>2, <2>3, <2>4, <2>5
<1>10. /\ Cardinality(V) + Cardinality(D) <= k
       /\ Cardinality(V) + Cardinality(G) <= IF m = 0 THEN 0 ELSE m - 1
  <2>1. Covered(U, C, F, count, m)
    BY <1>3, <1>8 DEF Covered
  <2>2. Moved(U, C, F, V, D, G, t, s, count, k, m)
    BY <1>6, <1>7, <1>9 DEF Moved
  <2>. QED
    BY <1>3, <2>1, <2>2, FirstCounts
<1>11. ASSUME NEW u \in Id
       PROVE  EnteredOK(hashThread[u])'
  <2>1. PICK y : y = hashThread'[u]
    OBVIOUS
  <2>2. EnteredOK(y)
    BY <1>4, <2>1 DEF FirstInv
  <2>3. EnteredOK(y)'
    BY <2>2 DEF EnteredOK
  <2>. QED
    BY <2>1, <2>3
<1>12. (\A u \in Id : EnteredOK(hashThread[u]))'
  BY <1>11
<1>13. /\ Cardinality(FirstUsed)' = Cardinality(V)
       /\ Cardinality(Counting)' = Cardinality(D)
       /\ Cardinality(Fitting)' = Cardinality(G)
  BY <1>2
<1>. QED
  BY <1>1, <1>2, <1>10, <1>12, <1>13 DEF FirstInv

LEMMA FirstSame ==
  ASSUME UNCHANGED tables
  PROVE  FirstUsed' = FirstUsed /\ Threshold' = Threshold
BY DEF FirstUsed, Hash!Used, Threshold, Width

LEMMA FirstQuiet ==
  ASSUME HashInv, HashInv', FirstInv, NEW t \in Id, NEW r,
         hashThread' = [hashThread EXCEPT ![t] = r], UNCHANGED tables,
         EnteredOK(r),
         \/ /\ count' = count
            /\ r.pc \in Entering =>
                 hashThread[t].pc \in Entering /\ r.count = hashThread[t].count
         \/ count' = count + 1 /\ r.count = count + 1
         \/ /\ count' = count - 1
            /\ hashThread[t].pc \in Entering /\ r.pc \notin Entering
  PROVE  FirstInv'
BY FirstSame, FirstMoves

\* The steps that change no table.
LEMMA FirstQuietSteps ==
  ASSUME HashInv, HashInv', FirstInv, NEW t \in Id,
         \/ Hash!Start(t) \/ Hash!LoadHash(t) \/ Hash!PassBy(t) \/ Hash!Reload(t)
         \/ Hash!GrowFails(t) \/ Hash!Enter(t) \/ Hash!Wait(t)
         \/ \E p \in Pair : Hash!Spot(t, p)
         \/ Hash!CreateFails(t) \/ Hash!Uncount(t) \/ Hash!Exit(t)
         \/ Hash!NotFound(t) \/ Hash!TryLock(t) \/ Hash!Unlock(t)
         \/ \E p \in Pair : Hash!Create(t, p)
         \/ Hash!Catch(t) \/ Hash!Deactivate(t)
  PROVE  FirstInv'
<1>1. PICK x : x = hashThread[t]
  OBVIOUS
<1>2. x \in HashRecord /\ EnteredOK(x) /\ Hash!Capacity(1) = Width(tables[1])
  BY <1>1, FirstFacts DEF FirstInv
<1>3. ASSUME NEW r, hashThread' = [hashThread EXCEPT ![t] = r], UNCHANGED tables,
             EnteredOK(r),
             \/ /\ count' = count
                /\ r.pc \in Entering => x.pc \in Entering /\ r.count = x.count
             \/ count' = count + 1 /\ r.count = count + 1
             \/ count' = count - 1 /\ x.pc \in Entering /\ r.pc \notin Entering
      PROVE  FirstInv'
  BY <1>1, <1>3, FirstQuiet
<1>4. PICK idle, asleep : idle = Hash!Idle /\ asleep = Hash!Asleep
  OBVIOUS
<1>5. /\ idle \in HashRecord /\ idle.pc = "idle"
      /\ asleep \in HashRecord /\ asleep.pc = "asleep"
  BY <1>4, HashIdle
<1>6. \A y : y.pc \notin {"producer", "catch", "insert", "move"} => EnteredOK(y)
  BY DEF EnteredOK
\* Who is asleep, idle or ends is not counted.
<1>7. ASSUME Hash!Start(t) \/ Hash!LoadHash(t) \/ Hash!Exit(t) \/ Hash!Deactivate(t)
      PROVE  FirstInv'
  <2>1. PICK r : /\ hashThread' = [hashThread EXCEPT ![t] = r]
                 /\ r.pc \in {"idle", "search", "leave", "asleep"}
    <3>1. CASE Hash!Start(t)
      BY <1>4, <1>5, <3>1 DEF Hash!Start, Hash!Step
    <3>2. CASE Hash!LoadHash(t)
      <4>1. PICK r : r = [idle EXCEPT !.pc = "search", !.main = Hash!Current]
        OBVIOUS
      <4>2. r.pc = "search"
        BY <1>5, <4>1 DEF HashRecord
      <4>. QED
        BY <1>4, <3>2, <4>1, <4>2 DEF Hash!LoadHash, Hash!Step
    <3>3. CASE Hash!Exit(t)
      <4>1. PICK r : r = [idle EXCEPT !.pc = "leave", !.table = Hash!Current]
        OBVIOUS
      <4>2. r.pc = "leave"
        BY <1>5, <4>1 DEF HashRecord
      <4>3. hashThread' = [hashThread EXCEPT ![t] =
              IF Hash!Subscribed(t) THEN r ELSE asleep]
        BY <1>4, <3>3, <4>1 DEF Hash!Exit, Hash!Step
      <4>. QED
        BY <1>5, <4>2, <4>3
    <3>4. CASE Hash!Deactivate(t)
      <4>1. PICK r : r = [x EXCEPT !.pc = "asleep"]
        OBVIOUS
      <4>2. r.pc = "asleep"
        BY <1>2, <4>1 DEF HashRecord
      <4>. QED
        BY <1>1, <3>4, <4>1, <4>2 DEF Hash!Deactivate, Hash!Step
    <3>. QED
      BY <1>7, <3>1, <3>2, <3>3, <3>4
  <2>2. UNCHANGED <<tables, count>>
    BY <1>7 DEF Hash!Start, Hash!LoadHash, Hash!Exit, Hash!Deactivate
  <2>. QED
    BY <1>3, <1>6, <2>1, <2>2 DEF Entering
\* Who is under way remains so, with its number.
<1>8. ASSUME \/ Hash!PassBy(t) \/ Hash!Reload(t) \/ Hash!Wait(t) \/ Hash!TryLock(t)
      PROVE  FirstInv'
  <2>1. PICK r, l : /\ hashThread' = [hashThread EXCEPT ![t] = r]
                    /\ l \in {"room", "grow", "unlock", "loop", "locked"}
                    /\ \/ r = [x EXCEPT !.pc = l]
                       \/ r = [x EXCEPT !.pc = l, !.main = Hash!Current]
                       \/ r = [x EXCEPT !.main = Hash!Current, !.pc = l]
    <3>1. CASE Hash!PassBy(t)
      BY <1>1, <3>1 DEF Hash!PassBy, Hash!Step
    <3>2. CASE Hash!Reload(t)
      BY <1>1, <3>2 DEF Hash!Reload, Hash!Reloaded, Hash!Step
    <3>3. CASE Hash!Wait(t)
      BY <1>1, <3>3 DEF Hash!Wait, Hash!Step
    <3>4. CASE Hash!TryLock(t)
      BY <1>1, <3>4 DEF Hash!TryLock, Hash!Step
    <3>. QED
      BY <1>8, <3>1, <3>2, <3>3, <3>4
  <2>2. UNCHANGED <<tables, count>> /\ x.pc \in {"loop", "locked", "room"}
    BY <1>1, <1>8 DEF Hash!PassBy, Hash!Reload, Hash!Wait, Hash!TryLock, Hash!At
  <2>3. r.pc = l /\ r.count = x.count
    BY <1>2, <2>1 DEF HashRecord
  <2>. QED
    BY <1>3, <1>6, <2>1, <2>2, <2>3 DEF Entering
<1>9. CASE Hash!Unlock(t)
  <2>1. PICK r : r = [x EXCEPT !.pc = "room"]
    OBVIOUS
  <2>2. r.pc = "room" /\ r.count = x.count
    BY <1>2, <2>1 DEF HashRecord
  <2>3. /\ hashThread' = [hashThread EXCEPT ![t] = IF x.pc = "unlock" THEN r ELSE idle]
        /\ UNCHANGED <<tables, count>>
    BY <1>1, <1>4, <1>9, <2>1 DEF Hash!Unlock, Hash!Step, Hash!At
  <2>4. CASE x.pc = "unlock"
    BY <1>3, <1>6, <2>2, <2>3, <2>4 DEF Entering
  <2>5. CASE x.pc # "unlock"
    BY <1>3, <1>5, <1>6, <2>3, <2>5 DEF Entering
  <2>. QED
    BY <2>4, <2>5
<1>10. ASSUME Hash!GrowFails(t) \/ Hash!CreateFails(t) \/ Hash!Uncount(t)
       PROVE  FirstInv'
  <2>1. PICK r : r = [x EXCEPT !.pc = "clear"]
    OBVIOUS
  <2>2. r.pc = "clear"
    BY <1>2, <2>1 DEF HashRecord
  <2>3. /\ \/ hashThread' = [hashThread EXCEPT ![t] = r]
           \/ hashThread' = [hashThread EXCEPT ![t] = idle]
        /\ x.pc \in {"grow", "producer", "uncount"}
        /\ count' = count - 1 /\ UNCHANGED tables
    BY <1>1, <1>4, <1>10, <2>1 DEF Hash!GrowFails, Hash!CreateFails, Hash!Uncount,
       Hash!Step, Hash!At
  <2>. QED
    BY <1>3, <1>5, <1>6, <2>2, <2>3 DEF Entering
\* The check against three quarters, and what comes after it.
<1>11. CASE Hash!Enter(t)
  <2>1. PICK r : r = [x EXCEPT !.pc = "producer"]
    OBVIOUS
  <2>2. r.pc = "producer" /\ r.count = x.count /\ r.main = x.main
    BY <1>2, <2>1 DEF HashRecord
  <2>3. /\ hashThread' = [hashThread EXCEPT ![t] = r] /\ x.pc = "room"
        /\ UNCHANGED <<tables, count>> /\ Hash!Room(x.count, x.main)
    BY <1>1, <1>11, <2>1 DEF Hash!Enter, Hash!Step, Hash!At
  <2>4. EnteredOK(r)
    BY <1>2, <2>2, <2>3 DEF EnteredOK, Hash!Room, Threshold
  <2>. QED
    BY <1>3, <2>2, <2>3, <2>4 DEF Entering
<1>12. ASSUME \/ \E p \in Pair : Hash!Spot(t, p) \/ Hash!Create(t, p)
              \/ Hash!Catch(t)
       PROVE  FirstInv'
  <2>1. PICK r : /\ hashThread' = [hashThread EXCEPT ![t] = r]
                 /\ r.pc \in {"producer", "catch", "insert"}
                 /\ r.count = x.count /\ r.main = x.main
    <3>1. ASSUME NEW p \in Pair, Hash!Spot(t, p)
          PROVE  \E r : /\ hashThread' = [hashThread EXCEPT ![t] = r]
                        /\ r.pc \in {"producer", "catch", "insert"}
                        /\ r.count = x.count /\ r.main = x.main
      <4>1. PICK r : r = [x EXCEPT !.pc = "catch", !.producer = p]
        OBVIOUS
      <4>2. r.pc = "catch" /\ r.count = x.count /\ r.main = x.main
        BY <1>2, <4>1 DEF HashRecord
      <4>. QED
        BY <1>1, <3>1, <4>1, <4>2 DEF Hash!Spot, Hash!Step
    <3>2. ASSUME NEW p \in Pair, Hash!Create(t, p)
          PROVE  \E r : /\ hashThread' = [hashThread EXCEPT ![t] = r]
                        /\ r.pc \in {"producer", "catch", "insert"}
                        /\ r.count = x.count /\ r.main = x.main
      <4>1. PICK r : r = [x EXCEPT !.pc = "insert", !.slot = HashOf[t], !.producer = p]
        OBVIOUS
      <4>2. r.pc = "insert" /\ r.count = x.count /\ r.main = x.main
        BY <1>2, <4>1 DEF HashRecord
      <4>. QED
        BY <1>1, <3>2, <4>1, <4>2 DEF Hash!Create, Hash!Step
    <3>3. ASSUME Hash!Catch(t)
          PROVE  \E r : /\ hashThread' = [hashThread EXCEPT ![t] = r]
                        /\ r.pc \in {"producer", "catch", "insert"}
                        /\ r.count = x.count /\ r.main = x.main
      <4>1. PICK r, q : /\ r = [x EXCEPT !.pc = "insert", !.slot = HashOf[t]]
                        /\ q = [x EXCEPT !.pc = "producer", !.producer = None]
        OBVIOUS
      <4>2. /\ r.pc = "insert" /\ r.count = x.count /\ r.main = x.main
            /\ q.pc = "producer" /\ q.count = x.count /\ q.main = x.main
        BY <1>2, <4>1 DEF HashRecord
      <4>3. \/ hashThread' = [hashThread EXCEPT ![t] = r]
            \/ hashThread' = [hashThread EXCEPT ![t] = q]
        BY <1>1, <3>3, <4>1 DEF Hash!Catch, Hash!Step
      <4>. QED
        BY <4>2, <4>3
    <3>. QED
      BY <1>12, <3>1, <3>2, <3>3
  <2>2. UNCHANGED <<tables, count>> /\ x.pc \in {"producer", "catch"}
    BY <1>1, <1>12 DEF Hash!Spot, Hash!Create, Hash!Catch, Hash!At
  <2>3. EnteredOK(r)
    BY <1>2, <2>1, <2>2 DEF EnteredOK
  <2>. QED
    BY <1>3, <2>1, <2>2, <2>3 DEF Entering
<1>13. CASE Hash!NotFound(t)
  <2>1. PICK c, r : c = count + 1 /\ r = [x EXCEPT !.pc = "loop", !.count = c]
    OBVIOUS
  <2>2. r.pc = "loop" /\ r.count = c
    BY <1>2, <2>1 DEF HashRecord
  <2>3. /\ hashThread' = [hashThread EXCEPT ![t] = r] /\ count' = count + 1
        /\ UNCHANGED tables
    BY <1>1, <1>13, <2>1 DEF Hash!NotFound, Hash!Step
  <2>. QED
    BY <1>3, <1>6, <2>1, <2>2, <2>3
<1>. QED
  BY <1>7, <1>8, <1>9, <1>10, <1>11, <1>12, <1>13

\* The steps that change a table: the first one keeps its size, and only an
\* insertion into an empty slot of it makes one more used.
LEMMA FirstTable ==
  ASSUME HashInv, NEW k \in 1..Len(tables), NEW U, tables' = [tables EXCEPT ![k] = U],
         DOMAIN U.key = DOMAIN tables[k].key
  PROVE  /\ Threshold' = Threshold
         /\ k # 1 => FirstUsed' = FirstUsed
         /\ k = 1 => FirstUsed' = {i \in DOMAIN tables[k].key : U.key[i] # Hash!Empty}
<1>1. tables \in Seq(Table) /\ 1 \in 1..Len(tables)
  BY DEF HashInv, TablesInv
<1>2. tables'[1] = IF k = 1 THEN U ELSE tables[1]
  BY <1>1
<1>. QED
  BY <1>2 DEF FirstUsed, Hash!Used, Threshold, Width

LEMMA FirstWritten ==
  ASSUME HashInv, NEW t \in Id, NEW k \in 1..Len(tables), NEW s, NEW p,
         tables' = [tables EXCEPT ![k].key[s] = t, ![k].value[s] = p]
  PROVE  /\ Threshold' = Threshold /\ FirstUsed' \subseteq FirstUsed \cup {s}
         /\ k # 1 \/ tables[k].key[s] = Hash!Reusable => FirstUsed' = FirstUsed
<1>1. PICK T, U : T = tables[k] /\ U = [T EXCEPT !.key[s] = t, !.value[s] = p]
  OBVIOUS
<1>2. T \in Table
  BY <1>1 DEF HashInv, TablesInv
<1>3. PICK w \in Nat \ {0} : T \in TableOf(w) /\ DOMAIN T.key = 0..w-1
  BY <1>2, TableFacts
<1>4. U.key = [T.key EXCEPT ![s] = t]
  <2>1. PICK K, V : K = [T.key EXCEPT ![s] = t] /\ V = [T.value EXCEPT ![s] = p]
    OBVIOUS
  <2>2. U.key = K
    BY <1>1, <1>3, <2>1 DEF TableOf
  <2>. QED
    BY <2>1, <2>2
<1>5. /\ DOMAIN U.key = DOMAIN T.key
      /\ \A i \in DOMAIN T.key : U.key[i] = IF i = s THEN t ELSE T.key[i]
  BY <1>4
<1>6. tables' = [tables EXCEPT ![k] = U]
  BY <1>1
<1>7. /\ Threshold' = Threshold
      /\ k # 1 => FirstUsed' = FirstUsed
      /\ k = 1 => FirstUsed' = {i \in DOMAIN T.key : U.key[i] # Hash!Empty}
  <2>1. DOMAIN U.key = DOMAIN tables[k].key
    BY <1>1, <1>5
  <2>2. /\ Threshold' = Threshold
        /\ k # 1 => FirstUsed' = FirstUsed
        /\ k = 1 => FirstUsed' = {i \in DOMAIN tables[k].key : U.key[i] # Hash!Empty}
    BY <1>6, <2>1, FirstTable
  <2>. QED
    BY <1>1, <2>2
<1>8. k = 1 => FirstUsed = {i \in DOMAIN T.key : T.key[i] # Hash!Empty}
  BY <1>1 DEF FirstUsed, Hash!Used
<1>9. ASSUME k = 1
      PROVE  /\ FirstUsed' \subseteq FirstUsed \cup {s}
             /\ T.key[s] = Hash!Reusable => FirstUsed' = FirstUsed
  <2>1. t # Hash!Empty /\ Hash!Reusable # Hash!Empty
    BY HashFacts
  <2>2. FirstUsed' = {i \in DOMAIN T.key : (IF i = s THEN t ELSE T.key[i]) # Hash!Empty}
    BY <1>5, <1>7, <1>9
  <2>. QED
    BY <1>8, <1>9, <2>1, <2>2
<1>. QED
  BY <1>1, <1>7, <1>9

LEMMA FirstMove ==
  ASSUME HashInv, HashInv', FirstInv, NEW t \in Id, Hash!Move(t)
  PROVE  FirstInv'
<1>1. PICK x, k, s : /\ x = hashThread[t] /\ k = x.main
                     /\ s = x.slot % Hash!Capacity(k)
  OBVIOUS
<1>2. /\ x \in HashRecord /\ EnteredOK(x) /\ HashOK(t, x, own[t])
  BY <1>1, HashThreadFacts DEF FirstInv
<1>3. x.pc = "move" /\ x.table = k /\ k \in 1..Len(tables) /\ k # 1
  BY <1>1, <1>2 DEF HashOK, EnteredOK, Hash!Move, Hash!At
<1>4. CASE tables[k].key[s] \in {Hash!Empty, Hash!Reusable}
  <2>1. PICK idle : idle = Hash!Idle
    OBVIOUS
  <2>2. /\ tables' = [tables EXCEPT ![k].key[s] = t, ![k].value[s] = x.producer]
        /\ hashThread' = [hashThread EXCEPT ![t] = idle] /\ count' = count
    BY <1>1, <1>3, <1>4, <2>1 DEF Hash!Move, Hash!Write, Hash!Step
  <2>3. idle.pc = "idle" /\ EnteredOK(idle)
    BY <2>1, HashIdle DEF EnteredOK
  <2>4. Threshold' = Threshold /\ FirstUsed' = FirstUsed
    BY <1>3, <2>2, FirstWritten
  <2>. QED
    BY <2>2, <2>3, <2>4, FirstMoves DEF Entering
<1>5. CASE tables[k].key[s] \notin {Hash!Empty, Hash!Reusable}
  <2>1. PICK r : r = [x EXCEPT !.slot = s + 1]
    OBVIOUS
  <2>2. r.pc = "move" /\ r.main = k
    BY <1>1, <1>2, <1>3, <2>1 DEF HashRecord
  <2>3. /\ hashThread' = [hashThread EXCEPT ![t] = r]
        /\ UNCHANGED <<tables, count>>
    BY <1>1, <1>3, <1>5, <2>1 DEF Hash!Move, Hash!Step
  <2>4. EnteredOK(r)
    BY <1>3, <2>2 DEF EnteredOK
  <2>. QED
    BY <2>2, <2>3, <2>4, FirstQuiet DEF Entering
<1>. QED
  BY <1>4, <1>5

LEMMA FirstInsert ==
  ASSUME HashInv, HashInv', FirstInv, NEW t \in Id, Hash!Insert(t)
  PROVE  FirstInv'
<1>1. PICK x, k, s : /\ x = hashThread[t] /\ k = x.main
                     /\ s = x.slot % Hash!Capacity(k)
  OBVIOUS
<1>2. x \in HashRecord /\ EnteredOK(x) /\ HashOK(t, x, own[t])
  BY <1>1, HashThreadFacts DEF FirstInv
<1>3. /\ x.pc = "insert" /\ k \in 1..Len(tables)
      /\ k = 1 => x.count < Threshold
  BY <1>1, <1>2 DEF HashOK, EnteredOK, Entering, Hash!Insert, Hash!At
<1>4. CASE tables[k].key[s] \in {Hash!Empty, Hash!Reusable}
  <2>1. PICK idle, r : idle = Hash!Idle /\ r = [x EXCEPT !.pc = "uncount"]
    OBVIOUS
  <2>2. /\ idle.pc = "idle" /\ EnteredOK(idle)
        /\ r.pc = "uncount" /\ r.count = x.count /\ EnteredOK(r)
    BY <1>2, <2>1, HashIdle DEF HashRecord, EnteredOK
  <2>3. /\ tables' = [tables EXCEPT ![k].key[s] = t, ![k].value[s] = x.producer]
        /\ hashThread' = [hashThread EXCEPT ![t] =
             IF tables[k].key[s] = Hash!Reusable THEN r ELSE idle]
        /\ count' = count
    BY <1>1, <1>4, <2>1 DEF Hash!Insert, Hash!UsedBefore, Hash!Write, Hash!Step
  <2>4. /\ Threshold' = Threshold /\ FirstUsed' \subseteq FirstUsed \cup {s}
        /\ k # 1 \/ tables[k].key[s] = Hash!Reusable => FirstUsed' = FirstUsed
    BY <1>3, <2>3, FirstWritten
  <2>5. CASE tables[k].key[s] = Hash!Reusable
    <3>1. hashThread' = [hashThread EXCEPT ![t] = r] /\ FirstUsed' = FirstUsed
      BY <2>3, <2>4, <2>5
    <3>. QED
      BY <1>1, <1>3, <2>2, <2>3, <2>4, <3>1, FirstMoves DEF Entering
  <2>6. CASE tables[k].key[s] # Hash!Reusable
    <3>1. hashThread' = [hashThread EXCEPT ![t] = idle]
      BY <2>3, <2>6
    <3>2. hashThread[t].pc \in Entering /\ idle.pc \notin Entering
      BY <1>1, <1>3, <2>2 DEF Entering
    <3>3. CASE k = 1
      BY <1>1, <1>3, <2>2, <2>3, <2>4, <3>1, <3>2, <3>3, FirstMoves
    <3>4. CASE k # 1
      BY <2>2, <2>3, <2>4, <3>1, <3>2, <3>4, FirstMoves
    <3>. QED
      BY <3>3, <3>4
  <2>. QED
    BY <2>5, <2>6
<1>5. CASE tables[k].key[s] \notin {Hash!Empty, Hash!Reusable}
  <2>1. PICK r : r = [x EXCEPT !.slot = s + 1]
    OBVIOUS
  <2>2. r.pc = "insert" /\ r.main = k /\ r.count = x.count
    BY <1>1, <1>2, <1>3, <2>1 DEF HashRecord
  <2>3. /\ hashThread' = [hashThread EXCEPT ![t] = r]
        /\ UNCHANGED <<tables, count>>
    BY <1>1, <1>5, <2>1 DEF Hash!Insert, Hash!Step
  <2>4. EnteredOK(r)
    BY <1>3, <2>2 DEF EnteredOK
  <2>. QED
    BY <1>1, <1>3, <2>2, <2>3, <2>4, FirstQuiet DEF Entering
<1>. QED
  BY <1>4, <1>5

\* The id is copied only into a table that is newer than another.
LEMMA FirstFound ==
  ASSUME HashInv, HashInv', FirstInv, NEW t \in Id, Hash!Found(t)
  PROVE  FirstInv'
<1>1. PICK x, m, S, k : /\ x = hashThread[t] /\ m = x.main
                        /\ S = Hash!Tables(t, m) /\ k = Hash!Latest(S)
  OBVIOUS
<1>2. x \in HashRecord /\ HashOK(t, x, own[t])
  BY <1>1, HashThreadFacts
<1>3. x.pc = "search" /\ S # {} /\ m \in 1..Len(tables)
  BY <1>1, <1>2 DEF HashOK, Hash!Found, Hash!At
<1>4. m = 1 => k = m
  <2>1. S = {l \in 1..m : Named(tables[l], t) # {}}
    BY <1>1, <1>3, TablesAre DEF HashInv
  <2>2. m = 1 => S = {1}
    BY <1>3, <2>1
  <2>. QED
    BY <1>1, <2>2 DEF Hash!Latest
<1>5. PICK p, idle, r :
        /\ p = tables[k].value[CHOOSE s \in Hash!Slots(t, k) : TRUE]
        /\ idle = Hash!Idle
        /\ r = [x EXCEPT !.pc = "move", !.producer = p, !.table = m, !.slot = HashOf[t]]
  OBVIOUS
<1>6. /\ hashThread' = [hashThread EXCEPT ![t] = IF k = m THEN idle ELSE r]
      /\ UNCHANGED <<tables, count>>
  BY <1>1, <1>5 DEF Hash!Found, Hash!Step
<1>7. idle.pc = "idle" /\ r.pc = "move" /\ r.main = m
  BY <1>1, <1>2, <1>5, HashIdle DEF HashRecord
<1>8. CASE k = m
  <2>1. hashThread' = [hashThread EXCEPT ![t] = idle] /\ EnteredOK(idle)
    BY <1>6, <1>7, <1>8 DEF EnteredOK
  <2>. QED
    BY <1>6, <1>7, <2>1, FirstQuiet DEF Entering
<1>9. CASE k # m
  <2>1. hashThread' = [hashThread EXCEPT ![t] = r] /\ EnteredOK(r)
    BY <1>4, <1>6, <1>7, <1>9 DEF EnteredOK
  <2>. QED
    BY <1>6, <1>7, <2>1, FirstQuiet DEF Entering
<1>. QED
  BY <1>8, <1>9

LEMMA FirstGrow ==
  ASSUME HashInv, HashInv', FirstInv, NEW t \in Id, Hash!Grow(t)
  PROVE  FirstInv'
<1>1. PICK x : x = hashThread[t]
  OBVIOUS
<1>2. x \in HashRecord
  BY <1>1, HashThreadFacts
<1>3. PICK U, r : /\ U = Hash!NewTable(Hash!NewCapacity(x.count, x.main), x.main)
                  /\ r = [x EXCEPT !.pc = "unlock", !.main = Len(tables) + 1]
  OBVIOUS
<1>4. /\ x.pc = "grow" /\ tables' = Append(tables, U) /\ count' = count
      /\ hashThread' = [hashThread EXCEPT ![t] = r]
  BY <1>1, <1>3 DEF Hash!Grow, Hash!Step, Hash!At
<1>5. r.pc = "unlock" /\ r.count = x.count
  BY <1>2, <1>3 DEF HashRecord
<1>6. tables'[1] = tables[1]
  <2>1. tables \in Seq(Table) /\ 1 \in 1..Len(tables)
    BY DEF HashInv, TablesInv
  <2>. QED
    BY <1>4, <2>1
<1>7. FirstUsed' = FirstUsed /\ Threshold' = Threshold
  BY <1>6 DEF FirstUsed, Hash!Used, Threshold, Width
<1>. QED
  BY <1>1, <1>4, <1>5, <1>7, FirstMoves DEF EnteredOK, Entering

\* A slot that was used remains so.
LEMMA FirstLeave ==
  ASSUME HashInv, HashInv', FirstInv, NEW t \in Id, Hash!Leave(t)
  PROVE  FirstInv'
<1>1. PICK x, k, T : x = hashThread[t] /\ k = x.table /\ T = tables[k]
  OBVIOUS
<1>2. x \in HashRecord /\ HashOK(t, x, own[t])
  BY <1>1, HashThreadFacts
<1>3. x.pc = "leave" /\ k \in 1..Len(tables) /\ count' = count
  <2>1. x.pc = "leave" /\ k # 0 /\ count' = count
    BY <1>1 DEF Hash!Leave, Hash!At
  <2>2. k \in 0..Len(tables) /\ Len(tables) \in Nat
    BY <1>1, <1>2, <2>1, HashThreadFacts DEF HashOK
  <2>. QED
    BY <2>1, <2>2
<1>4. PICK w \in Nat \ {0} : T \in TableOf(w) /\ DOMAIN T.key = 0..w-1
  <2>1. T \in Table
    BY <1>1, <1>3 DEF HashInv, TablesInv
  <2>. QED
    BY <2>1, TableFacts
<1>5. PICK K, U, r :
        /\ K = [s \in DOMAIN T.key |->
                 IF s \in Hash!Slots(t, k) THEN Hash!Reusable ELSE T.key[s]]
        /\ U = [T EXCEPT !.key = K]
        /\ r = [x EXCEPT !.table = Hash!Previous(k)]
  OBVIOUS
<1>6. /\ tables' = [tables EXCEPT ![k] = U]
      /\ hashThread' = [hashThread EXCEPT ![t] = r]
  BY <1>1, <1>5 DEF Hash!Leave, Hash!Step
<1>7. r.pc = "leave"
  BY <1>2, <1>3, <1>5 DEF HashRecord
<1>8. U.key = K /\ DOMAIN U.key = DOMAIN T.key
  BY <1>4, <1>5 DEF TableOf
<1>9. Threshold' = Threshold /\ FirstUsed' = FirstUsed
  <2>1. /\ Threshold' = Threshold
        /\ k # 1 => FirstUsed' = FirstUsed
        /\ k = 1 => FirstUsed' = {i \in DOMAIN T.key : U.key[i] # Hash!Empty}
    BY <1>1, <1>3, <1>6, <1>8, FirstTable
  <2>2. ASSUME k = 1
        PROVE  {i \in DOMAIN T.key : U.key[i] # Hash!Empty} = FirstUsed
    <3>1. FirstUsed = {i \in DOMAIN T.key : T.key[i] # Hash!Empty}
      BY <1>1, <2>2 DEF FirstUsed, Hash!Used
    <3>2. Hash!Slots(t, k) = Named(T, t)
      BY <1>1, <1>3, SlotsAre DEF HashInv
    <3>3. \A i \in DOMAIN T.key : U.key[i] = Hash!Empty <=> T.key[i] = Hash!Empty
      BY <1>5, <1>8, <3>2, HashFacts DEF Named
    <3>. QED
      BY <3>1, <3>3
  <2>. QED
    BY <2>1, <2>2
<1>. QED
  BY <1>3, <1>6, <1>7, <1>9, FirstMoves DEF EnteredOK, Entering

LEMMA FirstInit ==
  ASSUME Hash!Init
  PROVE  FirstInv
<1>1. /\ tables = <<Hash!NewTable(InitialSize, 0)>> /\ count = 0
      /\ hashThread = [t \in Id |-> Hash!Asleep]
  BY DEF Hash!Init
<1>2. FirstUsed = {}
  BY <1>1 DEF FirstUsed, Hash!Used, Hash!NewTable
<1>3. Counting = {} /\ Fitting = {}
  BY <1>1, HashIdle DEF Counting, Fitting, Entering
<1>4. \A t \in Id : EnteredOK(hashThread[t])
  BY <1>1, HashIdle DEF EnteredOK
<1>5. Threshold \in Nat
  <2>1. HashInv
    BY HashInit
  <2>. QED
    BY <2>1, FirstFacts
<1>. QED
  BY <1>1, <1>2, <1>3, <1>4, <1>5, FS_EmptySet DEF FirstInv

\* Every search in the first table ends: a quarter of it stays free, however
\* the counting, the insertions and the growth of the next tables interleave,
\* and although a count may be lower than the used slots of those.
THEOREM FirstTableNeverFull == PartSpec => []SearchesEnd
<1>1. PartInit => HashInv /\ FirstInv
  BY HashInit, FirstInit DEF PartInit
<1>2. HashInv /\ FirstInv /\ [PartNext]_<<part, listVars, hashVars, exitVars, scanVars>>
        => (HashInv /\ FirstInv)'
  <2>. SUFFICES ASSUME HashInv, FirstInv,
                       [PartNext]_<<part, listVars, hashVars, exitVars, scanVars>>
                PROVE  HashInv' /\ FirstInv'
    OBVIOUS
  <2>1. CASE Hash!Next
    <3>1. HashInv'
      BY <2>1, HashNext
    <3>2. PICK t \in Id :
            Hash!Start(t) \/ Hash!LoadHash(t) \/ Hash!GetOrAdd(t) \/ Hash!Ending(t)
      BY <2>1 DEF Hash!Next
    <3>3. \/ Hash!Start(t) \/ Hash!LoadHash(t) \/ Hash!PassBy(t) \/ Hash!Reload(t)
          \/ Hash!GrowFails(t) \/ Hash!Enter(t) \/ Hash!Wait(t)
          \/ \E p \in Pair : Hash!Spot(t, p)
          \/ Hash!CreateFails(t) \/ Hash!Uncount(t) \/ Hash!Exit(t)
          \/ Hash!NotFound(t) \/ Hash!TryLock(t) \/ Hash!Unlock(t)
          \/ \E p \in Pair : Hash!Create(t, p)
          \/ Hash!Catch(t) \/ Hash!Deactivate(t)
          \/ Hash!Found(t) \/ Hash!Move(t) \/ Hash!Insert(t)
          \/ Hash!Grow(t) \/ Hash!Leave(t)
      BY <3>2 DEF Hash!GetOrAdd, Hash!Ending
    <3>. QED
      BY <3>1, <3>3, FirstQuietSteps, FirstFound, FirstMove, FirstInsert, FirstGrow,
         FirstLeave
  <2>2. CASE UNCHANGED hashVars
    <3>1. UNCHANGED <<tables, count, hashThread>>
      BY <2>2 DEF hashVars
    <3>2. FirstInv'
      BY <3>1 DEF FirstInv, FirstUsed, Hash!Used, Threshold, Width, Counting, Fitting,
         EnteredOK
    <3>. QED
      BY <2>2, <3>2, HashSame
  <2>. QED
    BY <2>1, <2>2 DEF PartNext, ListStep, HashStep, ExitStep, ScanStep
<1>3. HashInv /\ FirstInv => SearchesEnd
  <2>. SUFFICES ASSUME HashInv, FirstInv
                PROVE  Hash!FirstTableFree
    BY DEF SearchesEnd
  <2>1. PICK u, f, m : /\ u = Cardinality(FirstUsed) /\ f = Cardinality(Fitting)
                       /\ m = Threshold
    OBVIOUS
  <2>2. u \in Nat /\ f \in Nat /\ m \in Nat
    BY <2>1, FirstFacts
  <2>3. u + f <= IF m = 0 THEN 0 ELSE m - 1
    BY <2>1 DEF FirstInv
  <2>4. u = 0 \/ u < m
    BY <2>2, <2>3
  <2>5. /\ m = Hash!Capacity(1) \div 2 + Hash!Capacity(1) \div 4
        /\ u = Hash!Cardinality(Hash!Used(1))
    BY <2>1, FirstFacts, HashCardinality DEF Threshold, FirstUsed
  <2>. QED
    BY <2>4, <2>5 DEF Hash!FirstTableFree
<1>. QED
  BY <1>1, <1>2, <1>3, PTL DEF PartSpec
===============================================================================
