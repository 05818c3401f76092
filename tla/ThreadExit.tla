------------------------------ MODULE ThreadExit ------------------------------
(***************************************************************************)
(* How a queue hears that a thread which enqueued has ended                *)
(* (ThreadExitListener and ThreadExitNotifier of                           *)
(* include/concurrentqueue.h): every producer has a listener, linked into  *)
(* the list of the thread that uses it.  The thread's last act is to walk  *)
(* the list and to mark the producers inactive; a producer that dies       *)
(* earlier takes its listener out.  One mutex guards all lists.            *)
(***************************************************************************)
EXTENDS FiniteSets

CONSTANTS
  Thread,              \* threads that enqueue and end
  Queue,               \* queues, each destroyed by somebody
  Producer,            \* producers of all queues, with their listeners
  None                 \* null; no owner

NoneAssumption == None \notin Producer \cup Thread \cup Queue

VARIABLES
  tail,                \* the first listener of each thread's list
  next,                \* ThreadExitListener::next
  chain,               \* ThreadExitListener::chain: the thread
  inactive,            \* ProducerBase::inactive
  queueOf,             \* the queue a producer belongs to, while it is alive
  mutex,               \* who has locked the mutex for longer than a step
  thread,              \* control and local variables of each thread
  queue,               \* control and local variables of each destructor
  user                 \* history: the last thread that used each producer

listeners == <<tail, next, chain>>
vars == <<listeners, inactive, queueOf, mutex, thread, queue, user>>

Alive(p) == queueOf[p] # None

Init ==
  /\ tail = [t \in Thread |-> None]
  /\ next = [p \in Producer |-> None]
  /\ chain = [p \in Producer |-> None]
  /\ inactive = {}
  /\ queueOf = [p \in Producer |-> None]
  /\ mutex = None
  /\ thread = [t \in Thread |-> [pc |-> "running", ptr |-> None]]
  /\ queue = [q \in Queue |-> [pc |-> "alive", ptr |-> None]]
  /\ user = [p \in Producer |-> None]

-----------------------------------------------------------------------------
At(t, label) == thread[t].pc = label
Step(t, label, p) == thread' = [thread EXCEPT ![t] = [pc |-> label, ptr |-> p]]
Destroy(q, label, p) ==
  queue' = [queue EXCEPT ![q] = [pc |-> label, ptr |-> p]]

\* The first enqueue of a thread into q: recycle_or_create_producer, ...
Recycle(t, p) ==
  /\ At(t, "running")
  /\ Alive(p) /\ p \in inactive
  /\ queue[queueOf[p]].pc = "alive"
  /\ \A r \in Producer \ {p} : user[r] = t => queueOf[r] # queueOf[p]
  /\ inactive' = inactive \ {p}
  /\ user' = [user EXCEPT ![p] = t]
  /\ Step(t, "subscribe", p)
  /\ UNCHANGED <<listeners, queueOf, mutex, queue>>

Create(t, p, q) ==
  /\ At(t, "running")
  /\ user[p] = None
  /\ queue[q].pc = "alive"
  /\ \A r \in Producer : user[r] = t => queueOf[r] # q
  /\ queueOf' = [queueOf EXCEPT ![p] = q]
  /\ user' = [user EXCEPT ![p] = t]
  /\ Step(t, "subscribe", p)
  /\ UNCHANGED <<listeners, inactive, mutex, queue>>

\* ... and ThreadExitNotifier::subscribe.
\* (mutant) without the lock.
Unlocked == TRUE
Lockable == mutex = None

Subscribe(t) ==
  LET p == thread[t].ptr
  IN  /\ At(t, "subscribe")
      /\ Lockable
      /\ next' = [next EXCEPT ![p] = tail[t]]
      /\ chain' = [chain EXCEPT ![p] = t]
      /\ tail' = [tail EXCEPT ![t] = p]
      /\ Step(t, "running", None)
      /\ UNCHANGED <<inactive, queueOf, mutex, queue, user>>

-----------------------------------------------------------------------------
\* ~ThreadExitNotifier.
\* (mutant) the mutex stays locked.
StillLocked == mutex
Released == None

Visit(t, p) ==
  IF p = None THEN Step(t, "ended", None) /\ mutex' = Released
  ELSE Step(t, "unchain", p) /\ mutex' = t

End(t) ==
  /\ At(t, "running")
  /\ mutex = None
  /\ Visit(t, tail[t])
  /\ UNCHANGED <<listeners, inactive, queueOf, queue, user>>

Unchain(t) ==
  /\ At(t, "unchain")
  /\ chain' = [chain EXCEPT ![thread[t].ptr] = None]
  /\ Step(t, "callback", thread[t].ptr)
  /\ UNCHANGED <<tail, next, inactive, queueOf, mutex, queue, user>>

\* implicit_producer_thread_exited: its last store.
Callback(t) ==
  /\ At(t, "callback")
  /\ inactive' = inactive \cup {thread[t].ptr}
  /\ Step(t, "next", thread[t].ptr)
  /\ UNCHANGED <<listeners, queueOf, mutex, queue, user>>

\* A queue destroyed since the callback may have freed the listener: its
\* destructor saw that the producer is inactive and did not wait for the mutex.
\* The thread then reads freed memory and goes astray: whatever it finds there
\* it takes for a listener, writes to and calls.
Advance(t) ==
  LET p == thread[t].ptr
  IN  /\ At(t, "next")
      /\ IF Alive(p) THEN Visit(t, next[p])
         ELSE Step(t, "astray", None) /\ UNCHANGED mutex
      /\ UNCHANGED <<listeners, inactive, queueOf, queue, user>>

-----------------------------------------------------------------------------
\* ~ConcurrentQueue, when no call of it is under way: it destroys all producers.
Unused(q) ==
  \A t \in Thread : At(t, "subscribe") => queueOf[thread[t].ptr] # q

Begin(q) ==
  /\ queue[q].pc = "alive"
  /\ Unused(q)
  /\ Destroy(q, "producers", None)
  /\ UNCHANGED <<listeners, inactive, queueOf, mutex, thread, user>>

\* ~ImplicitProducer looks whether its thread has ended.
Look(q, p) ==
  /\ queue[q].pc = "producers"
  /\ queueOf[p] = q
  /\ Destroy(q, IF p \in inactive THEN "free" ELSE "unsubscribe", p)
  /\ UNCHANGED <<listeners, inactive, queueOf, mutex, thread, user>>

\* unsubscribe: there is nothing to do if the thread has ended meanwhile.
\* (mutant) the list is not mended.
KeptInList(p) == <<tail, next>>
Mended(p) ==
  LET t == chain[p]
  IN  <<[tail EXCEPT ![t] = IF @ = p THEN next[p] ELSE @],
        [r \in Producer |->
           IF chain[r] = t /\ next[r] = p THEN next[p] ELSE next[r]]>>

Unsubscribe(q) ==
  LET p == queue[q].ptr
  IN  /\ queue[q].pc = "unsubscribe"
      /\ Lockable
      /\ IF chain[p] = None THEN UNCHANGED listeners
         ELSE /\ tail' = Mended(p)[1] /\ next' = Mended(p)[2]
              /\ chain' = [chain EXCEPT ![p] = None]
      /\ Destroy(q, "free", p)
      /\ UNCHANGED <<inactive, queueOf, mutex, thread, user>>

Free(q) ==
  /\ queue[q].pc = "free"
  /\ queueOf' = [queueOf EXCEPT ![queue[q].ptr] = None]
  /\ Destroy(q, "producers", None)
  /\ UNCHANGED <<listeners, inactive, mutex, thread, user>>

Finish(q) ==
  /\ queue[q].pc = "producers"
  /\ \A p \in Producer : queueOf[p] # q
  /\ Destroy(q, "gone", None)
  /\ UNCHANGED <<listeners, inactive, queueOf, mutex, thread, user>>

-----------------------------------------------------------------------------
\* A thread at the end of its life reads only listeners that exist, in whatever
\* order queues are destroyed meanwhile.
WalkOnLive == \A t \in Thread : ~At(t, "astray")

\* Once a thread has gone astray anything may follow: nothing is said of it.
Next ==
  /\ WalkOnLive
  /\ \/ \E t \in Thread :
          \/ \E p \in Producer :
               Recycle(t, p) \/ \E q \in Queue : Create(t, p, q)
          \/ Subscribe(t) \/ End(t) \/ Unchain(t) \/ Callback(t) \/ Advance(t)
     \/ \E q \in Queue :
          \/ Begin(q) \/ \E p \in Producer : Look(q, p)
          \/ Unsubscribe(q) \/ Free(q) \/ Finish(q)

Spec == Init /\ [][Next]_vars

-----------------------------------------------------------------------------
TypeOK ==
  /\ tail \in [Thread -> Producer \cup {None}]
  /\ next \in [Producer -> Producer \cup {None}]
  /\ chain \in [Producer -> Thread \cup {None}]
  /\ inactive \subseteq Producer
  /\ queueOf \in [Producer -> Queue \cup {None}]
  /\ mutex \in Thread \cup {None}
  /\ \A t \in Thread :
       mutex = t <=> thread[t].pc \in {"unchain", "callback", "next"}

\* The callback reads the queue's hash and writes the producer: both exist,
\* since a destructor that came too late to unsubscribe waits for the mutex.
CallbackOnLive ==
  \A t \in Thread :
    thread[t].pc \in {"unchain", "callback"} =>
      /\ Alive(thread[t].ptr)
      /\ queue[queueOf[thread[t].ptr]].pc # "gone"

\* A thread that has ended uses no producer of a queue that still exists, so
\* that each of them can be recycled: no unsubscription and no recycling
\* that happens meanwhile takes a listener out of another thread's list.
Told ==
  \A t \in Thread, p \in Producer :
    /\ At(t, "ended") /\ Alive(p) /\ user[p] = t
    /\ queue[queueOf[p]].pc = "alive"
    => p \in inactive

\* The lists hold no listener that was freed.
NoDangling ==
  \A t \in Thread :
    ~At(t, "ended") /\ mutex # t =>
      /\ tail[t] # None => Alive(tail[t])
      /\ \A p \in Producer :
           chain[p] = t /\ next[p] # None => Alive(next[p])

\* Until a thread goes astray: the end of a thread is told to the queues that
\* exist, and to no other.
Safety == WalkOnLive => TypeOK /\ CallbackOnLive /\ Told /\ NoDangling
=============================================================================
