----------------------------- MODULE ProducerHash -----------------------------
(***************************************************************************)
(* How a thread that enqueues finds its own producer                       *)
(* (get_or_add_implicit_producer of include/concurrentqueue.h): a chain of *)
(* hash tables from thread ids to producers, each twice as large as the    *)
(* one before, and a list of all producers from which those of threads     *)
(* that have ended are taken again.                                        *)
(*                                                                         *)
(* A thread looks for its id in the current table and all before; only the *)
(* thread itself writes its id and a slot is never made empty again, so    *)
(* the whole search is one step.  An id is the address of a thread-local   *)
(* variable: a later thread may have the same one.                         *)
(***************************************************************************)
EXTENDS Integers, Sequences, FiniteSets

CONSTANTS
  Thread,              \* thread ids
  Hash,                \* hash_thread_id of each
  Producer,            \* all producers memory can hold
  InitialSize,         \* INITIAL_IMPLICIT_PRODUCER_HASH_SIZE: a power of 2, any works
  MaxTables,           \* bound: tables that fit into memory
  MaxStarts,           \* bound: threads that begin
  None                 \* no producer: null

Empty == "invalid_thread_id"
Reusable == "invalid_thread_id2"

HashAssumption ==
  /\ IsFiniteSet(Thread) /\ Hash \in [Thread -> Nat]
  /\ InitialSize \in Nat \ {0}
  /\ MaxTables \in Nat \ {0} /\ MaxStarts \in Nat \ {0}
  /\ None \notin Producer /\ {Empty, Reusable} \cap Thread = {}

VARIABLES
  tables,              \* the last one is implicitProducerHash
  count,               \* implicitProducerHashCount
  resizing,            \* implicitProducerHashResizeInProgress
  producers,           \* the producers of the list
  inactive,            \* those of them that no thread uses
  thread,              \* control and local variables of each thread
  own,                 \* history: the producer each thread was given
  starts               \* history: the number of threads that have begun

vars == <<tables, count, resizing, producers, inactive, thread, own, starts>>

NewTable(n, k) == [key |-> [i \in 0..n-1 |-> Empty],
                   value |-> [i \in 0..n-1 |-> None],
                   prev |-> k]
Capacity(k) == Cardinality(DOMAIN tables[k].key)
Current == Len(tables)
Used(k) == {s \in DOMAIN tables[k].key : tables[k].key[s] # Empty}
Asleep == [pc |-> "asleep", main |-> 0, count |-> 0, table |-> 0, slot |-> 0,
           producer |-> None]

Init ==
  /\ tables = <<NewTable(InitialSize, 0)>>
  /\ count = 0 /\ resizing = FALSE
  /\ producers = {} /\ inactive = {}
  /\ thread = [t \in Thread |-> Asleep]
  /\ own = [t \in Thread |-> None]
  /\ starts = 0

-----------------------------------------------------------------------------
At(t, label) == thread[t].pc = label
Step(t, r) == thread' = [thread EXCEPT ![t] = r]
Idle == [Asleep EXCEPT !.pc = "idle"]

Probe(t, k, n) == (Hash[t] + n) % Capacity(k)

\* The slot of t's id in table k, if the search gets there.
Slots(t, k) ==
  {Probe(t, k, n) : n \in
    {m \in 0..Capacity(k)-1 :
       /\ tables[k].key[Probe(t, k, m)] = t
       /\ \A l \in 0..m-1 : tables[k].key[Probe(t, k, l)] # Empty}}

\* The tables from k back, and those of them that have t's id.
Chain(k) ==
  LET chain[l \in 0..k] == IF l = 0 THEN {} ELSE {l} \cup chain[tables[l].prev]
  IN  chain[k]
Tables(t, k) == {l \in Chain(k) : Slots(t, l) # {}}
Latest(S) == CHOOSE l \in S : \A m \in S : m <= l

-----------------------------------------------------------------------------
\* A thread begins.
Start(t) ==
  /\ At(t, "asleep")
  /\ starts < MaxStarts
  /\ starts' = starts + 1
  /\ Step(t, Idle)
  /\ UNCHANGED <<tables, count, resizing, producers, inactive, own>>

\* get_or_add_implicit_producer.
LoadHash(t) ==
  /\ At(t, "idle")
  /\ Step(t, [Idle EXCEPT !.pc = "search", !.main = Current])
  /\ UNCHANGED <<tables, count, resizing, producers, inactive, own, starts>>

Found(t) ==
  /\ At(t, "search")
  /\ Tables(t, thread[t].main) # {}
  /\ LET k == Latest(Tables(t, thread[t].main))
         p == tables[k].value[CHOOSE s \in Slots(t, k) : TRUE]
     IN  Step(t, IF k = thread[t].main
                 THEN Idle
                 ELSE [thread[t] EXCEPT !.pc = "move", !.producer = p,
                                        !.table = thread[t].main,
                                        !.slot = Hash[t]])
  /\ UNCHANGED <<tables, count, resizing, producers, inactive, own, starts>>

\* The id is written into a slot of the table: lazily into the current one
\* when it was found in an older one ...
Write(t, k, s) ==
  tables' = [tables EXCEPT ![k].key[s] = t,
                           ![k].value[s] = thread[t].producer]

Move(t) ==
  LET k == thread[t].table
      s == thread[t].slot % Capacity(k)
  IN  /\ At(t, "move")
      /\ IF tables[k].key[s] \in {Empty, Reusable}
         THEN /\ Write(t, k, s)
              /\ Step(t, Idle)
         ELSE /\ Step(t, [thread[t] EXCEPT !.slot = s + 1])
              /\ UNCHANGED tables
      /\ UNCHANGED <<count, resizing, producers, inactive, own, starts>>

\* ... or, when it was not found, once it is counted.
NotFound(t) ==
  /\ At(t, "search")
  /\ Tables(t, thread[t].main) = {}
  /\ count' = count + 1
  /\ Step(t, [thread[t] EXCEPT !.pc = "loop", !.count = count + 1])
  /\ UNCHANGED <<tables, resizing, producers, inactive, own, starts>>

HalfFull(n, k) == n >= Capacity(k) \div 2
TryLock(t) ==
  /\ At(t, "loop")
  /\ HalfFull(thread[t].count, thread[t].main)
  /\ ~resizing
  /\ resizing' = TRUE
  /\ Step(t, [thread[t] EXCEPT !.pc = "locked"])
  /\ UNCHANGED <<tables, count, producers, inactive, own, starts>>

\* Somebody else is at it, or there is no need.
PassBy(t) ==
  /\ At(t, "loop")
  /\ HalfFull(thread[t].count, thread[t].main) => resizing
  /\ Step(t, [thread[t] EXCEPT !.pc = "room"])
  /\ UNCHANGED <<tables, count, resizing, producers, inactive, own, starts>>

\* With the lock: the latest table, and a larger one if it is half full, too.
\* (mutant) the new table is chained to the one that was loaded first.
Loaded(t) == thread[t].main
Reloaded(t) == Current

Reload(t) ==
  LET k == Reloaded(t)
  IN  /\ At(t, "locked")
      /\ Step(t, [thread[t] EXCEPT
           !.main = k,
           !.pc = IF HalfFull(thread[t].count, k) THEN "grow" ELSE "unlock"])
      /\ UNCHANGED <<tables, count, resizing, producers, inactive, own, starts>>

\* Doubled until it is less than half full.
NewCapacity(n, k) ==
  LET size[j \in 0..n+1] == IF j = 0 THEN Capacity(k) ELSE 2 * size[j-1]
  IN  size[CHOOSE j \in 1..n+1 : /\ ~(n >= size[j] \div 2)
                                 /\ \A i \in 1..j-1 : n >= size[i] \div 2]

Grow(t) ==
  LET m == thread[t].main
  IN  /\ At(t, "grow")
      /\ Len(tables) < MaxTables
      /\ tables' = Append(tables, NewTable(NewCapacity(thread[t].count, m), m))
      /\ Step(t, [thread[t] EXCEPT !.pc = "unlock", !.main = Len(tables) + 1])
      /\ UNCHANGED <<count, resizing, producers, inactive, own, starts>>

\* No memory: uncounted and unlocked, null is returned.
GrowFails(t) ==
  /\ At(t, "grow")
  /\ count' = count - 1
  /\ Step(t, [thread[t] EXCEPT !.pc = "clear"])
  /\ UNCHANGED <<tables, resizing, producers, inactive, own, starts>>

\* (mutant) not after a failure.
KeptLocked(t) == At(t, "clear")
Locked(t) == FALSE

Unlock(t) ==
  /\ thread[t].pc \in {"unlock", "clear"}
  /\ resizing' = Locked(t)
  /\ Step(t, IF At(t, "unlock") THEN [thread[t] EXCEPT !.pc = "room"]
             ELSE Idle)
  /\ UNCHANGED <<tables, count, producers, inactive, own, starts>>

\* If three quarters of the table are taken the thread waits for a larger one.
\* (mutant) it does not.
RoomAnyway(n, k) == TRUE
Room(n, k) == n < Capacity(k) \div 2 + Capacity(k) \div 4

Enter(t) ==
  /\ At(t, "room")
  /\ Room(thread[t].count, thread[t].main)
  /\ Step(t, [thread[t] EXCEPT !.pc = "producer"])
  /\ UNCHANGED <<tables, count, resizing, producers, inactive, own, starts>>

Wait(t) ==
  /\ At(t, "room")
  /\ ~Room(thread[t].count, thread[t].main)
  /\ Step(t, [thread[t] EXCEPT !.pc = "loop", !.main = Current])
  /\ UNCHANGED <<tables, count, resizing, producers, inactive, own, starts>>

\* recycle_or_create_producer: the walk along the list meets one that seems
\* inactive ...
Spot(t, p) ==
  /\ At(t, "producer")
  /\ p \in inactive
  /\ Step(t, [thread[t] EXCEPT !.pc = "catch", !.producer = p])
  /\ UNCHANGED <<tables, count, resizing, producers, inactive, own, starts>>

\* ... and catches it, or goes on.
\* (mutant) it is not checked again.
CatchAnyway(p) == TRUE
StillInactive(p) == p \in inactive

Catch(t) ==
  LET p == thread[t].producer
  IN  /\ At(t, "catch")
      /\ IF StillInactive(p)
         THEN /\ inactive' = inactive \ {p}
              /\ own' = [own EXCEPT ![t] = p]
              /\ Step(t, [thread[t] EXCEPT !.pc = "insert", !.slot = Hash[t]])
         ELSE /\ Step(t, [thread[t] EXCEPT !.pc = "producer",
                                           !.producer = None])
              /\ UNCHANGED <<inactive, own>>
      /\ UNCHANGED <<tables, count, resizing, producers, starts>>

\* The end of the list, or of what was in it when the walk began: add_producer.
Create(t, p) ==
  /\ At(t, "producer")
  /\ p \notin producers
  /\ producers' = producers \cup {p}
  /\ own' = [own EXCEPT ![t] = p]
  /\ Step(t, [thread[t] EXCEPT !.pc = "insert", !.slot = Hash[t],
                               !.producer = p])
  /\ UNCHANGED <<tables, count, resizing, inactive, starts>>

CreateFails(t) ==
  /\ At(t, "producer")
  /\ count' = count - 1
  /\ Step(t, Idle)
  /\ UNCHANGED <<tables, resizing, producers, inactive, own, starts>>

\* The first free slot is taken.  One that was used before is counted already.
\* (mutant) so is one that was not.
AnyFree(key) == key \in {Empty, Reusable}
UsedBefore(key) == key = Reusable

Insert(t) ==
  LET k == thread[t].main
      s == thread[t].slot % Capacity(k)
  IN  /\ At(t, "insert")
      /\ IF tables[k].key[s] \in {Empty, Reusable}
         THEN /\ Write(t, k, s)
              /\ Step(t, IF UsedBefore(tables[k].key[s])
                         THEN [thread[t] EXCEPT !.pc = "uncount"] ELSE Idle)
         ELSE /\ Step(t, [thread[t] EXCEPT !.slot = s + 1])
              /\ UNCHANGED tables
      /\ UNCHANGED <<count, resizing, producers, inactive, own, starts>>

Uncount(t) ==
  /\ At(t, "uncount")
  /\ count' = count - 1
  /\ Step(t, Idle)
  /\ UNCHANGED <<tables, resizing, producers, inactive, own, starts>>

-----------------------------------------------------------------------------
\* implicit_producer_thread_exited: a thread that has subscribed ends.
\* (mutant) it had not subscribed.
SubscribedAnyway(t) == TRUE
Subscribed(t) == own[t] # None

Exit(t) ==
  /\ At(t, "idle")
  /\ Step(t, IF Subscribed(t)
             THEN [Idle EXCEPT !.pc = "leave", !.table = Current] ELSE Asleep)
  /\ UNCHANGED <<tables, count, resizing, producers, inactive, own, starts>>

\* (mutant) only the current table is searched.
OnlyCurrent(k) == 0
Previous(k) == tables[k].prev

Leave(t) ==
  LET k == thread[t].table
  IN  /\ At(t, "leave")
      /\ k # 0
      /\ tables' = [tables EXCEPT ![k].key =
                      [s \in DOMAIN @ |-> IF s \in Slots(t, k)
                                          THEN Reusable ELSE @[s]]]
      /\ Step(t, [thread[t] EXCEPT !.table = Previous(k)])
      /\ UNCHANGED <<count, resizing, producers, inactive, own, starts>>

Deactivate(t) ==
  /\ At(t, "leave")
  /\ thread[t].table = 0
  /\ inactive' = inactive \cup {own[t]}
  /\ own' = [own EXCEPT ![t] = None]
  /\ Step(t, [thread[t] EXCEPT !.pc = "asleep"])
  /\ UNCHANGED <<tables, count, resizing, producers, starts>>

-----------------------------------------------------------------------------
GetOrAdd(t) ==
  \/ Found(t) \/ Move(t) \/ NotFound(t)
  \/ TryLock(t) \/ PassBy(t) \/ Reload(t) \/ Grow(t) \/ GrowFails(t)
  \/ Unlock(t) \/ Enter(t) \/ Wait(t)
  \/ \E p \in Producer : Spot(t, p) \/ Create(t, p)
  \/ Catch(t) \/ CreateFails(t) \/ Insert(t) \/ Uncount(t)

Ending(t) == Exit(t) \/ Leave(t) \/ Deactivate(t)

Next == \E t \in Thread : Start(t) \/ LoadHash(t) \/ GetOrAdd(t) \/ Ending(t)

Spec == Init /\ [][Next]_vars

-----------------------------------------------------------------------------
TypeOK ==
  /\ Len(tables) \in 1..MaxTables
  /\ \A k \in DOMAIN tables :
       /\ tables[k].key \in [0..Capacity(k)-1 ->
                               Thread \cup {Empty, Reusable}]
       /\ tables[k].value \in [0..Capacity(k)-1 -> Producer \cup {None}]
       /\ tables[k].prev \in 0..k-1
  /\ count \in Nat /\ resizing \in BOOLEAN
  /\ inactive \subseteq producers /\ producers \subseteq Producer
  /\ own \in [Thread -> Producer \cup {None}]

\* A producer's queue is filled without locks: it has one thread at a time.
OneThread ==
  \A t, u \in Thread :
    t # u /\ own[t] # None => own[t] # own[u] /\ own[t] \notin inactive

\* A thread gets the same producer whenever it enqueues, in whichever of the
\* tables its id may be, and never that of an earlier thread with its id: its
\* tasks stay in order and the list does not grow with every enqueue.
SameProducer ==
  \A t \in Thread :
    /\ thread[t].pc \in {"idle", "search", "move"} =>
         IF own[t] = None THEN Tables(t, Current) = {}
         ELSE /\ Tables(t, Current) # {}
              /\ \A k \in Tables(t, Current) : \A s \in Slots(t, k) :
                   tables[k].value[s] = own[t]
    /\ thread[t].pc = "move" => thread[t].producer = own[t]

\* The comments in get_or_add_implicit_producer: the count reserves a slot for
\* whoever passes the check against three quarters of the capacity, so that a
\* search meets an empty slot in the end.  For the first table this holds,
\* although the count may be lower than the number of used slots of later ones:
\* who inserts into a slot that was used before is uncounted, while the copy of
\* that slot which Move made in a later table takes one more.
FirstTableFree ==
  LET used == Cardinality(Used(1))
  IN  used = 0 \/ used < Capacity(1) \div 2 + Capacity(1) \div 4

\* A thread that finds the table too full spins until another has built the
\* next one: the flag is set exactly while one thread is at it, and no thread
\* leaves with the flag set, whether memory was short or not.
OneBuilder ==
  Cardinality({t \in Thread : thread[t].pc \in
                 {"locked", "grow", "unlock", "clear"}})
    = IF resizing THEN 1 ELSE 0

\* Every search finds the thread's own producer, and no other.
Safety == TypeOK /\ OneThread /\ SameProducer /\ OneBuilder
=============================================================================
