-------------------------------- MODULE Deque --------------------------------
(***************************************************************************)
(* The lock-free work-stealing deque of include/deque.h (Chase and Lev):   *)
(* one owner pushes and pops at the bottom, any number of thieves steal at *)
(* the top, and the circular buffer grows while thieves may still read an  *)
(* older one.                                                              *)
(*                                                                         *)
(* Every load, store, fence and compare-exchange that another thread can   *)
(* tell apart is a step of its own.  Three effects of the C++ memory model *)
(* are kept:                                                               *)
(*  - the owner's stores to bottom_ are not sequentially consistent.  They *)
(*    wait in storeBuffer, in order, until Drain makes them visible; the   *)
(*    fence of popBottom waits until none is left.                         *)
(*  - a slot holds a (coroutine handle, lifetime) pair that is neither     *)
(*    read nor written atomically: a thief may see it half written (Torn). *)
(*  - a thief keeps the buffer pointer it loaded, whatever the owner does. *)
(* The owner's stores to slots and to buffer_ are not delayed: the release *)
(* store of bottom_ in pushBottom comes after them, so a thief that saw    *)
(* the new bottom_ sees them, and one that did not behaves as if it had    *)
(* read earlier.  This is total store order, the memory of x86; weaker     *)
(* orders that the relaxed stores also allow are not modelled.             *)
(*                                                                         *)
(* Handles are numbered in the order they are pushed: the n-th pushed one  *)
(* is n.  A handle that is scheduled again later counts as a new one.      *)
(***************************************************************************)
EXTENDS Integers, Sequences, FiniteSets

CONSTANTS
  Thieves,             \* the workers that may steal from this deque
  InitSize,            \* initial buffer size (kDefaultBufferSize)
  MaxPush,             \* bound: pushBottom is called at most MaxPush times
  StoreDepth,          \* bound: stores to bottom_ that may be pending
  PoolManaged,         \* handles with lifetime THREAD_POOL_MANAGED
  NoHandle,            \* content of a slot never written
  Torn,                \* content of a slot read while it is being written
  NoBuffer             \* a thief's buffer pointer before it is loaded

Handle == 1..MaxPush
Content == Handle \cup {NoHandle, Torn}

ASSUME SizeAssumption == InitSize \in Nat \ {0}

\* array_[pos & (size_ - 1)] is array_[pos % size_] because of this.
ASSUME PowerOfTwoAssumption == \E k \in 0..InitSize : InitSize = 2^k

ASSUME BoundAssumption ==
  /\ MaxPush \in Nat
  /\ StoreDepth \in Nat \ {0}
  /\ PoolManaged \subseteq Handle

ASSUME ContentAssumption ==
  /\ NoHandle \notin Handle
  /\ Torn \notin Handle
  /\ Torn # NoHandle
  /\ NoBuffer \notin Nat

VARIABLES
  top, bottom,         \* top_ and bottom_ as the thieves read them
  storeBuffer,         \* the owner's stores to bottom_ not yet visible
  cur,                 \* buffer_: buffers are numbered as they are allocated
  size, array,         \* size_ and array_ of every buffer allocated so far
  oldBuffers, alive,   \* old_buffers_; the buffers not yet deleted
  opc, ob, ot, oh,     \* the owner: control, its locals bottom, top, handle
  tpc, tt, tbuf, th,   \* a thief: control, its locals top, buffer, handle
  phase,               \* "live", or "dead" once the destructor has run
  pushed, takes,       \* history: handles pushed, times each was handed out
  destroyed            \* history: the coroutines the destructor destroyed

memory  == <<top, bottom, storeBuffer>>
buffers == <<cur, size, array, oldBuffers, alive>>
owner   == <<opc, ob, ot, oh>>
thief   == <<tpc, tt, tbuf, th>>
ghosts  == <<pushed, takes>>
ending  == <<phase, destroyed>>
vars    == <<memory, buffers, owner, thief, ghosts, ending>>

-----------------------------------------------------------------------------
(* What the owner knows of bottom_: its own stores, visible or not.        *)
OwnerBottom ==
  IF storeBuffer = <<>> THEN bottom ELSE storeBuffer[Len(storeBuffer)]

\* While popBottom has reserved the last position without having got it yet,
\* the deque still reaches one position further.
PopPending == opc \in {"fence", "race", "restore"}
LogicalBottom == IF PopPending THEN OwnerBottom + 1 ELSE OwnerBottom

\* CircularBuffer::get
Slot(b, pos) == array[b][pos % size[b]]

\* CircularBuffer::put on the current buffer
Put(pos, c) == array' = [array EXCEPT ![cur][pos % size[cur]] = c]

\* CircularBuffer::grow: four times the size, positions from..to-1 copied.
GrownSize == 4 * size[cur]
\* (mutant) the new buffer starts empty.
GrownArrayNoCopy(from, to) == [s \in 0..GrownSize - 1 |-> NoHandle]
GrownArray(from, to) ==
  [s \in 0..GrownSize - 1 |->
     IF \E p \in from..to - 1 : p % GrownSize = s
     THEN Slot(cur, CHOOSE p \in from..to - 1 : p % GrownSize = s)
     ELSE NoHandle]

Store(b) == storeBuffer' = Append(storeBuffer, b)
CanStore == Len(storeBuffer) < StoreDepth

OwnerReturns ==
  /\ opc' = "idle"
  /\ ob' = 0
  /\ ot' = 0
  /\ oh' = NoHandle

ThiefReturns(t) ==
  /\ tpc' = [tpc EXCEPT ![t] = "idle"]
  /\ tt' = [tt EXCEPT ![t] = 0]
  /\ tbuf' = [tbuf EXCEPT ![t] = NoBuffer]
  /\ th' = [th EXCEPT ![t] = NoHandle]

Take(h) == takes' = [takes EXCEPT ![h] = @ + 1]

Init ==
  /\ top = 1
  /\ bottom = 1
  /\ storeBuffer = <<>>
  /\ cur = 1
  /\ size = [b \in 1..1 |-> InitSize]
  /\ array = [b \in 1..1 |-> [s \in 0..InitSize - 1 |-> NoHandle]]
  /\ oldBuffers = {}
  /\ alive = {1}
  /\ opc = "idle"
  /\ ob = 0
  /\ ot = 0
  /\ oh = NoHandle
  /\ tpc = [t \in Thieves |-> "idle"]
  /\ tt = [t \in Thieves |-> 0]
  /\ tbuf = [t \in Thieves |-> NoBuffer]
  /\ th = [t \in Thieves |-> NoHandle]
  /\ phase = "live"
  /\ pushed = 0
  /\ takes = [c \in Content |-> 0]
  /\ destroyed = {}

-----------------------------------------------------------------------------
(* pushBottom, called by the owner with the next handle.                   *)
PushLoad ==
  /\ phase = "live"
  /\ opc = "idle"
  /\ pushed < MaxPush
  /\ opc' = "push"
  /\ ob' = OwnerBottom
  /\ ot' = top
  /\ oh' = pushed + 1
  /\ UNCHANGED <<memory, buffers, thief, ghosts, ending>>

\* (mutant) the outgrown buffer is deleted at once.
DeleteOld ==
  /\ alive' = (alive \ {cur}) \cup {cur + 1}
  /\ UNCHANGED oldBuffers
\* A full buffer is kept in old_buffers_: thieves may hold a pointer to it.
KeepOld ==
  /\ alive' = alive \cup {cur + 1}
  /\ oldBuffers' = oldBuffers \cup {cur}

Grow ==
  /\ cur' = cur + 1
  /\ size' = [b \in 1..cur + 1 |-> IF b = cur + 1 THEN GrownSize ELSE size[b]]
  /\ array' = [b \in 1..cur + 1 |->
                 IF b = cur + 1 THEN GrownArray(ot, ob) ELSE array[b]]
  /\ KeepOld

\* (mutant) off by one: a full buffer is taken for one with a free slot.
FullLate == ob - ot > size[cur]
Full == ob - ot > size[cur] - 1

PushReserve ==
  /\ opc = "push"
  /\ IF Full THEN Grow ELSE UNCHANGED buffers
  /\ opc' = "put"
  /\ UNCHANGED <<memory, ob, ot, oh, thief, ghosts, ending>>

PutBegin ==
  /\ opc = "put"
  /\ Put(ob, Torn)
  /\ opc' = "putting"
  /\ UNCHANGED <<memory, cur, size, oldBuffers, alive, ob, ot, oh, thief,
                 ghosts, ending>>

PutEnd ==
  /\ opc = "putting"
  /\ Put(ob, oh)
  /\ opc' = "publish"
  /\ UNCHANGED <<memory, cur, size, oldBuffers, alive, ob, ot, oh, thief,
                 ghosts, ending>>

PushPublish ==
  /\ opc = "publish"
  /\ CanStore
  /\ Store(ob + 1)
  /\ pushed' = pushed + 1
  /\ OwnerReturns
  /\ UNCHANGED <<top, bottom, buffers, thief, takes, ending>>

-----------------------------------------------------------------------------
(* popBottom, called by the owner.                                         *)
PopReserve ==
  /\ phase = "live"
  /\ opc = "idle"
  /\ CanStore
  /\ ob' = OwnerBottom - 1
  /\ Store(OwnerBottom - 1)
  /\ opc' = "fence"
  /\ UNCHANGED <<top, bottom, buffers, ot, oh, thief, ghosts, ending>>

\* (mutant) popBottom without its fence.
NoFence == TRUE
Fence == storeBuffer = <<>>

\* (mutant) the last element is taken for none.
EmptyTooSoon == top >= ob
Empty == top > ob

\* After the fence: take the element at once, race for the last one, or give
\* the reservation back.
PopLoadTop ==
  /\ opc = "fence"
  /\ Fence
  /\ \/ /\ top < ob
        /\ Take(Slot(cur, ob))
        /\ OwnerReturns
     \/ /\ top = ob
        /\ opc' = "race"
        /\ ot' = top
        /\ oh' = Slot(cur, ob)
        /\ UNCHANGED <<ob, takes>>
     \/ /\ Empty
        /\ opc' = "restore"
        /\ UNCHANGED <<ob, ot, oh, takes>>
  /\ UNCHANGED <<memory, buffers, thief, pushed, ending>>

PopCas ==
  /\ opc = "race"
  /\ IF top = ot
     THEN /\ top' = top + 1
          /\ Take(oh)
     ELSE UNCHANGED <<top, takes>>
  /\ opc' = "restore"
  /\ UNCHANGED <<bottom, storeBuffer, buffers, ob, ot, oh, thief, pushed,
                 ending>>

\* (mutant) bottom_ stays decremented after an empty pop.
NoRestore == UNCHANGED storeBuffer
Restore ==
  /\ CanStore
  /\ Store(ob + 1)

PopRestore ==
  /\ opc = "restore"
  /\ Restore
  /\ OwnerReturns
  /\ UNCHANGED <<top, bottom, buffers, thief, ghosts, ending>>

Drain ==
  /\ storeBuffer # <<>>
  /\ bottom' = Head(storeBuffer)
  /\ storeBuffer' = Tail(storeBuffer)
  /\ UNCHANGED <<top, buffers, owner, thief, ghosts, ending>>

-----------------------------------------------------------------------------
(* steal, called by thief t.                                               *)
StealLoadTop(t) ==
  /\ phase = "live"
  /\ tpc[t] = "idle"
  /\ tt' = [tt EXCEPT ![t] = top]
  /\ tpc' = [tpc EXCEPT ![t] = "bottom"]
  /\ UNCHANGED <<memory, buffers, owner, tbuf, th, ghosts, ending>>

StealLoadBottom(t) ==
  /\ tpc[t] = "bottom"
  /\ \/ /\ tt[t] < bottom
        /\ tpc' = [tpc EXCEPT ![t] = "buffer"]
        /\ UNCHANGED <<tt, tbuf, th>>
     \/ /\ tt[t] >= bottom
        /\ ThiefReturns(t)
  /\ UNCHANGED <<memory, buffers, owner, ghosts, ending>>

StealLoadBuffer(t) ==
  /\ tpc[t] = "buffer"
  /\ tbuf' = [tbuf EXCEPT ![t] = cur]
  /\ tpc' = [tpc EXCEPT ![t] = "get"]
  /\ UNCHANGED <<memory, buffers, owner, tt, th, ghosts, ending>>

\* The pair is read in two halves, with anything in between.
StealGet(t) ==
  /\ tpc[t] = "get"
  /\ th' = [th EXCEPT ![t] = Slot(tbuf[t], tt[t])]
  /\ tpc' = [tpc EXCEPT ![t] = "got"]
  /\ UNCHANGED <<memory, buffers, owner, tt, tbuf, ghosts, ending>>

StealGot(t) ==
  /\ tpc[t] = "got"
  /\ th' = [th EXCEPT ![t] = IF Slot(tbuf[t], tt[t]) = @ THEN @ ELSE Torn]
  /\ tpc' = [tpc EXCEPT ![t] = "cas"]
  /\ UNCHANGED <<memory, buffers, owner, tt, tbuf, ghosts, ending>>

StealCas(t) ==
  /\ tpc[t] = "cas"
  /\ IF top = tt[t]
     THEN /\ top' = top + 1
          /\ Take(th[t])
     ELSE UNCHANGED <<top, takes>>
  /\ ThiefReturns(t)
  /\ UNCHANGED <<bottom, storeBuffer, buffers, owner, pushed, ending>>

-----------------------------------------------------------------------------
(* ~Dequeue runs once every worker has been joined.                        *)
\* (mutant) the destructor ignores the lifetime.
ReclaimAll == {Slot(cur, p) : p \in top..bottom - 1}
Reclaim == {Slot(cur, p) : p \in top..bottom - 1} \cap PoolManaged

Destruct ==
  /\ phase = "live"
  /\ opc = "idle"
  /\ storeBuffer = <<>>
  /\ \A t \in Thieves : tpc[t] = "idle"
  /\ destroyed' = Reclaim
  /\ alive' = alive \ (oldBuffers \cup {cur})
  /\ phase' = "dead"
  /\ UNCHANGED <<memory, cur, size, array, oldBuffers, owner, thief, ghosts>>

Push == PushLoad \/ PushReserve \/ PutBegin \/ PutEnd \/ PushPublish
Pop == PopReserve \/ PopLoadTop \/ PopCas \/ PopRestore
Steal(t) ==
  \/ StealLoadTop(t) \/ StealLoadBottom(t) \/ StealLoadBuffer(t)
  \/ StealGet(t) \/ StealGot(t) \/ StealCas(t)

Next == Push \/ Pop \/ Drain \/ Destruct \/ \E t \in Thieves : Steal(t)

Spec == Init /\ [][Next]_vars

\* The operating system schedules every worker, each worker's loop (run in
\* thread_pool.h) calls popBottom and steal again and again, and a store
\* becomes visible after a finite time.
FairSpec ==
  /\ Spec
  /\ WF_vars(Push \/ Pop)
  /\ WF_vars(Drain)
  /\ \A t \in Thieves : WF_vars(Steal(t))

-----------------------------------------------------------------------------
TypeOK ==
  /\ top \in Nat
  /\ bottom \in Nat
  /\ storeBuffer \in Seq(Nat)
  /\ cur \in Nat \ {0}
  /\ size \in [1..cur -> Nat \ {0}]
  /\ array = [b \in 1..cur |-> array[b]]
  /\ \A b \in 1..cur : array[b] \in [0..size[b] - 1 -> Content]
  /\ oldBuffers \subseteq 1..cur
  /\ alive \subseteq 1..cur
  /\ opc \in {"idle", "push", "put", "putting", "publish",
              "fence", "race", "restore"}
  /\ ob \in Nat
  /\ ot \in Nat
  /\ oh \in Handle \cup {NoHandle, Torn}
  /\ tpc \in [Thieves ->
               {"idle", "bottom", "buffer", "get", "got", "cas"}]
  /\ tt \in [Thieves -> Nat]
  /\ tbuf \in [Thieves -> (1..cur) \cup {NoBuffer}]
  /\ th \in [Thieves -> Content]
  /\ phase \in {"live", "dead"}
  /\ pushed \in 0..MaxPush
  /\ takes \in [Content -> Nat]
  /\ destroyed \subseteq Content

\* A coroutine is resumed by one worker only: no handle is handed out twice,
\* by popBottom and steal together, and what is handed out is never a slot
\* that was not written or only half written.
ExactlyOnce ==
  /\ \A h \in Handle : takes[h] <= 1
  /\ takes[NoHandle] = 0
  /\ takes[Torn] = 0

\* No coroutine is lost: a pushed handle was handed out, or is in the deque
\* between top_ and the owner's bottom_, whatever growing and racing went on.
Conservation ==
  \A h \in 1..pushed :
     takes[h] = 0 => \E p \in top..LogicalBottom - 1 : Slot(cur, p) = h

\* A thief reads only a buffer that still exists, however many times the owner
\* has grown the deque since the thief loaded the pointer, and the destructor
\* deletes every buffer that was ever allocated.
BufferLifetime ==
  /\ \A t \in Thieves : tpc[t] \in {"get", "got"} => tbuf[t] \in alive
  /\ phase = "dead" => alive = {}

\* The destructor destroys exactly the pool-managed coroutines that nobody was
\* handed: one that a worker holds would be destroyed under its feet, one left
\* out would leak.
DestructorReclaims ==
  phase = "dead" =>
    destroyed = {h \in PoolManaged : h <= pushed /\ takes[h] = 0}

\* popBottom returns empty-handed only when the deque is empty at that moment:
\* whoever made its compare-exchange fail took the last element.
EmptyPopIsHonest ==
  [][opc # "restore" /\ opc' = "restore" => top' = LogicalBottom']_vars

\* Every pushed handle is eventually handed out, or reclaimed by the
\* destructor.  (There are finitely many pushes: each handle is, if there is
\* always a later moment when all are.)
Progress ==
  []<>(phase = "dead" \/ \A h \in 1..pushed : takes[h] = 1)

-----------------------------------------------------------------------------
(* The deque that test_deque.h implements with a mutex is what this one    *)
(* looks like from outside: a push takes effect when it stores bottom_, a  *)
(* pop at its load of top_ or its compare-exchange, a steal at its         *)
(* compare-exchange.                                                       *)
Contents == [i \in 1..LogicalBottom - top |-> Slot(cur, top + i - 1)]
Taken == {h \in Content : takes[h] > 0}

Abstract == INSTANCE TaskDeque WITH deque <- Contents, taken <- Taken

\* Every behaviour of the lock-free deque is one of the mutex-protected deque.
ImplementsTaskDeque == Abstract!Spec
=============================================================================
