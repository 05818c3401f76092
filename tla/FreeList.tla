------------------------------- MODULE FreeList -------------------------------
(***************************************************************************)
(* Where the producers' blocks come from and go to (requisition_block and  *)
(* add_block_to_free_list of include/concurrentqueue.h): an array that is  *)
(* handed out once, then a lock-free stack of the blocks given back.       *)
(*                                                                         *)
(* A block of the stack counts who may look at it: one for the stack, one  *)
(* for each thread in try_get.  A block given back while threads still     *)
(* look at it is pushed by the last of them; a bit beside the count says   *)
(* that it should be.  One action per atomic access, sequentially          *)
(* consistent.  A thread that finds nothing allocates a block; such blocks *)
(* are freed, not put on the stack, and are left out.                      *)
(***************************************************************************)
EXTENDS Integers, FiniteSets, Functions

CONSTANTS
  Thread,              \* threads that enqueue and dequeue
  PoolSize,            \* initialBlockPoolSize
  Null                 \* nullptr

PoolAssumption ==
  PoolSize \in Nat /\ Null \notin Nat /\ IsFiniteSet(Thread)

VARIABLES
  poolIndex,           \* initialBlockPoolIndex
  listHead,            \* freeListHead
  next,                \* freeListNext of each block
  refs,                \* freeListRefs & REFS_MASK
  should,              \* freeListRefs & SHOULD_BE_ON_FREELIST
  held,                \* the blocks each thread has requisitioned
  thread               \* control and local variables of each thread

list == <<listHead, next>>
counts == <<refs, should>>
vars == <<poolIndex, list, counts, held, thread>>

Node == 0..PoolSize-1
Idle == [pc |-> "idle", head |-> Null, next |-> Null,
         node |-> Null, seen |-> Null]

Init ==
  /\ poolIndex = 0
  /\ listHead = Null
  /\ next = [n \in Node |-> Null]
  /\ refs = [n \in Node |-> 0]
  /\ should = [n \in Node |-> FALSE]
  /\ held = [t \in Thread |-> {}]
  /\ thread = [t \in Thread |-> Idle]

-----------------------------------------------------------------------------
At(t, label) == thread[t].pc = label
Step(t, r) == thread' = [thread EXCEPT ![t] = r]

\* while (head != nullptr), with the head just read; at its end null is
\* returned.
Look(t, r, head) ==
  Step(t, IF head = Null THEN Idle
          ELSE [r EXCEPT !.pc = "ref", !.head = head, !.node = Null,
                         !.seen = Null, !.next = Null])

\* add_knowing_refcount_is_zero returns: to add, or into the loop of try_get.
Pushed(t) == Look(t, thread[t], thread[t].head)

-----------------------------------------------------------------------------
\* requisition_block: the initial pool ...
TakeFromPool(t) ==
  /\ At(t, "idle")
  /\ poolIndex < PoolSize
  /\ Step(t, [Idle EXCEPT !.pc = "take"])
  /\ UNCHANGED <<poolIndex, list, counts, held>>

FetchIndex(t) ==
  /\ At(t, "take")
  /\ poolIndex' = poolIndex + 1
  /\ IF poolIndex < PoolSize
     THEN /\ held' = [held EXCEPT ![t] = @ \cup {poolIndex}]
          /\ Step(t, Idle)
     ELSE /\ Step(t, [Idle EXCEPT !.pc = "get"])
          /\ UNCHANGED held
  /\ UNCHANGED <<list, counts>>

\* ... and then the free list.
PoolEmpty(t) ==
  /\ At(t, "idle")
  /\ poolIndex >= PoolSize
  /\ Step(t, [Idle EXCEPT !.pc = "get"])
  /\ UNCHANGED <<poolIndex, list, counts, held>>

\* try_get.
LoadHead(t) ==
  /\ At(t, "get")
  /\ Look(t, Idle, listHead)
  /\ UNCHANGED <<poolIndex, list, counts, held>>

\* The compare-and-exchange of a count that was not zero when it was loaded.
\* (mutant) a count of zero is increased, too.
AnyCount(n) == TRUE
Referenced(n) == refs[n] # 0

AddRef(t) ==
  LET n == thread[t].head
  IN  /\ At(t, "ref")
      /\ Referenced(n)
      /\ refs' = [refs EXCEPT ![n] = @ + 1]
      /\ Step(t, [thread[t] EXCEPT !.pc = "next"])
      /\ UNCHANGED <<poolIndex, list, should, held>>

\* The count was zero, or changed in between.
Retry(t) ==
  /\ At(t, "ref")
  /\ Look(t, thread[t], listHead)
  /\ UNCHANGED <<poolIndex, list, counts, held>>

LoadNext(t) ==
  /\ At(t, "next")
  /\ Step(t, [thread[t] EXCEPT !.pc = "pop", !.next = next[thread[t].head]])
  /\ UNCHANGED <<poolIndex, list, counts, held>>

Pop(t) ==
  /\ At(t, "pop")
  /\ listHead = thread[t].head
  /\ listHead' = thread[t].next
  /\ Step(t, [thread[t] EXCEPT !.pc = "got", !.next = Null])
  /\ UNCHANGED <<poolIndex, next, counts, held>>

PopFails(t) ==
  /\ At(t, "pop")
  /\ listHead # thread[t].head
  /\ Step(t, [Idle EXCEPT !.pc = "unref", !.head = listHead,
                          !.node = thread[t].head])
  /\ UNCHANGED <<poolIndex, list, counts, held>>

\* fetch_sub(2): the thread's reference and the list's.
Got(t) ==
  LET n == thread[t].head
  IN  /\ At(t, "got")
      /\ refs' = [refs EXCEPT ![n] = @ - 2]
      /\ held' = [held EXCEPT ![t] = @ \cup {n}]
      /\ Step(t, Idle)
      /\ UNCHANGED <<poolIndex, list, should>>

\* The block that was not popped: if it was given back meanwhile and this was
\* the last reference, the thread pushes it.
\* (mutant) nobody looks at the bit.
NeverLast(n) == FALSE
LastReference(n) == refs[n] = 1 /\ should[n]

Unref(t) ==
  LET n == thread[t].node
  IN  /\ At(t, "unref")
      /\ refs' = [refs EXCEPT ![n] = @ - 1]
      /\ IF LastReference(n) THEN Step(t, [thread[t] EXCEPT !.pc = "push"])
         ELSE Look(t, thread[t], thread[t].head)
      /\ UNCHANGED <<poolIndex, list, should, held>>

-----------------------------------------------------------------------------
\* add: SHOULD_BE_ON_FREELIST is added, which sets the bit if it was clear and
\* carries out of the word if it was set.
Add(t, n) ==
  /\ At(t, "idle")
  /\ n \in held[t]
  /\ held' = [held EXCEPT ![t] = @ \ {n}]
  /\ should' = [should EXCEPT ![n] = ~@]
  /\ Step(t, IF refs[n] = 0 /\ ~should[n]
             THEN [Idle EXCEPT !.pc = "push", !.node = n] ELSE Idle)
  /\ UNCHANGED <<poolIndex, list, refs>>

\* add_knowing_refcount_is_zero.
Push(t) ==
  /\ At(t, "push")
  /\ Step(t, [thread[t] EXCEPT !.pc = "link", !.seen = listHead])
  /\ UNCHANGED <<poolIndex, list, counts, held>>

Link(t) ==
  /\ At(t, "link")
  /\ next' = [next EXCEPT ![thread[t].node] = thread[t].seen]
  /\ Step(t, [thread[t] EXCEPT !.pc = "count"])
  /\ UNCHANGED <<poolIndex, listHead, counts, held>>

\* (mutant) the bit survives.
KeepBit(n) == should
ClearBit(n) == [should EXCEPT ![n] = FALSE]

SetCount(t) ==
  /\ At(t, "count")
  /\ refs' = [refs EXCEPT ![thread[t].node] = 1]
  /\ should' = ClearBit(thread[t].node)
  /\ Step(t, [thread[t] EXCEPT !.pc = "publish"])
  /\ UNCHANGED <<poolIndex, list, held>>

Publish(t) ==
  /\ At(t, "publish")
  /\ listHead = thread[t].seen
  /\ listHead' = thread[t].node
  /\ Pushed(t)
  /\ UNCHANGED <<poolIndex, next, counts, held>>

PublishFails(t) ==
  /\ At(t, "publish")
  /\ listHead # thread[t].seen
  /\ Step(t, [thread[t] EXCEPT !.pc = "withdraw", !.seen = listHead])
  /\ UNCHANGED <<poolIndex, list, counts, held>>

\* fetch_add(SHOULD_BE_ON_FREELIST - 1): try again, or leave it to the threads
\* that have got a reference in the meantime.
Mark(n) == [should EXCEPT ![n] = ~@]

Withdraw(t) ==
  LET n == thread[t].node
  IN  /\ At(t, "withdraw")
      /\ refs' = [refs EXCEPT ![n] = @ - 1]
      /\ should' = Mark(n)
      /\ IF refs[n] = 1 /\ ~should[n]
         THEN Step(t, [thread[t] EXCEPT !.pc = "link"])
         ELSE Pushed(t)
      /\ UNCHANGED <<poolIndex, list, held>>

-----------------------------------------------------------------------------
Get(t) ==
  \/ TakeFromPool(t) \/ FetchIndex(t) \/ PoolEmpty(t)
  \/ LoadHead(t) \/ AddRef(t) \/ Retry(t) \/ LoadNext(t)
  \/ Pop(t) \/ PopFails(t) \/ Got(t) \/ Unref(t)

Return(t) ==
  \/ \E n \in Node : Add(t, n)
  \/ Push(t) \/ Link(t) \/ SetCount(t)
  \/ Publish(t) \/ PublishFails(t) \/ Withdraw(t)

Next == \E t \in Thread : Get(t) \/ Return(t)

Spec == Init /\ [][Next]_vars

-----------------------------------------------------------------------------
Pushing(n) == {t \in Thread : thread[t].node = n /\ thread[t].pc \in
                 {"push", "link", "count", "publish", "withdraw"}}

TypeOK ==
  /\ poolIndex \in 0..PoolSize + Cardinality(Thread)
  /\ listHead \in Node \cup {Null}
  /\ next \in [Node -> Node \cup {Null}]
  /\ refs \in [Node -> 0..Cardinality(Thread) + 1]
  /\ should \in [Node -> BOOLEAN]
  /\ held \in [Thread -> SUBSET Node]
  /\ \A t \in Thread :
       /\ thread[t].head \in Node \cup {Null}
       /\ thread[t].node \in Node \cup {Null}

\* The blocks on the stack, following next from its head.
Walk ==
  LET step[k \in 0..PoolSize] ==
        IF k = 0 THEN listHead
        ELSE IF step[k-1] = Null THEN Null ELSE next[step[k-1]]
  IN  step

OnList == Range(Walk) \ {Null}

\* A block is never handed to two threads, nor is one that somebody has still
\* on the stack, nor is it pushed by two threads at once or while it is held;
\* the stack is no cycle.
Exclusive ==
  /\ \A t, u \in Thread : t # u =>
       /\ held[t] \cap held[u] = {}
       /\ At(t, "got") =>
            /\ thread[t].head \notin held[u] \cup OnList
            /\ At(u, "got") => thread[u].head # thread[t].head
  /\ \A n \in Node :
       /\ Cardinality(Pushing(n)) <= 1
       /\ n \in UNION Range(held) => n \notin OnList /\ Pushing(n) = {}
       /\ n \in OnList => Pushing(n) = {}
  /\ Walk[PoolSize] = Null

\* Whoever gives a block back, has popped one or withdraws one finds its bit
\* clear (the assertion in try_get and the comment in add), so that the
\* addition sets it.
BitClear ==
  \A t \in Thread :
    /\ \A n \in held[t] : ~should[n]
    /\ At(t, "got") => ~should[thread[t].head]
    /\ At(t, "withdraw") => ~should[thread[t].node]

\* next does not change between its load and the exchange of the head.
NextStable ==
  \A t \in Thread :
    At(t, "pop") /\ listHead = thread[t].head
      => thread[t].next = next[thread[t].head]

\* A block that was given back is on the stack, about to be pushed or left to
\* a thread that has a reference to it: none is lost.
NoneLost ==
  \A n \in Node :
    \/ n >= poolIndex
    \/ n \in OnList
    \/ n \in UNION Range(held)
    \/ Pushing(n) # {}
    \/ \E t \in Thread : At(t, "got") /\ thread[t].head = n
    \/ /\ should[n]
       /\ \E t \in Thread :
            \/ At(t, "unref") /\ thread[t].node = n
            \/ thread[t].pc \in {"next", "pop"} /\ thread[t].head = n

\* Every block is in one place, and stays within reach, at every step.
Safety == TypeOK /\ Exclusive /\ BitClear /\ NextStable /\ NoneLost
=============================================================================
