--------------------------- MODULE ImplicitProducer ---------------------------
(***************************************************************************)
(* One producer's part of the queue new_tasks_ (include/concurrentqueue.h, *)
(* struct ImplicitProducer): the thread that owns it enqueues, any number  *)
(* of threads dequeue, without locks.                                      *)
(*                                                                         *)
(* Elements are numbered.  Element i lives in a block of BlockSize slots;  *)
(* a circular index of entries (key: first element of the block, value:    *)
(* the block) finds it, and is replaced by one of twice the size when full *)
(* while consumers may still use the old one.  The consumer that empties   *)
(* a block takes it out of the index and gives it back.                    *)
(*                                                                         *)
(* Indices are integers: with 64 bits circular_less_than compares as < as  *)
(* long as fewer than 2^63 elements lie between two indices.  The relaxed  *)
(* loads of the counters may return any value written so far.              *)
(***************************************************************************)
EXTENDS Integers, Sequences, SequencesExt, FiniteSets

CONSTANTS
  Consumer,            \* threads that dequeue
  Block,               \* all blocks the program can have
  None,                \* null
  BlockSize,           \* BLOCK_SIZE
  InitialIndexSize,    \* IMPLICIT_INITIAL_INDEX_SIZE
  MaxEnqueue,          \* bound: calls of enqueue
  MaxDequeue           \* bound: dequeues that pass their first check

ASSUME SizesAssumption ==
  /\ BlockSize \in {2^k : k \in 1..5}
  /\ InitialIndexSize \in {2^k : k \in 1..5}
  /\ MaxEnqueue \in Nat /\ MaxDequeue \in Nat
  /\ None \notin Block \cup Nat

VARIABLES
  tailIndex,           \* where the next element goes
  headIndex,           \* the next element to dequeue
  optimistic,          \* dequeueOptimisticCount: dequeues that tried
  overcommit,          \* dequeueOvercommit: those of them that gave up
  tailBlock,           \* the block being filled
  entries,             \* all block index entries ever allocated
  headers,             \* the block indices: the last one is blockIndex
  slots,               \* the elements in each block
  emptied,             \* elementsCompletelyDequeued of each block
  freeBlocks,          \* blocks the producer does not hold
  producer,            \* control and local variables of enqueue
  consumer,            \* control and local variables of each dequeue
  items,               \* history: the items enqueued, in order
  returned,            \* history: the items dequeued
  phase                \* "alive", "drained" or "destroyed"

counters == <<tailIndex, headIndex, optimistic, overcommit>>
index == <<entries, headers>>
memory == <<slots, emptied, freeBlocks>>
history == <<items, returned, phase>>
vars == <<counters, tailBlock, index, memory, producer, consumer, history>>

InvalidKey == -1       \* INVALID_BLOCK_BASE
Offset(i) == i % BlockSize
Base(i) == i - Offset(i)
Idle == [pc |-> "idle", over |-> 0, count |-> 0, index |-> 0, header |-> 0,
         tail |-> 0, entry |-> 0, block |-> None, item |-> None]

-----------------------------------------------------------------------------
\* The block index.
Capacity(h) == Cardinality(DOMAIN h.index)
Current == Last(headers)

FreshEntries(n) == [i \in 1..n |-> [key |-> InvalidKey, value |-> None]]

\* new_block_index without and with a predecessor: the new index begins with
\* the old entries, oldest first, so that the tail is the last of them.
FirstHeader(n) == [tail |-> n - 1, index |-> [i \in 0..n-1 |-> i + 1]]
\* (mutant) the old entries are copied as they lie, whatever the tail.
UnrotatedHeader(h) ==
  [tail |-> Capacity(h) - 1,
   index |-> [i \in 0..2 * Capacity(h) - 1 |->
                IF i < Capacity(h) THEN h.index[i]
                ELSE Len(entries) + 1 + i - Capacity(h)]]
NextHeader(h) ==
  [tail |-> Capacity(h) - 1,
   index |-> [i \in 0..2 * Capacity(h) - 1 |->
                IF i < Capacity(h)
                THEN h.index[(h.tail + 1 + i) % Capacity(h)]
                ELSE Len(entries) + 1 + i - Capacity(h)]]

NextPosition(h) == (h.tail + 1) % Capacity(h)
NextEntry(h) == h.index[NextPosition(h)]
Reusable(e) == entries[e].key = InvalidKey \/ entries[e].value = None

\* get_block_index_index_for_index, from the tail's position and key.
\* (mutant) distances are counted in elements.
PositionByElement(h, tail, key, i) == (tail + Base(i) - key) % Capacity(h)
Position(h, tail, key, i) ==
  (tail + (Base(i) - key) \div BlockSize) % Capacity(h)

-----------------------------------------------------------------------------
\* The first index is allocated in the constructor, or not.
Init ==
  /\ tailIndex = 0 /\ headIndex = 0 /\ optimistic = 0 /\ overcommit = 0
  /\ tailBlock = None
  /\ \/ entries = <<>> /\ headers = <<>>
     \/ /\ entries = FreshEntries(InitialIndexSize)
        /\ headers = <<FirstHeader(InitialIndexSize)>>
  /\ slots = [b \in Block |-> [o \in 0..BlockSize-1 |-> None]]
  /\ emptied = [b \in Block |-> 0]
  /\ freeBlocks = Block
  /\ producer = [pc |-> "idle", item |-> 0, entry |-> 0, block |-> None]
  /\ consumer = [c \in Consumer |-> Idle]
  /\ items = <<>> /\ returned = {} /\ phase = "alive"

-----------------------------------------------------------------------------
\* enqueue, by the producer's thread.
Enqueue ==
  /\ phase = "alive"
  /\ producer.pc = "idle"
  /\ producer.item < MaxEnqueue
  /\ producer' = [producer EXCEPT
       !.item = @ + 1,
       !.pc = IF Offset(tailIndex) = 0 THEN "insert" ELSE "construct"]
  /\ UNCHANGED <<counters, tailBlock, index, memory, consumer, history>>

\* insert_block_index_entry: the key first ...
InsertKey ==
  /\ producer.pc = "insert"
  /\ headers # <<>>
  /\ LET e == NextEntry(Current)
     IN  /\ Reusable(e)
         /\ entries' = [entries EXCEPT ![e].key = tailIndex]
         /\ producer' = [producer EXCEPT !.pc = "advance", !.entry = e]
  /\ UNCHANGED <<counters, tailBlock, headers, memory, consumer, history>>

\* ... then the tail, with release.
AdvanceTail ==
  /\ producer.pc = "advance"
  /\ headers' = [headers EXCEPT ![Len(headers)].tail = NextPosition(Current)]
  /\ producer' = [producer EXCEPT !.pc = "requisition"]
  /\ UNCHANGED <<counters, tailBlock, entries, memory, consumer, history>>

\* new_block_index: filled in private, published by one store.
GrowIndex ==
  /\ producer.pc = "insert"
  /\ headers # <<>>
  /\ ~Reusable(NextEntry(Current))
  /\ entries' = entries \o FreshEntries(Capacity(Current))
  /\ headers' = Append(headers, NextHeader(Current))
  /\ UNCHANGED <<counters, tailBlock, memory, producer, consumer, history>>

\* There is no index, or no memory for a larger one: enqueue returns false.
InsertFails ==
  /\ producer.pc = "insert"
  /\ headers # <<>> => ~Reusable(NextEntry(Current))
  /\ producer' = [producer EXCEPT !.pc = "idle"]
  /\ UNCHANGED <<counters, tailBlock, index, memory, consumer, history>>

\* requisition_block and reset_empty.
\* (mutant) the count of dequeued elements is not reset.
KeepCount(b) == emptied
ResetEmpty(b) == [emptied EXCEPT ![b] = 0]

Requisition(b) ==
  /\ producer.pc = "requisition"
  /\ b \in freeBlocks
  /\ freeBlocks' = freeBlocks \ {b}
  /\ emptied' = ResetEmpty(b)
  /\ producer' = [producer EXCEPT !.pc = "link", !.block = b]
  /\ UNCHANGED <<counters, tailBlock, index, slots, consumer, history>>

\* No block: rewind_block_index_tail, then clear the entry, and return false.
Rewind(h) == (h.tail - 1) % Capacity(h)

RequisitionFails ==
  /\ producer.pc = "requisition"
  /\ headers' = [headers EXCEPT ![Len(headers)].tail = Rewind(Current)]
  /\ producer' = [producer EXCEPT !.pc = "clear"]
  /\ UNCHANGED <<counters, tailBlock, entries, memory, consumer, history>>

ClearEntry ==
  /\ producer.pc = "clear"
  /\ entries' = [entries EXCEPT ![producer.entry].value = None]
  /\ producer' = [producer EXCEPT !.pc = "idle", !.entry = 0]
  /\ UNCHANGED <<counters, tailBlock, headers, memory, consumer, history>>

Link ==
  /\ producer.pc = "link"
  /\ entries' = [entries EXCEPT ![producer.entry].value = producer.block]
  /\ tailBlock' = producer.block
  /\ producer' = [producer EXCEPT !.pc = "construct", !.entry = 0,
                                  !.block = None]
  /\ UNCHANGED <<counters, headers, memory, consumer, history>>

Construct ==
  /\ producer.pc = "construct"
  /\ slots' = [slots EXCEPT ![tailBlock][Offset(tailIndex)] = producer.item]
  /\ producer' = [producer EXCEPT !.pc = "publish"]
  /\ UNCHANGED <<counters, tailBlock, index, emptied, freeBlocks, consumer,
                 history>>

Publish ==
  /\ producer.pc = "publish"
  /\ tailIndex' = tailIndex + 1
  /\ items' = Append(items, producer.item)
  /\ producer' = [producer EXCEPT !.pc = "idle"]
  /\ UNCHANGED <<headIndex, optimistic, overcommit, tailBlock, index, memory,
                 consumer, returned, phase>>

-----------------------------------------------------------------------------
\* dequeue, by any thread.
At(c, label) == consumer[c].pc = label
Step(c, r) == consumer' = [consumer EXCEPT ![c] = r]

\* Is there an element for one more dequeue?
\* (mutant) the dequeue is not counted against those before it.
Unchecked(count, over, tail) == count - over <= tail
Available(count, over, tail) == count - over < tail

\* The first check, on values as old as may be; if it fails, so does dequeue,
\* and nothing has changed.
Look(c) ==
  /\ phase = "alive"
  /\ At(c, "idle")
  /\ optimistic + Cardinality({d \in Consumer : At(d, "count")}) < MaxDequeue
  /\ \E over \in 0..overcommit :
       /\ \E tail \in 0..tailIndex, count \in 0..optimistic :
            Available(count, over, tail)
       /\ Step(c, [consumer[c] EXCEPT !.pc = "count", !.over = over])
  /\ UNCHANGED <<counters, tailBlock, index, memory, producer, history>>

Count(c) ==
  /\ At(c, "count")
  /\ optimistic' = optimistic + 1
  /\ Step(c, [consumer[c] EXCEPT !.pc = "claim", !.count = optimistic])
  /\ UNCHANGED <<tailIndex, headIndex, overcommit, tailBlock, index, memory,
                 producer, history>>

\* The second check; from here on the element belongs to c.
Claim(c) ==
  /\ At(c, "claim")
  /\ \E tail \in 0..tailIndex :
       Available(consumer[c].count, consumer[c].over, tail)
  /\ headIndex' = headIndex + 1
  /\ Step(c, [consumer[c] EXCEPT !.pc = "header", !.index = headIndex])
  /\ UNCHANGED <<tailIndex, optimistic, overcommit, tailBlock, index, memory,
                 producer, history>>

\* (mutant) the dequeue that gives up is forgotten.
NotReturned(n) == n
GiveBack(n) == n + 1

Overcommit(c) ==
  /\ At(c, "claim")
  /\ \E tail \in 0..tailIndex :
       ~Available(consumer[c].count, consumer[c].over, tail)
  /\ overcommit' = GiveBack(overcommit)
  /\ Step(c, Idle)
  /\ UNCHANGED <<tailIndex, headIndex, optimistic, tailBlock, index, memory,
                 producer, history>>

\* get_block_index_entry_for_index: the index, its tail, the tail's key.
LoadHeader(c) ==
  /\ At(c, "header")
  /\ Step(c, [consumer[c] EXCEPT !.pc = "tail", !.header = Len(headers)])
  /\ UNCHANGED <<counters, tailBlock, index, memory, producer, history>>

LoadTail(c) ==
  /\ At(c, "tail")
  /\ Step(c, [consumer[c] EXCEPT !.pc = "key",
                                 !.tail = headers[consumer[c].header].tail])
  /\ UNCHANGED <<counters, tailBlock, index, memory, producer, history>>

TailKey(c) ==
  entries[headers[consumer[c].header].index[consumer[c].tail]].key

LoadKey(c) ==
  /\ At(c, "key")
  /\ LET h == headers[consumer[c].header]
         e == h.index[Position(h, consumer[c].tail, TailKey(c),
                               consumer[c].index)]
     IN  Step(c, [consumer[c] EXCEPT !.pc = "block", !.entry = e])
  /\ UNCHANGED <<counters, tailBlock, index, memory, producer, history>>

LoadBlock(c) ==
  /\ At(c, "block")
  /\ Step(c, [consumer[c] EXCEPT !.pc = "move",
                                 !.block = entries[consumer[c].entry].value])
  /\ UNCHANGED <<counters, tailBlock, index, memory, producer, history>>

\* The element is moved out and destroyed.
Move(c) ==
  LET b == consumer[c].block
      o == Offset(consumer[c].index)
  IN  /\ At(c, "move")
      /\ b # None
      /\ Step(c, [consumer[c] EXCEPT !.pc = "empty", !.item = slots[b][o]])
      /\ slots' = [slots EXCEPT ![b][o] = None]
      /\ returned' = returned \cup {slots[b][o]}
      /\ UNCHANGED <<counters, tailBlock, index, emptied, freeBlocks,
                     producer, items, phase>>

\* set_empty: was it the block's last element?
BlockEmpty(b) == emptied[b] = BlockSize - 1

SetEmpty(c) ==
  LET b == consumer[c].block
  IN  /\ At(c, "empty")
      /\ emptied' = [emptied EXCEPT ![b] = @ + 1]
      /\ Step(c, IF BlockEmpty(b)
                 THEN [consumer[c] EXCEPT !.pc = "unlink"] ELSE Idle)
      /\ UNCHANGED <<counters, tailBlock, index, slots, freeBlocks, producer,
                     history>>

\* (mutant) the block stays in the index.
KeepLinked(e) == entries
Unlinked(e) == [entries EXCEPT ![e].value = None]

Unlink(c) ==
  /\ At(c, "unlink")
  /\ entries' = Unlinked(consumer[c].entry)
  /\ Step(c, [consumer[c] EXCEPT !.pc = "recycle"])
  /\ UNCHANGED <<counters, tailBlock, headers, memory, producer, history>>

\* add_block_to_free_list.
Recycle(c) ==
  /\ At(c, "recycle")
  /\ freeBlocks' = freeBlocks \cup {consumer[c].block}
  /\ Step(c, Idle)
  /\ UNCHANGED <<counters, tailBlock, index, slots, emptied, producer,
                 history>>

-----------------------------------------------------------------------------
\* The end of the queue, when nobody else uses it any more.
Quiet ==
  /\ producer.pc = "idle"
  /\ \A c \in Consumer : At(c, "idle")

BlockOf(i) ==
  LET h == Current
      key == entries[h.index[h.tail]].key
  IN  entries[h.index[Position(h, h.tail, key, i)]].value

SizeApprox == IF headIndex < tailIndex THEN tailIndex - headIndex ELSE 0

\* ~ThreadPool: try_dequeue_bulk for size_approx elements (dequeue_bulk).
\* (mutant) dequeues that gave up are not added back.
BulkUncorrected == tailIndex - optimistic
BulkAvailable == tailIndex - (optimistic - overcommit)

Drain ==
  LET n == IF BulkAvailable < SizeApprox THEN BulkAvailable ELSE SizeApprox
      taken == headIndex..headIndex + n - 1
      count == [b \in Block |->
                  emptied[b] + Cardinality({i \in taken : BlockOf(i) = b})]
      empty == {b \in {BlockOf(i) : i \in taken} : count[b] = BlockSize}
  IN  /\ phase = "alive"
      /\ Quiet
      /\ phase' = "drained"
      /\ optimistic' = optimistic + n
      /\ headIndex' = headIndex + n
      /\ returned' = returned \cup {slots[BlockOf(i)][Offset(i)] : i \in taken}
      /\ slots' = [b \in Block |-> [o \in 0..BlockSize-1 |->
                     IF \E i \in taken : BlockOf(i) = b /\ Offset(i) = o
                     THEN None ELSE slots[b][o]]]
      /\ emptied' = count
      /\ entries' = [e \in DOMAIN entries |->
                       IF entries[e].value \in empty
                       THEN [entries[e] EXCEPT !.value = None]
                       ELSE entries[e]]
      /\ freeBlocks' = freeBlocks \cup empty
      /\ UNCHANGED <<tailIndex, overcommit, tailBlock, headers, producer,
                     consumer, items>>

\* ~ImplicitProducer: the elements that are left are destroyed; their blocks
\* are freed, the last one separately, unless its last element was dequeued.
Left == headIndex..tailIndex - 1
FreedBefore == {BlockOf(i) : i \in {j \in Left : Base(j) # Base(tailIndex-1)}}
\* (mutant) the tail block is freed only if it is not full.
FreedIfPartial ==
  IF tailBlock # None /\ Offset(tailIndex) # 0 THEN {tailBlock} ELSE {}
FreedLast ==
  IF tailBlock # None /\ (Left # {} \/ Offset(tailIndex) # 0)
  THEN {tailBlock} ELSE {}

Destroy ==
  /\ phase \in {"alive", "drained"}
  /\ Quiet
  /\ phase' = "destroyed"
  /\ slots' = [b \in Block |-> [o \in 0..BlockSize-1 |->
                 IF \E i \in Left : BlockOf(i) = b /\ Offset(i) = o
                 THEN None ELSE slots[b][o]]]
  /\ freeBlocks' = freeBlocks \cup FreedBefore \cup FreedLast
  /\ headers' = <<>> /\ entries' = <<>>
  /\ UNCHANGED <<counters, tailBlock, emptied, producer, consumer, items,
                 returned>>

-----------------------------------------------------------------------------
Produce ==
  \/ Enqueue \/ InsertKey \/ AdvanceTail \/ GrowIndex \/ InsertFails
  \/ \E b \in Block : Requisition(b)
  \/ RequisitionFails \/ ClearEntry \/ Link \/ Construct \/ Publish

Consume(c) ==
  \/ Look(c) \/ Count(c) \/ Claim(c) \/ Overcommit(c)
  \/ LoadHeader(c) \/ LoadTail(c) \/ LoadKey(c) \/ LoadBlock(c)
  \/ Move(c) \/ SetEmpty(c) \/ Unlink(c) \/ Recycle(c)

Next ==
  \/ Produce
  \/ \E c \in Consumer : Consume(c)
  \/ Drain \/ Destroy

Spec == Init /\ [][Next]_vars

-----------------------------------------------------------------------------
Item == 1..MaxEnqueue
EntryType == [key : Nat \cup {InvalidKey}, value : Block \cup {None}]

TypeOK ==
  /\ \A n \in {tailIndex, headIndex, optimistic, overcommit} : n \in Nat
  /\ tailBlock \in Block \cup {None}
  /\ entries \in Seq(EntryType)
  /\ \A h \in ToSet(headers) :
       /\ DOMAIN h.index = 0..Capacity(h) - 1
       /\ h.tail \in DOMAIN h.index
       /\ \A p \in DOMAIN h.index : h.index[p] \in DOMAIN entries
  /\ slots \in [Block -> [0..BlockSize-1 -> Item \cup {None}]]
  /\ emptied \in [Block -> 0..BlockSize]
  /\ freeBlocks \subseteq Block
  /\ items \in Seq(Item) /\ returned \subseteq Item \cup {None}
  /\ phase \in {"alive", "drained", "destroyed"}

Claimed(c) == consumer[c].pc \notin {"idle", "count", "claim"}
\* The number of dequeues that are counted but have not yet chosen.
Undecided == Cardinality({c \in Consumer : At(c, "claim")})

\* Every dequeue that passed its first check is accounted for, as an element
\* taken, as one given up or as one under way: so no dequeue claims an element
\* that is not there, and the queue does not look empty for ever after.
Accounting ==
  /\ optimistic - overcommit - Undecided = headIndex
  /\ headIndex <= tailIndex

\* A consumer finds the block of the element it claimed, however far the
\* producer has gone on, grown the index or taken back an entry meanwhile, and
\* the block holds that very element until it is moved out.  Whoever empties
\* or destroys the queue finds the elements that are left.
RightElement ==
  /\ (Quiet /\ phase = "alive") =>
       \A i \in headIndex..tailIndex - 1 :
         BlockOf(i) # None /\ slots[BlockOf(i)][Offset(i)] = items[i + 1]
  /\ \A c \in Consumer :
       /\ At(c, "block") =>
            /\ entries[consumer[c].entry].key = Base(consumer[c].index)
            /\ entries[consumer[c].entry].value # None
       /\ At(c, "move") =>
            slots[consumer[c].block][Offset(consumer[c].index)]
              = items[consumer[c].index + 1]
       /\ At(c, "empty") => consumer[c].item = items[consumer[c].index + 1]

\* A block that may be used for something else is not in the index, and nobody
\* is about to read an element of it or to count one as dequeued.
FreeBlocksUnused ==
  \A b \in freeBlocks :
    /\ phase # "destroyed" => \A e \in DOMAIN entries : entries[e].value # b
    /\ \A c \in Consumer : consumer[c].block # b
    /\ producer.block # b
    /\ producer.pc = "construct" => tailBlock # b

\* The pool's destructor gets everything that was enqueued and not dequeued.
DrainedEmpty ==
  phase = "drained" => /\ headIndex = tailIndex
                       /\ returned = ToSet(items)

\* The counters, the blocks and the elements agree.
Safety == TypeOK /\ Accounting /\ FreeBlocksUnused /\ DrainedEmpty

\* When the queue is destroyed each block is freed exactly once, and no
\* element is forgotten.
DestructorFreesOnce ==
  [][phase # "destroyed" /\ phase' = "destroyed" =>
       /\ FreedBefore \cap FreedLast = {}
       /\ (FreedBefore \cup FreedLast) \cap freeBlocks = {}
       /\ freeBlocks' = Block
       /\ \A b \in Block, o \in 0..BlockSize-1 : slots'[b][o] = None]_vars

\* It is a queue: elements leave in the order in which they came, each once.
\* An enqueue takes effect when tailIndex is stored, a dequeue when it claims
\* an element, before it has looked for it.
Waiting == IF phase = "alive" THEN SubSeq(items, headIndex + 1, tailIndex)
           ELSE <<>>
Got == [c \in Consumer |->
          IF ~Claimed(c) THEN None
          ELSE IF consumer[c].index < Len(items)
               THEN items[consumer[c].index + 1] ELSE 0]

Abstract == INSTANCE SubQueue WITH queue <- Waiting, got <- Got

ImplementsSubQueue == Abstract!Spec
=============================================================================
