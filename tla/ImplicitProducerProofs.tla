------------------------ MODULE ImplicitProducerProofs ------------------------
(***************************************************************************)
(* Proofs about ImplicitProducer for any number of consumers and blocks,   *)
(* any block and index size and any number of calls.                       *)
(*                                                                         *)
(* Why is the element that a dequeue claims there?  Every dequeue that     *)
(* passes its first check gets a number from dequeueOptimisticCount.  The  *)
(* second check compares this number, less the dequeues it knows to have   *)
(* given up, with a tail that may be old.  Those had smaller numbers; so   *)
(* of the dequeues up to the last one that claims there are at most        *)
(* tailIndex that have not given up, and headIndex counts some of them.    *)
(* The counters forget who gave up: CountInv says that there is a set of   *)
(* numbers for which all this holds.                                       *)
(*                                                                         *)
(* Why does the dequeue find that element? BlockInv, the second half:      *)
(* block number j holds the elements from Start(j) on. Every header ever   *)
(* published has a fixed place for block number j, modulo its size (off[k] *)
(* + j): the tail's moves do not change it, a larger header repeats the    *)
(* smaller one with another offset, and the sizes divide each other, so a  *)
(* key that is rewritten for a later block stays congruent in all headers. *)
(* A reader therefore computes the place of its element's block from ANY   *)
(* key it finds at ANY tail. The entry there cannot have been reused: an   *)
(* entry is reusable only when its block has been unlinked, which takes    *)
(* all its elements to have been counted, and this one has not been        *)
(* (LinkInv: the block's counter counts the elements that nobody may claim *)
(* or is still reading). SlotInv, OwnerInv and FoundInv say what is in the *)
(* slots, that each block is in one place, and what the consumers under    *)
(* way have found; from them follow the safety properties of the runs.     *)
(***************************************************************************)
EXTENDS ImplicitProducer, FiniteSetTheorems, SequenceTheorems,
        WellFoundedInduction, TLAPS

-----------------------------------------------------------------------------
\* What the variables hold.
ConsumerLabel ==
  {"idle", "count", "claim", "header", "tail", "key", "block", "move",
   "empty", "unlink", "recycle"}
ProducerLabel ==
  {"idle", "insert", "advance", "requisition", "clear", "link", "construct",
   "publish"}

HeaderType(n) == [tail : 0..n-1, index : [0..n-1 -> 1..Len(entries)]]
ConsumerType ==
  [pc : ConsumerLabel, over : Nat, count : Nat, index : Nat, header : Nat,
   tail : Nat, entry : Nat, block : Block \cup {None},
   item : Item \cup {None}]
ProducerType ==
  [pc : ProducerLabel, item : 0..MaxEnqueue, entry : Nat,
   block : Block \cup {None}]

CounterInv ==
  /\ tailIndex \in Nat /\ headIndex \in Nat
  /\ optimistic \in Nat /\ overcommit \in Nat
  /\ phase \in {"alive", "drained", "destroyed"}
  /\ phase # "alive" => Quiet
  /\ items \in Seq(Item) /\ Len(items) = tailIndex

IndexInv ==
  /\ entries \in Seq(EntryType)
  /\ headers \in Seq(UNION {HeaderType(n) : n \in Nat \ {0}})
  /\ slots \in [Block -> [0..BlockSize-1 -> Item \cup {None}]]
  /\ emptied \in [Block -> Nat]

\* The parts of the index that enqueue is about to write are there.
ProducerInv ==
  /\ producer \in ProducerType
  /\ producer.pc # "idle" => producer.item # 0
  /\ producer.pc \in {"advance", "requisition", "clear", "link"} =>
       producer.entry \in DOMAIN entries
  /\ producer.pc = "link" => producer.block \in Block
  /\ phase # "destroyed" /\ (tailIndex # 0 \/ producer.pc \notin {"idle", "insert"})
       => headers # <<>>

\* Those that a dequeue is about to read are there.
ConsumerInv ==
  /\ consumer \in [Consumer -> ConsumerType]
  /\ \A c \in Consumer :
       /\ Claimed(c) => consumer[c].index < headIndex
       /\ consumer[c].pc \in {"tail", "key"} =>
            consumer[c].header \in DOMAIN headers
       /\ At(c, "key") =>
            consumer[c].tail \in DOMAIN headers[consumer[c].header].index
       /\ consumer[c].pc \in {"block", "move", "empty", "unlink"} =>
            consumer[c].entry \in DOMAIN entries
       /\ consumer[c].pc \in {"empty", "unlink", "recycle"} =>
            consumer[c].block \in Block

ShapeInv == CounterInv /\ IndexInv /\ ProducerInv /\ ConsumerInv

-----------------------------------------------------------------------------
\* Who claimed, who gave up and who has still to choose.
Claiming == {c \in Consumer : At(c, "claim")}
Before(G, i) == {g \in G : g < i}

\* The dequeues with the numbers in K claimed an element, those in G gave up,
\* and the others have still to choose.
Outcome(K, G) ==
  /\ K \subseteq 0..optimistic-1 /\ G \subseteq 0..optimistic-1
  /\ K \cap G = {}
  /\ Cardinality(K) = headIndex
  /\ Cardinality(G) = overcommit
  /\ \A c \in Claiming :
       /\ consumer[c].count \in (0..optimistic-1) \ (K \cup G)
       /\ consumer[c].over <= Cardinality(Before(G, consumer[c].count))
  /\ \A c, d \in Claiming : consumer[c].count = consumer[d].count => c = d
  /\ \A i \in (0..optimistic-1) \ (K \cup G) :
       \E c \in Claiming : consumer[c].count = i
  /\ \A i \in K : i - Cardinality(Before(G, i)) < tailIndex

CountInv ==
  /\ \A c \in Consumer : At(c, "count") => consumer[c].over <= overcommit
  /\ phase = "alive" =>
       \E K \in SUBSET (0..optimistic-1) :
         \E G \in SUBSET (0..optimistic-1) : Outcome(K, G)
  /\ phase # "alive" => /\ optimistic - overcommit = headIndex
                        /\ headIndex <= tailIndex

IInv == ShapeInv /\ CountInv

-----------------------------------------------------------------------------
\* Sizes.
LEMMA Sizes ==
  /\ BlockSize \in Nat /\ BlockSize >= 2
  /\ InitialIndexSize \in Nat /\ InitialIndexSize >= 2
  /\ MaxEnqueue \in Nat
  /\ None \notin Block /\ None \notin Nat
BY SizesAssumption

\* The offset in its block, and the place in a ring of n entries.
LEMMA ModRange == \A a \in Int : \A n \in Nat \ {0} : a % n \in 0..n-1
OBVIOUS

LEMMA CapacityOf ==
  ASSUME NEW n \in Nat \ {0}, NEW S, NEW f \in [0..n-1 -> S], NEW t
  PROVE  Capacity([tail |-> t, index |-> f]) = n
<1>1. Cardinality(0..n-1) = n
  BY FS_Interval
<1>. QED
  BY <1>1 DEF Capacity

LEMMA HeaderCapacity ==
  ASSUME NEW n \in Nat \ {0}, NEW h \in HeaderType(n)
  PROVE  /\ Capacity(h) = n
         /\ DOMAIN h.index = 0..n-1
         /\ h.tail \in 0..n-1
         /\ \A p \in 0..n-1 : h.index[p] \in 1..Len(entries)
<1>1. Cardinality(0..n-1) = n
  BY FS_Interval
<1>. QED
  BY <1>1 DEF Capacity, HeaderType

\* A header that is there is a ring of some size.
LEMMA HeaderSize ==
  ASSUME IndexInv, NEW k \in DOMAIN headers
  PROVE  \E n \in Nat \ {0} : headers[k] \in HeaderType(n)
BY DEF IndexInv

LEMMA Headers ==
  ASSUME IndexInv
  PROVE  /\ Len(headers) \in Nat
         /\ DOMAIN headers = 1..Len(headers)
         /\ headers = <<>> <=> Len(headers) = 0
         /\ headers # <<>> => /\ Len(headers) \in DOMAIN headers
                              /\ Current = headers[Len(headers)]
BY DEF IndexInv, Current, Last

-----------------------------------------------------------------------------
\* How many elements are there, how many were claimed?

\* Of the dequeues with the numbers up to m at most m + 1 claimed an element.
LEMMA ClaimedAtMost ==
  ASSUME NEW m \in Nat, NEW n \in Nat, NEW K, NEW G, NEW N \in Nat,
         K \subseteq 0..N, G \subseteq 0..N, K \cap G = {},
         m \in K, \A i \in K : i <= m,
         m - Cardinality(Before(G, m)) < n
  PROVE  Cardinality(K) <= n
<1>1. /\ IsFiniteSet(0..m) /\ Cardinality(0..m) = m + 1
  BY FS_Interval
<1>2. /\ Before(G, m) \subseteq 0..m
      /\ K \subseteq (0..m) \ Before(G, m)
  <2>1. Before(G, m) \subseteq G /\ \A g \in Before(G, m) : g \in 0..N /\ g < m
    BY DEF Before
  <2>2. \A i \in K : i \in 0..m /\ i \notin G
    OBVIOUS
  <2>3. \A g \in Before(G, m) : g \in 0..m
    BY <2>1
  <2>. QED
    BY <2>1, <2>2, <2>3
<1>3. IsFiniteSet(Before(G, m)) /\ Cardinality(Before(G, m)) \in Nat
  BY <1>1, <1>2, FS_Subset, FS_CardinalityType
<1>. DEFINE S == 0..m
             B == Before(G, m)
<1>. HIDE DEF S, B
<1>4. /\ IsFiniteSet(S \ B)
      /\ Cardinality(S \ B) = Cardinality(S) - Cardinality(S \cap B)
  <2>1. IsFiniteSet(S)
    BY <1>1 DEF S
  <2>. QED
    BY <2>1, FS_Difference
<1>5. S \cap B = B /\ Cardinality(S) = m + 1
  BY <1>1, <1>2 DEF S, B
<1>6. K \in SUBSET (S \ B)
  BY <1>2 DEF S, B
<1>7. /\ IsFiniteSet(K) /\ Cardinality(K) \in Nat
      /\ Cardinality(K) <= Cardinality(S \ B)
  BY <1>4, <1>6, FS_Subset, FS_CardinalityType
<1>8. Cardinality(B) \in Nat /\ m - Cardinality(B) < n
  BY <1>3 DEF B
<1>9. Cardinality(S \cap B) = Cardinality(B)
  BY <1>5
<1>. DEFINE x == Cardinality(S \ B)
             y == Cardinality(K)
             z == Cardinality(B)
<1>10. x = m + 1 - z /\ y \in Nat /\ z \in Nat /\ y <= x /\ m - z < n
  BY <1>4, <1>5, <1>7, <1>8, <1>9
<1>11. y <= n
  <2>. HIDE DEF x, y, z
  <2>. QED
    BY <1>10
<1>. QED
  BY <1>11

\* A non-empty set of numbers up to N has a largest.
LEMMA Largest ==
  ASSUME NEW N \in Nat, NEW K, K \subseteq 0..N, K # {}
  PROVE  \E m \in K : \A i \in K : i <= m
<1>. DEFINE T == {N - i : i \in K}
<1>1. T \subseteq Nat /\ T # {}
  <2>1. \A i \in K : N - i \in Nat
    OBVIOUS
  <2>. QED
    BY <2>1
<1>2. PICK x \in T : \A y \in T : ~(<<y, x>> \in OpToRel(<, Nat))
  BY <1>1, NatLessThanWellFounded, WFMin
<1>3. PICK m \in K : x = N - m
  BY <1>2
<1>4. ASSUME NEW i \in K
      PROVE  i <= m
  <2>1. N - i \in T /\ N - i \in Nat /\ x \in Nat
    BY <1>1, <1>2
  <2>2. ~(N - i < x)
    BY <1>2, <2>1 DEF OpToRel
  <2>. QED
    BY <2>1, <2>2, <1>3
<1>. QED
  BY <1>4

\* Every dequeue that passed its first check is accounted for.
LEMMA AccountingHolds ==
  ASSUME ShapeInv, CountInv
  PROVE  Accounting
<1>0. /\ tailIndex \in Nat /\ headIndex \in Nat
      /\ optimistic \in Nat /\ overcommit \in Nat
  BY DEF ShapeInv, CounterInv
<1>1. Undecided = Cardinality(Claiming)
  BY DEF Undecided, Claiming
<1>2. CASE phase = "alive"
  <2>. DEFINE N == 0..optimistic - 1
  <2>. PICK K \in SUBSET N, G \in SUBSET N : Outcome(K, G)
    BY <1>2 DEF CountInv
  <2>. DEFINE free == N \ (K \cup G)
              f == [c \in Claiming |-> consumer[c].count]
  <2>0. /\ K \cap G = {}
        /\ Cardinality(K) = headIndex /\ Cardinality(G) = overcommit
        /\ \A c \in Claiming : consumer[c].count \in free
        /\ \A c, d \in Claiming :
             consumer[c].count = consumer[d].count => c = d
        /\ \A i \in free : \E c \in Claiming : consumer[c].count = i
        /\ \A i \in K : i - Cardinality(Before(G, i)) < tailIndex
    BY DEF Outcome
  <2>1. IsFiniteSet(N) /\ Cardinality(N) = optimistic
    BY <1>0, FS_Interval
  <2>2. /\ IsFiniteSet(K) /\ IsFiniteSet(G)
        /\ Cardinality(K \cup G) = headIndex + overcommit
    <3>1. IsFiniteSet(K) /\ IsFiniteSet(G)
      BY <2>1, FS_Subset
    <3>2. Cardinality(K \cup G)
            = Cardinality(K) + Cardinality(G) - Cardinality(K \cap G)
      BY <3>1, FS_Union
    <3>3. Cardinality(K \cap G) = 0
      BY <2>0, FS_EmptySet
    <3>. QED
      BY <3>1, <3>2, <3>3, <2>0, <1>0
  <2>3. /\ IsFiniteSet(free)
        /\ Cardinality(free) = optimistic - headIndex - overcommit
    <3>1. N \cap (K \cup G) = K \cup G
      OBVIOUS
    <3>. DEFINE KG == K \cup G
    <3>. HIDE DEF N, KG
    <3>2. /\ IsFiniteSet(N \ KG)
          /\ Cardinality(N \ KG) = Cardinality(N) - Cardinality(N \cap KG)
      BY <2>1, FS_Difference
    <3>3. Cardinality(N \ KG) = optimistic - (headIndex + overcommit)
      BY <3>1, <3>2, <2>1, <2>2 DEF KG
    <3>4. IsFiniteSet(free) /\ free = N \ KG
      BY <3>2 DEF KG
    <3>. QED
      BY <3>3, <3>4, <1>0
  <2>4. f \in Bijection(Claiming, free)
    BY <2>0 DEF Bijection, Injection, Surjection, IsInjective
  <2>5. Cardinality(Claiming) = Cardinality(free)
    <3>1. f \in Injection(Claiming, free) /\ f \in Surjection(Claiming, free)
      BY <2>4 DEF Bijection
    <3>. QED
      BY <3>1, <2>3, FS_Injection
  <2>6. headIndex <= tailIndex
    <3>1. CASE K = {}
      BY <3>1, <2>0, <1>0, FS_EmptySet
    <3>2. CASE K # {}
      <4>1. K \subseteq 0..optimistic /\ G \subseteq 0..optimistic
        BY <1>0
      <4>2. PICK m \in K : \A i \in K : i <= m
        BY <1>0, <3>2, <4>1, Largest
      <4>3. m \in Nat
        BY <4>1, <1>0
      <4>. QED
        BY <1>0, <2>0, <4>1, <4>2, <4>3, ClaimedAtMost
    <3>. QED
      BY <3>1, <3>2
  <2>. QED
    BY <1>0, <1>1, <2>3, <2>5, <2>6 DEF Accounting
<1>3. CASE phase # "alive"
  <2>1. Claiming = {}
    BY <1>3 DEF ShapeInv, CounterInv, Quiet, Claiming, At
  <2>2. Undecided = 0
    BY <2>1, <1>1, FS_EmptySet
  <2>. QED
    BY <1>3, <2>2, <1>0 DEF CountInv, Accounting
<1>. QED
  BY <1>2, <1>3

-----------------------------------------------------------------------------
\* ShapeInv is inductive, given CountInv.

\* Only in its prime is the queue used.
LEMMA InUse ==
  ASSUME ShapeInv, Produce \/ \E c \in Consumer : Consume(c)
  PROVE  phase = "alive" /\ phase' = "alive"
<1>1. phase' = phase
  BY Zenon DEF Produce, Enqueue, InsertKey, AdvanceTail, GrowIndex, InsertFails,
     Requisition, RequisitionFails, ClearEntry, Link, Construct, Publish,
     Consume, Look, Count, Claim, Overcommit, LoadHeader, LoadTail, LoadKey,
     LoadBlock, Move, SetEmpty, Unlink, Recycle, history
<1>2. phase = "alive" \/ ~Quiet
  <2>1. CASE Produce
    BY <2>1, Zenon DEF Produce, Enqueue, InsertKey, AdvanceTail, GrowIndex,
       InsertFails, Requisition, RequisitionFails, ClearEntry, Link,
       Construct, Publish, Quiet
  <2>2. ASSUME NEW c \in Consumer, Consume(c)
        PROVE  phase = "alive" \/ ~Quiet
    BY <2>2, Zenon DEF Consume, Look, Count, Claim, Overcommit, LoadHeader,
       LoadTail, LoadKey, LoadBlock, Move, SetEmpty, Unlink, Recycle, Quiet,
       At
  <2>. QED
    BY <2>1, <2>2
<1>. QED
  BY <1>1, <1>2 DEF ShapeInv, CounterInv

\* What ~ThreadPool takes is all there is.
LEMMA DrainTakesAll ==
  ASSUME ShapeInv, CountInv, Drain
  PROVE  /\ headIndex' = tailIndex
         /\ optimistic' = optimistic + (tailIndex - headIndex)
         /\ headIndex <= tailIndex
         /\ optimistic - overcommit = headIndex
<1>0. /\ tailIndex \in Nat /\ headIndex \in Nat
      /\ optimistic \in Nat /\ overcommit \in Nat
  BY DEF ShapeInv, CounterInv
<1>1. Undecided = 0
  <2>1. {c \in Consumer : At(c, "claim")} = {}
    BY DEF Drain, Quiet, At
  <2>. QED
    BY <2>1, FS_EmptySet DEF Undecided
<1>2. optimistic - overcommit = headIndex /\ headIndex <= tailIndex
  BY <1>0, <1>1, AccountingHolds DEF Accounting
<1>3. BulkAvailable = tailIndex - headIndex /\ SizeApprox = tailIndex - headIndex
  BY <1>0, <1>2 DEF BulkAvailable, SizeApprox
<1>. QED
  BY <1>0, <1>2, <1>3 DEF Drain

LEMMA CounterStep ==
  ASSUME ShapeInv, CountInv, Next
  PROVE  CounterInv'
<1>0. /\ tailIndex \in Nat /\ headIndex \in Nat
      /\ optimistic \in Nat /\ overcommit \in Nat
      /\ items \in Seq(Item) /\ Len(items) = tailIndex
  BY DEF ShapeInv, CounterInv
<1>1. CASE Produce
  <2>0. phase' = "alive"
    BY <1>1, InUse
  <2>1. CASE Publish
    <3>1. producer.item \in Item
      BY <2>1, Sizes DEF Publish, ShapeInv, ProducerInv, ProducerType, Item
    <3>. QED
      BY <1>0, <2>0, <2>1, <3>1, AppendProperties DEF Publish, CounterInv
  <2>2. CASE ~Publish
    <3>1. UNCHANGED <<counters, items>>
      BY <1>1, <2>2 DEF Produce, Enqueue, InsertKey, AdvanceTail, GrowIndex,
         InsertFails, Requisition, RequisitionFails, ClearEntry, Link,
         Construct, history
    <3>. QED
      BY <1>0, <2>0, <3>1 DEF counters, CounterInv
  <2>. QED
    BY <2>1, <2>2
<1>2. ASSUME NEW c \in Consumer, Consume(c)
      PROVE  CounterInv'
  <2>0. phase' = "alive"
    BY <1>2, InUse
  <2>1. /\ UNCHANGED <<tailIndex, items>>
        /\ headIndex' = headIndex \/ headIndex' = headIndex + 1
        /\ optimistic' = optimistic \/ optimistic' = optimistic + 1
        /\ overcommit' = overcommit \/ overcommit' = overcommit + 1
    BY <1>2, Zenon DEF Consume, Look, Count, Claim, Overcommit, GiveBack,
       LoadHeader, LoadTail, LoadKey, LoadBlock, Move, SetEmpty, Unlink,
       Recycle, counters, history
  <2>. QED
    BY <1>0, <2>0, <2>1 DEF CounterInv
<1>3. CASE Drain
  <2>1. headIndex' \in Nat /\ optimistic' \in Nat
    BY <1>0, <1>3, DrainTakesAll
  <2>2. Quiet' /\ phase' = "drained"
    BY <1>3 DEF Drain, Quiet, At
  <2>. QED
    BY <1>0, <1>3, <2>1, <2>2 DEF Drain, CounterInv
<1>4. CASE Destroy
  <2>1. Quiet' /\ phase' = "destroyed"
    BY <1>4 DEF Destroy, Quiet, At
  <2>. QED
    BY <1>0, <1>4, <2>1 DEF Destroy, counters, CounterInv
<1>. QED
  BY <1>1, <1>2, <1>3, <1>4 DEF Next

\* The next enqueue's step in the tail's ring.
LEMMA CurrentRing ==
  ASSUME IndexInv, headers # <<>>
  PROVE  \E n \in Nat \ {0} :
           /\ Current \in HeaderType(n)
           /\ Capacity(Current) = n
           /\ Current.tail \in 0..n-1
           /\ NextPosition(Current) \in 0..n-1
           /\ Rewind(Current) \in 0..n-1
           /\ NextEntry(Current) \in DOMAIN entries
<1>1. Len(headers) \in DOMAIN headers /\ Current = headers[Len(headers)]
  BY Headers
<1>2. PICK n \in Nat \ {0} : Current \in HeaderType(n)
  BY <1>1, HeaderSize
<1>3. /\ Capacity(Current) = n
      /\ Current.tail \in 0..n-1
      /\ \A p \in 0..n-1 : Current.index[p] \in 1..Len(entries)
  BY <1>2, HeaderCapacity
<1>4. NextPosition(Current) \in 0..n-1 /\ Rewind(Current) \in 0..n-1
  <2>1. Current.tail + 1 \in Int /\ Current.tail - 1 \in Int
    BY <1>3
  <2>2. /\ (Current.tail + 1) % n \in 0..n-1
        /\ (Current.tail - 1) % n \in 0..n-1
    BY <2>1, ModRange
  <2>. QED
    BY <1>3, <2>2 DEF NextPosition, Rewind
<1>5. NextEntry(Current) \in 1..Len(entries)
  BY <1>3, <1>4 DEF NextEntry
<1>6. DOMAIN entries = 1..Len(entries)
  BY DEF IndexInv
<1>7. NextEntry(Current) \in DOMAIN entries
  BY <1>5, <1>6
<1>. WITNESS n \in Nat \ {0}
<1>. QED
  BY <1>2, <1>3, <1>4, <1>7

\* The types of the entries do not matter for a header, only their number.
LEMMA SameEntries ==
  ASSUME Len(entries') = Len(entries)
  PROVE  \A n \in Nat : HeaderType(n)' = HeaderType(n)
BY DEF HeaderType

LEMMA FreshType ==
  ASSUME NEW n \in Nat
  PROVE  /\ FreshEntries(n) \in Seq(EntryType)
         /\ Len(FreshEntries(n)) = n
BY DEF FreshEntries, EntryType, InvalidKey

HeaderSet == UNION {HeaderType(n) : n \in Nat \ {0}}

LEMMA HeaderSetGrows ==
  ASSUME IndexInv, Len(entries') \in Nat, Len(entries') >= Len(entries)
  PROVE  HeaderSet \subseteq HeaderSet'
<1>1. Len(entries) \in Nat
  BY DEF IndexInv
<1>2. ASSUME NEW n \in Nat \ {0}
      PROVE  HeaderType(n) \subseteq HeaderType(n)'
  <2>1. 1..Len(entries) \subseteq 1..Len(entries')
    BY <1>1
  <2>. QED
    BY <2>1 DEF HeaderType
<1>. QED
  BY <1>2 DEF HeaderSet

\* A step that moves only the tail of the current index.
LEMMA TailMoves ==
  ASSUME IndexInv, headers # <<>>, NEW n \in Nat \ {0},
         Current \in HeaderType(n), NEW t \in 0..n-1,
         headers' = [headers EXCEPT ![Len(headers)].tail = t],
         UNCHANGED <<entries, slots, emptied>>
  PROVE  IndexInv'
<1>1. /\ Len(headers) \in DOMAIN headers
      /\ Current = headers[Len(headers)]
      /\ headers \in Seq(HeaderSet)
  BY Headers DEF IndexInv, HeaderSet
<1>2. [Current EXCEPT !.tail = t] \in HeaderType(n)
  BY DEF HeaderType
<1>3. [Current EXCEPT !.tail = t] \in HeaderSet
  BY <1>2 DEF HeaderSet
<1>4. headers' \in Seq(HeaderSet)
  BY <1>1, <1>3
<1>5. HeaderSet' = HeaderSet
  BY DEF HeaderSet, HeaderType
<1>. QED
  BY <1>4, <1>5 DEF IndexInv, HeaderSet

\* A step that writes one entry, or one slot, or counts an element.
LEMMA EntryWritten ==
  ASSUME IndexInv, NEW e \in DOMAIN entries,
         \/ \E key \in Nat \cup {InvalidKey} :
              entries' = [entries EXCEPT ![e].key = key]
         \/ \E value \in Block \cup {None} :
              entries' = [entries EXCEPT ![e].value = value],
         UNCHANGED <<headers, slots, emptied>>
  PROVE  IndexInv'
<1>1. entries \in Seq(EntryType) /\ entries[e] \in EntryType
  BY DEF IndexInv
<1>2. entries' \in Seq(EntryType) /\ Len(entries') = Len(entries)
  BY <1>1 DEF EntryType
<1>3. HeaderSet' = HeaderSet
  BY <1>2 DEF HeaderSet, HeaderType
<1>. QED
  BY <1>2, <1>3 DEF IndexInv, HeaderSet

LEMMA MemoryWritten ==
  ASSUME IndexInv, UNCHANGED <<headers, entries>>,
         slots' \in [Block -> [0..BlockSize-1 -> Item \cup {None}]],
         emptied' \in [Block -> Nat]
  PROVE  IndexInv'
BY DEF IndexInv, HeaderType

LEMMA Concatenated ==
  ASSUME NEW S, NEW s1 \in Seq(S), NEW s2 \in Seq(S)
  PROVE  /\ s1 \o s2 \in Seq(S)
         /\ Len(s1 \o s2) = Len(s1) + Len(s2)
         /\ \A i \in 1..Len(s1) : (s1 \o s2)[i] = s1[i]
         /\ \A i \in Len(s1)+1..Len(s1)+Len(s2) :
              (s1 \o s2)[i] = s2[i - Len(s1)]
<1>1. Len(s1) \in Nat /\ Len(s2) \in Nat
  OBVIOUS
<1>2. /\ \A i \in 1..Len(s1) : i \in 1..Len(s1)+Len(s2) /\ i <= Len(s1)
      /\ \A i \in Len(s1)+1..Len(s1)+Len(s2) :
           i \in 1..Len(s1)+Len(s2) /\ ~(i <= Len(s1))
  BY <1>1
<1>. QED
  BY <1>2, ConcatProperties, Zenon

\* The index of twice the size.
LEMMA Grows ==
  ASSUME IndexInv, headers # <<>>,
         entries' = entries \o FreshEntries(Capacity(Current)),
         headers' = Append(headers, NextHeader(Current))
  PROVE  \E n \in Nat \ {0} :
           /\ Current \in HeaderType(n)
           /\ Capacity(Current) = n
           /\ Len(entries') = Len(entries) + n
           /\ entries' \in Seq(EntryType)
           /\ \A e \in 1..Len(entries) : entries'[e] = entries[e]
           /\ \A e \in Len(entries)+1..Len(entries)+n :
                entries'[e] = [key |-> InvalidKey, value |-> None]
           /\ NextHeader(Current) \in HeaderType(2 * n)'
           /\ headers' \in Seq(HeaderSet')
<1>1. /\ Len(headers) \in DOMAIN headers
      /\ Current = headers[Len(headers)]
      /\ headers \in Seq(HeaderSet)
      /\ entries \in Seq(EntryType)
      /\ Len(entries) \in Nat
  BY Headers DEF IndexInv, HeaderSet
<1>2. PICK n \in Nat \ {0} :
        /\ Current \in HeaderType(n)
        /\ Capacity(Current) = n
        /\ Current.tail \in 0..n-1
  BY CurrentRing
<1>3. /\ Len(entries') = Len(entries) + n
      /\ entries' \in Seq(EntryType)
      /\ \A e \in 1..Len(entries) : entries'[e] = entries[e]
      /\ \A e \in Len(entries)+1..Len(entries)+n :
           entries'[e] = [key |-> InvalidKey, value |-> None]
  <2>1. /\ FreshEntries(n) \in Seq(EntryType) /\ Len(FreshEntries(n)) = n
        /\ \A i \in 1..n :
             FreshEntries(n)[i] = [key |-> InvalidKey, value |-> None]
    BY FreshType DEF FreshEntries
  <2>. QED
    <3>1. entries' = entries \o FreshEntries(n)
      BY <1>2
    <3>. DEFINE s == FreshEntries(n)
    <3>. HIDE DEF s
    <3>2. /\ s \in Seq(EntryType) /\ Len(s) = n /\ entries' = entries \o s
          /\ \A i \in 1..n : s[i] = [key |-> InvalidKey, value |-> None]
      BY <2>1, <3>1 DEF s
    <3>3. /\ Len(entries') = Len(entries) + n
          /\ entries' \in Seq(EntryType)
          /\ \A e \in 1..Len(entries) : entries'[e] = entries[e]
          /\ \A e \in Len(entries)+1..Len(entries)+n :
               entries'[e] = s[e - Len(entries)]
      <4>1. entries \in Seq(EntryType) /\ s \in Seq(EntryType)
        BY <1>1, <3>2
      <4>2. /\ entries \o s \in Seq(EntryType)
            /\ Len(entries \o s) = Len(entries) + Len(s)
            /\ \A e \in 1..Len(entries) : (entries \o s)[e] = entries[e]
            /\ \A e \in Len(entries)+1..Len(entries)+Len(s) :
                 (entries \o s)[e] = s[e - Len(entries)]
        BY <4>1, Concatenated
      <4>. QED
        BY <4>2, <3>2, Zenon
    <3>4. \A e \in Len(entries)+1..Len(entries)+n : e - Len(entries) \in 1..n
      BY <1>1
    <3>. QED
      BY <3>2, <3>3, <3>4
<1>4. NextHeader(Current) \in HeaderType(2 * n)'
  <2>1. /\ \A p \in 0..n-1 : Current.index[p] \in 1..Len(entries)
        /\ \A i \in Int : (Current.tail + 1 + i) % n \in 0..n-1
    <3>1. \A i \in Int : Current.tail + 1 + i \in Int
      BY <1>2
    <3>. QED
      BY <1>2, <3>1, HeaderCapacity, ModRange
  <2>2. ASSUME NEW i \in 0..2*n-1
        PROVE  (IF i < n THEN Current.index[(Current.tail + 1 + i) % n]
                ELSE Len(entries) + 1 + i - n) \in 1..Len(entries')
    <3>1. CASE i < n
      <4>0. i \in Int
        OBVIOUS
      <4>1. Current.index[(Current.tail + 1 + i) % n] \in 1..Len(entries)
        <5>1. (Current.tail + 1 + i) % n \in 0..n-1
          BY <2>1, <4>0
        <5>. QED
          BY <2>1, <5>1
      <4>2. 1..Len(entries) \subseteq 1..Len(entries')
        BY <1>1, <1>3
      <4>. QED
        BY <3>1, <4>1, <4>2
    <3>2. CASE ~(i < n)
      BY <3>2, <1>1, <1>3
    <3>. QED
      BY <3>1, <3>2
  <2>3. NextHeader(Current)
          = [tail |-> n - 1,
             index |-> [i \in 0..2*n-1 |->
                IF i < n THEN Current.index[(Current.tail + 1 + i) % n]
                ELSE Len(entries) + 1 + i - n]]
    BY <1>2 DEF NextHeader
  <2>4. n - 1 \in 0..2*n-1
    OBVIOUS
  <2>. QED
    BY <2>2, <2>3, <2>4 DEF HeaderType
<1>5. HeaderSet \subseteq HeaderSet'
  BY <1>1, <1>3, HeaderSetGrows
<1>6. NextHeader(Current) \in HeaderSet'
  <2>1. 2 * n \in Nat \ {0}
    OBVIOUS
  <2>. QED
    BY <1>4, <2>1 DEF HeaderSet
<1>7. headers' \in Seq(HeaderSet')
  <2>1. headers \in Seq(HeaderSet')
    BY <1>1, <1>5
  <2>. QED
    BY <2>1, <1>6
<1>. WITNESS n \in Nat \ {0}
<1>. QED
  BY <1>2, <1>3, <1>4, <1>7

\* No header loses its ring and no entry is lost while the queue is used.
Larger ==
  /\ DOMAIN entries \subseteq DOMAIN entries'
  /\ DOMAIN headers \subseteq DOMAIN headers'
  /\ \A k \in DOMAIN headers : headers'[k].index = headers[k].index

LEMMA SameIndex ==
  ASSUME IndexInv, headers' = headers, DOMAIN entries' = DOMAIN entries
  PROVE  Larger
BY DEF Larger

LEMMA ProducerIndexStep ==
  ASSUME ShapeInv, Produce
  PROVE  IndexInv' /\ Larger
<1>0. IndexInv /\ ProducerInv /\ phase = "alive"
  BY InUse DEF ShapeInv
<1>1. CASE InsertKey
  <2>1. PICK e : /\ e = NextEntry(Current)
                 /\ entries' = [entries EXCEPT ![e].key = tailIndex]
    BY <1>1 DEF InsertKey
  <2>2. e \in DOMAIN entries
    BY <1>0, <1>1, <2>1, CurrentRing DEF InsertKey
  <2>3. tailIndex \in Nat \cup {InvalidKey}
    BY DEF ShapeInv, CounterInv
  <2>4. UNCHANGED <<headers, slots, emptied>>
    BY <1>1 DEF InsertKey, memory
  <2>5. IndexInv'
    BY <1>0, <2>1, <2>2, <2>3, <2>4, EntryWritten
  <2>. QED
    BY <1>0, <2>1, <2>4, <2>5, SameIndex
<1>2. CASE AdvanceTail \/ RequisitionFails
  <2>1. headers # <<>>
    BY <1>0, <1>2 DEF AdvanceTail, RequisitionFails, ProducerInv
  <2>2. PICK n \in Nat \ {0} :
          /\ Current \in HeaderType(n)
          /\ NextPosition(Current) \in 0..n-1
          /\ Rewind(Current) \in 0..n-1
    BY <1>0, <2>1, CurrentRing
  <2>3. UNCHANGED <<entries, slots, emptied>>
    BY <1>2 DEF AdvanceTail, RequisitionFails, memory
  <2>4. PICK t \in 0..n-1 :
          headers' = [headers EXCEPT ![Len(headers)].tail = t]
    BY <1>2, <2>2 DEF AdvanceTail, RequisitionFails
  <2>5. IndexInv'
    BY <1>0, <2>1, <2>2, <2>3, <2>4, TailMoves
  <2>6. \A k \in DOMAIN headers : headers'[k].index = headers[k].index
    <3>1. Len(headers) \in DOMAIN headers /\ Current = headers[Len(headers)]
      BY <1>0, <2>1, Headers
    <3>. QED
      BY <2>2, <2>4, <3>1 DEF HeaderType
  <2>7. DOMAIN headers' = DOMAIN headers
    BY <2>4
  <2>. QED
    BY <2>3, <2>5, <2>6, <2>7 DEF Larger
<1>3. CASE GrowIndex
  <2>1. /\ headers # <<>>
        /\ entries' = entries \o FreshEntries(Capacity(Current))
        /\ headers' = Append(headers, NextHeader(Current))
        /\ UNCHANGED <<slots, emptied>>
    BY <1>3 DEF GrowIndex, memory
  <2>2. PICK n \in Nat \ {0} :
           /\ Len(entries') = Len(entries) + n
           /\ entries' \in Seq(EntryType)
           /\ headers' \in Seq(HeaderSet')
    BY <1>0, <2>1, Grows
  <2>3. IndexInv'
    BY <1>0, <2>1, <2>2 DEF IndexInv, HeaderSet
  <2>4. DOMAIN entries \subseteq DOMAIN entries'
    <3>1. /\ DOMAIN entries = 1..Len(entries) /\ Len(entries) \in Nat
          /\ DOMAIN entries' = 1..Len(entries')
      BY <1>0, <2>2 DEF IndexInv
    <3>. QED
      BY <2>2, <3>1
  <2>5. /\ DOMAIN headers \subseteq DOMAIN headers'
        /\ \A k \in DOMAIN headers : headers'[k] = headers[k]
    BY <1>0, <2>1 DEF IndexInv
  <2>. QED
    BY <2>3, <2>4, <2>5 DEF Larger
<1>4. CASE \E b \in Block : Requisition(b)
  <2>1. PICK b \in Block : Requisition(b)
    BY <1>4
  <2>2. UNCHANGED <<headers, entries, slots>> /\ emptied' \in [Block -> Nat]
    BY <1>0, <2>1 DEF Requisition, index, ResetEmpty, IndexInv
  <2>3. slots' \in [Block -> [0..BlockSize-1 -> Item \cup {None}]]
    BY <1>0, <2>2 DEF IndexInv
  <2>. QED
    BY <1>0, <2>2, <2>3, MemoryWritten, SameIndex
<1>5. CASE ClearEntry \/ Link
  <2>1. producer.entry \in DOMAIN entries /\ producer.block \in Block \cup {None}
    BY <1>0, <1>5 DEF ClearEntry, Link, ProducerInv, ProducerType
  <2>2. PICK v \in Block \cup {None} :
          entries' = [entries EXCEPT ![producer.entry].value = v]
    BY <1>5, <2>1 DEF ClearEntry, Link
  <2>3. UNCHANGED <<headers, slots, emptied>>
    BY <1>5 DEF ClearEntry, Link, memory
  <2>4. IndexInv'
    BY <1>0, <2>1, <2>2, <2>3, EntryWritten
  <2>. QED
    BY <1>0, <2>2, <2>3, <2>4, SameIndex
<1>6. CASE Construct
  <2>1. UNCHANGED <<headers, entries, emptied>>
    BY <1>6 DEF Construct, index
  <2>2. producer.item \in Item
    BY <1>0, <1>6, Sizes DEF Construct, ProducerInv, ProducerType, Item
  <2>3. slots' \in [Block -> [0..BlockSize-1 -> Item \cup {None}]]
    BY <1>0, <1>6, <2>2 DEF Construct, IndexInv
  <2>4. emptied' \in [Block -> Nat]
    BY <1>0, <2>1 DEF IndexInv
  <2>. QED
    BY <1>0, <2>1, <2>3, <2>4, MemoryWritten, SameIndex
<1>7. CASE Enqueue \/ InsertFails \/ Publish
  <2>1. UNCHANGED <<headers, entries, slots, emptied>>
    BY <1>7 DEF Enqueue, InsertFails, Publish, index, memory
  <2>. QED
    BY <1>0, <2>1, MemoryWritten, SameIndex DEF IndexInv
<1>. QED
  BY <1>1, <1>2, <1>3, <1>4, <1>5, <1>6, <1>7 DEF Produce

LEMMA ConsumerIndexStep ==
  ASSUME ShapeInv, NEW c \in Consumer, Consume(c)
  PROVE  IndexInv' /\ Larger
<1>0. IndexInv /\ ConsumerInv
  BY DEF ShapeInv
<1>1. CASE Unlink(c)
  <2>1. consumer[c].entry \in DOMAIN entries
    BY <1>0, <1>1 DEF Unlink, ConsumerInv, At
  <2>2. /\ entries' = [entries EXCEPT ![consumer[c].entry].value = None]
        /\ UNCHANGED <<headers, slots, emptied>>
    BY <1>1 DEF Unlink, Unlinked, memory
  <2>3. IndexInv'
    BY Zenon, <1>0, <2>1, <2>2, EntryWritten
  <2>. QED
    BY <1>0, <2>2, <2>3, SameIndex
<1>2. CASE ~Unlink(c)
  <2>1. UNCHANGED <<headers, entries>>
    BY <1>2 DEF Consume, Look, Count, Claim, Overcommit, LoadHeader,
       LoadTail, LoadKey, LoadBlock, Move, SetEmpty, Recycle, index
  <2>2. slots' \in [Block -> [0..BlockSize-1 -> Item \cup {None}]]
    <3>1. CASE Move(c)
      BY <1>0, <3>1 DEF Move, IndexInv
    <3>2. CASE ~Move(c)
      <4>1. slots' = slots
        BY <1>2, <3>2 DEF Consume, Look, Count, Claim, Overcommit, LoadHeader,
           LoadTail, LoadKey, LoadBlock, SetEmpty, Recycle, memory
      <4>. QED
        BY <1>0, <4>1 DEF IndexInv
    <3>. QED
      BY <3>1, <3>2
  <2>3. emptied' \in [Block -> Nat]
    <3>1. CASE SetEmpty(c)
      <4>1. emptied \in [Block -> Nat]
        BY <1>0 DEF IndexInv
      <4>2. emptied' = [emptied EXCEPT ![consumer[c].block] = @ + 1]
        BY <3>1 DEF SetEmpty
      <4>3. \A b \in Block : emptied[b] + 1 \in Nat
        BY <4>1
      <4>. QED
        BY <4>1, <4>2, <4>3
    <3>2. CASE ~SetEmpty(c)
      <4>1. emptied' = emptied
        BY <1>2, <3>2 DEF Consume, Look, Count, Claim, Overcommit, LoadHeader,
           LoadTail, LoadKey, LoadBlock, Move, Recycle, memory
      <4>. QED
        BY <1>0, <4>1 DEF IndexInv
    <3>. QED
      BY <3>1, <3>2
  <2>. QED
    BY <1>0, <2>1, <2>2, <2>3, MemoryWritten, SameIndex
<1>. QED
  BY <1>1, <1>2

LEMMA EndIndexStep ==
  ASSUME ShapeInv, CountInv, Drain \/ Destroy
  PROVE  /\ IndexInv'
         /\ Drain => headers' = headers
<1>0. IndexInv
  BY DEF ShapeInv
<1>1. CASE Drain
  <2>1. headers' = headers
    BY <1>1 DEF Drain
  <2>2. entries' \in Seq(EntryType) /\ Len(entries') = Len(entries)
    <3>1. PICK empty :
            entries' = [e \in DOMAIN entries |->
                          IF entries[e].value \in empty
                          THEN [entries[e] EXCEPT !.value = None]
                          ELSE entries[e]]
      BY <1>1 DEF Drain
    <3>2. \A e \in DOMAIN entries :
            /\ entries[e] \in EntryType
            /\ [entries[e] EXCEPT !.value = None] \in EntryType
      <4>1. \A e \in DOMAIN entries : entries[e] \in EntryType
        BY <1>0 DEF IndexInv
      <4>2. \A r \in EntryType : [r EXCEPT !.value = None] \in EntryType
        BY DEF EntryType
      <4>. QED
        BY <4>1, <4>2
    <3>3. entries' \in [DOMAIN entries -> EntryType]
      BY <3>1, <3>2
    <3>4. DOMAIN entries = 1..Len(entries) /\ Len(entries) \in Nat
      BY <1>0 DEF IndexInv
    <3>. QED
      BY <3>3, <3>4
  <2>3. HeaderSet' = HeaderSet
    BY <2>2 DEF HeaderSet, HeaderType
  <2>4. headers' \in Seq(HeaderSet')
    BY <1>0, <2>1, <2>3 DEF IndexInv, HeaderSet
  <2>5. slots' \in [Block -> [0..BlockSize-1 -> Item \cup {None}]]
    BY <1>0, <1>1 DEF Drain, IndexInv
  <2>6. emptied' \in [Block -> Nat]
    <3>. DEFINE n == IF BulkAvailable < SizeApprox
                     THEN BulkAvailable ELSE SizeApprox
                taken == headIndex..headIndex + n - 1
                more(b) == Cardinality({i \in taken : BlockOf(i) = b})
    <3>1. IsFiniteSet(taken)
      <4>1. headIndex \in Int /\ headIndex + n - 1 \in Int
        BY DEF ShapeInv, CounterInv, BulkAvailable, SizeApprox
      <4>. QED
        BY <4>1, FS_Interval
    <3>2. \A b : more(b) \in Nat
      <4>1. \A b : {i \in taken : BlockOf(i) = b} \subseteq taken
        OBVIOUS
      <4>. QED
        BY <3>1, <4>1, FS_Subset, FS_CardinalityType
    <3>3. emptied' = [b \in Block |-> emptied[b] + more(b)]
      BY <1>1 DEF Drain
    <3>4. emptied \in [Block -> Nat]
      BY <1>0 DEF IndexInv
    <3>. HIDE DEF more
    <3>5. \A b \in Block : emptied[b] + more(b) \in Nat
      BY <3>2, <3>4
    <3>. QED
      BY <3>3, <3>5
  <2>. QED
    BY <2>1, <2>2, <2>4, <2>5, <2>6 DEF IndexInv, HeaderSet
<1>2. CASE Destroy
  <2>1. entries' = <<>> /\ headers' = <<>> /\ emptied' = emptied
    BY <1>2 DEF Destroy
  <2>2. slots' \in [Block -> [0..BlockSize-1 -> Item \cup {None}]]
    BY <1>0, <1>2 DEF Destroy, IndexInv
  <2>3. phase' = "destroyed"
    BY <1>2 DEF Destroy
  <2>. QED
    BY <1>0, <2>1, <2>2, <2>3, <1>2 DEF IndexInv, Drain
<1>. QED
  BY <1>1, <1>2

LEMMA ProducerStep ==
  ASSUME ShapeInv, CountInv, Next
  PROVE  ProducerInv'
<1>0. IndexInv /\ ProducerInv
  BY DEF ShapeInv
<1>1. CASE Produce
  <2>0. phase = "alive" /\ phase' = "alive" /\ Larger /\ IndexInv'
    BY <1>1, InUse, ProducerIndexStep
  <2>1. producer' \in ProducerType
    <3>1. producer \in ProducerType /\ MaxEnqueue \in Nat
      BY <1>0, Sizes DEF ProducerInv
    <3>2. CASE Enqueue
      <4>1. PICK label \in {"insert", "construct"} :
              producer' = [producer EXCEPT !.item = @ + 1, !.pc = label]
        BY <3>2 DEF Enqueue
      <4>2. producer.item + 1 \in 0..MaxEnqueue
        BY <3>1, <3>2 DEF Enqueue, ProducerType
      <4>. QED
        BY <3>1, <4>1, <4>2 DEF ProducerType, ProducerLabel
    <3>3. CASE InsertKey
      <4>1. PICK e : /\ e = NextEntry(Current)
                     /\ producer' = [producer EXCEPT !.pc = "advance",
                                                     !.entry = e]
        BY <3>3 DEF InsertKey
      <4>2. e \in Nat
        <5>1. e \in DOMAIN entries
          BY <1>0, <3>3, <4>1, CurrentRing DEF InsertKey
        <5>. QED
          BY <1>0, <5>1 DEF IndexInv
      <4>. QED
        BY <3>1, <4>1, <4>2 DEF ProducerType, ProducerLabel
    <3>4. ASSUME NEW b \in Block, Requisition(b)
          PROVE  producer' \in ProducerType
      BY <3>1, <3>4 DEF Requisition, ProducerType, ProducerLabel
    <3>5. CASE AdvanceTail \/ InsertFails \/ RequisitionFails \/ Construct
               \/ Publish \/ GrowIndex
      BY <3>1, <3>5 DEF AdvanceTail, InsertFails, RequisitionFails, Construct,
         Publish, GrowIndex, ProducerType, ProducerLabel
    <3>6. CASE ClearEntry \/ Link
      <4>1. CASE ClearEntry
        BY <3>1, <4>1 DEF ClearEntry, ProducerType, ProducerLabel
      <4>2. CASE Link
        <5>1. producer' = [producer EXCEPT !.pc = "construct", !.entry = 0,
                                           !.block = None]
          BY <4>2 DEF Link
        <5>. QED
          BY <3>1, <5>1 DEF ProducerType, ProducerLabel
      <4>. QED
        BY <3>6, <4>1, <4>2
    <3>. QED
      BY <1>1, <3>2, <3>3, <3>4, <3>5, <3>6 DEF Produce
  <2>2. /\ producer'.pc # "idle" => producer'.item # 0
        /\ producer'.pc \in {"advance", "requisition", "clear", "link"} =>
             producer'.entry \in DOMAIN entries
        /\ producer'.pc = "link" => producer'.block \in Block
    <3>1. producer \in ProducerType /\ MaxEnqueue \in Nat
      BY <1>0, Sizes DEF ProducerInv
    <3>2. CASE Enqueue
      BY <3>1, <3>2 DEF Enqueue, ProducerType, ProducerLabel
    <3>3. CASE InsertKey
      <4>1. PICK e : /\ e = NextEntry(Current)
                     /\ producer' = [producer EXCEPT !.pc = "advance",
                                                     !.entry = e]
                     /\ producer.pc = "insert"
        BY <3>3 DEF InsertKey
      <4>2. e \in DOMAIN entries
        BY <1>0, <3>3, <4>1, CurrentRing DEF InsertKey
      <4>. QED
        BY <1>0, <3>1, <4>1, <4>2 DEF ProducerType, ProducerInv
    <3>4. ASSUME NEW b \in Block, Requisition(b)
          PROVE  /\ producer'.pc # "idle" => producer'.item # 0
                 /\ producer'.pc \in {"advance", "requisition", "clear", "link"}
                      => producer'.entry \in DOMAIN entries
                 /\ producer'.pc = "link" => producer'.block \in Block
      BY <1>0, <3>1, <3>4 DEF Requisition, ProducerType, ProducerInv
    <3>5. CASE AdvanceTail \/ InsertFails \/ RequisitionFails \/ Construct
               \/ Publish \/ GrowIndex
      BY <1>0, <3>1, <3>5 DEF AdvanceTail, InsertFails, RequisitionFails,
         Construct, Publish, GrowIndex, ProducerType, ProducerInv
    <3>6. CASE ClearEntry \/ Link
      BY <1>0, <3>1, <3>6 DEF ClearEntry, Link, ProducerType, ProducerInv
    <3>. QED
      BY <1>1, <3>2, <3>3, <3>4, <3>5, <3>6 DEF Produce
  <2>3. tailIndex' # 0 \/ producer'.pc \notin {"idle", "insert"} => headers' # <<>>
    <3>1. headers # <<>> => headers' # <<>>
      BY <1>0, <2>0, Headers DEF Larger
    <3>2. CASE InsertKey
      BY <3>1, <3>2 DEF InsertKey
    <3>3. CASE Enqueue
      <4>1. tailIndex # 0 \/ producer'.pc = "insert"
        <5>1. tailIndex = 0 => Offset(tailIndex) = 0
          BY Sizes DEF Offset
        <5>. QED
          BY <1>0, <3>3, <5>1 DEF Enqueue, ProducerInv, ProducerType
      <4>2. tailIndex' = tailIndex
        BY <3>3 DEF Enqueue, counters
      <4>. QED
        BY <1>0, <2>0, <3>1, <4>1, <4>2 DEF ProducerInv
    <3>4. CASE ~Enqueue /\ ~InsertKey /\ ~Publish
      <4>1. tailIndex' = tailIndex
        BY <1>1, <3>4 DEF Produce, AdvanceTail, GrowIndex, InsertFails,
           Requisition, RequisitionFails, ClearEntry, Link, Construct, counters
      <4>2. producer.pc = "insert" => producer'.pc \in {"insert", "idle"}
        BY <1>0, <1>1, <3>4 DEF Produce, AdvanceTail, GrowIndex, InsertFails,
           Requisition, RequisitionFails, ClearEntry, Link, Construct,
           ProducerInv, ProducerType
      <4>3. producer.pc # "idle"
        BY <1>1, <3>4 DEF Produce, AdvanceTail, GrowIndex, InsertFails,
           Requisition, RequisitionFails, ClearEntry, Link, Construct
      <4>. QED
        BY <1>0, <2>0, <3>1, <4>1, <4>2, <4>3 DEF ProducerInv
    <3>5. CASE Publish
      BY <1>0, <2>0, <3>1, <3>5 DEF Publish, ProducerInv
    <3>. QED
      BY <3>2, <3>3, <3>4, <3>5
  <2>. QED
    BY <2>0, <2>1, <2>2, <2>3 DEF ProducerInv, Larger, ProducerType
<1>2. ASSUME NEW c \in Consumer, Consume(c)
      PROVE  ProducerInv'
  <2>1. Larger /\ IndexInv'
    BY <1>2, ConsumerIndexStep
  <2>2. UNCHANGED <<producer, tailIndex, phase>>
    BY <1>2, Zenon DEF Consume, Look, Count, Claim, Overcommit, LoadHeader, LoadTail,
       LoadKey, LoadBlock, Move, SetEmpty, Unlink, Recycle, counters, history
  <2>3. headers # <<>> => headers' # <<>>
    BY <1>0, <2>1, Headers DEF Larger
  <2>. QED
    BY <1>0, <2>1, <2>2, <2>3 DEF ProducerInv, Larger, ProducerType
<1>3. CASE Drain
  BY <1>0, <1>3, EndIndexStep DEF Drain, Quiet, ProducerInv, ProducerType
<1>4. CASE Destroy
  BY <1>0, <1>4 DEF Destroy, Quiet, ProducerInv, ProducerType, counters
<1>. QED
  BY <1>1, <1>2, <1>3, <1>4 DEF Next

\* What a dequeue's record must satisfy.
Fits(r) ==
  /\ r \in ConsumerType
  /\ r.pc \notin {"idle", "count", "claim"} => r.index < headIndex
  /\ r.pc \in {"tail", "key"} => r.header \in DOMAIN headers
  /\ r.pc = "key" => r.tail \in DOMAIN headers[r.header].index
  /\ r.pc \in {"block", "move", "empty", "unlink"} => r.entry \in DOMAIN entries
  /\ r.pc \in {"empty", "unlink", "recycle"} => r.block \in Block

LEMMA ConsumersFit ==
  ConsumerInv <=> /\ consumer \in [Consumer -> ConsumerType]
                  /\ \A c \in Consumer : Fits(consumer[c])
BY DEF ConsumerInv, Fits, Claimed, At

LEMMA StillFits ==
  ASSUME ShapeInv, Larger, headIndex' \in Nat, headIndex' >= headIndex,
         NEW r, Fits(r)
  PROVE  Fits(r)'
<1>1. headIndex \in Nat /\ r \in ConsumerType
  BY DEF ShapeInv, CounterInv, Fits
<1>2. r.index < headIndex => r.index < headIndex'
  BY <1>1 DEF ConsumerType
<1>. QED
  BY <1>1, <1>2 DEF Fits, Larger, ConsumerType

LEMMA RecordWritten ==
  ASSUME ShapeInv, Larger, headIndex' \in Nat, headIndex' >= headIndex,
         NEW c \in Consumer, NEW r, Step(c, r), Fits(r)'
  PROVE  ConsumerInv'
<1>1. /\ consumer \in [Consumer -> ConsumerType]
      /\ \A d \in Consumer : Fits(consumer[d])
  BY ConsumersFit DEF ShapeInv
<1>2. consumer' = [consumer EXCEPT ![c] = r]
  BY DEF Step
<1>3. ASSUME NEW d \in Consumer
      PROVE  \E s : consumer'[d] = s /\ Fits(s)'
  <2>1. CASE d = c
    BY <2>1, <1>1, <1>2
  <2>2. CASE d # c
    <3>1. PICK s : s = consumer[d]
      OBVIOUS
    <3>2. Fits(s)
      BY <1>1, <3>1
    <3>3. Fits(s)'
      BY <3>2, StillFits
    <3>4. consumer'[d] = s
      BY <2>2, <1>1, <1>2, <3>1
    <3>. QED
      BY <3>3, <3>4
  <2>. QED
    BY <2>1, <2>2
<1>4. ASSUME NEW d \in Consumer
      PROVE  Fits(consumer[d])'
  <2>1. PICK s : consumer'[d] = s /\ Fits(s)'
    BY <1>3
  <2>. QED
    BY <2>1 DEF Fits
<1>5. consumer' \in [Consumer -> ConsumerType]
  <2>1. r \in ConsumerType
    BY DEF Fits, ConsumerType
  <2>. QED
    BY <1>1, <1>2, <2>1
<1>. QED
  BY <1>4, <1>5 DEF ConsumerInv, Fits, Claimed, At

LEMMA ConsumerStep ==
  ASSUME ShapeInv, CountInv, Next
  PROVE  ConsumerInv'
<1>0. /\ IndexInv /\ ProducerInv /\ ConsumerInv
      /\ headIndex \in Nat /\ tailIndex \in Nat /\ optimistic \in Nat
      /\ overcommit \in Nat /\ headIndex <= tailIndex
  BY AccountingHolds DEF ShapeInv, CounterInv, Accounting
<1>1. CASE Produce
  <2>1. Larger
    BY <1>1, ProducerIndexStep
  <2>2. UNCHANGED <<consumer, headIndex>>
    BY <1>1 DEF Produce, Enqueue, InsertKey, AdvanceTail, GrowIndex,
       InsertFails, Requisition, RequisitionFails, ClearEntry, Link,
       Construct, Publish, counters
  <2>3. ASSUME NEW c \in Consumer
        PROVE  Fits(consumer[c])'
    <3>1. PICK s : s = consumer[c]
      OBVIOUS
    <3>2. Fits(s)
      BY <1>0, <3>1, ConsumersFit
    <3>3. Fits(s)'
      BY <1>0, <2>1, <2>2, <3>2, StillFits
    <3>. QED
      BY <2>2, <3>1, <3>3 DEF Fits
  <2>4. consumer' \in [Consumer -> ConsumerType]
    BY <1>0, <2>2 DEF ConsumerInv, ConsumerType
  <2>. QED
    BY <2>3, <2>4 DEF ConsumerInv, Fits, Claimed, At
<1>2. ASSUME NEW c \in Consumer, Consume(c)
      PROVE  ConsumerInv'
  <2>0. Larger /\ IndexInv' /\ phase = "alive"
    BY <1>2, ConsumerIndexStep, InUse
  <2>1. PICK s : s = consumer[c]
    OBVIOUS
  <2>2. s \in ConsumerType /\ Fits(s)
    BY <1>0, <2>1, ConsumersFit
  <2>3. headIndex' \in Nat /\ headIndex' >= headIndex
    <3>1. headIndex' = headIndex \/ headIndex' = headIndex + 1
      BY <1>2 DEF Consume, Look, Count, Claim, Overcommit, LoadHeader,
         LoadTail, LoadKey, LoadBlock, Move, SetEmpty, Unlink, Recycle,
         counters
    <3>. QED
      BY <1>0, <3>1
  <2>. SUFFICES \E r : Step(c, r) /\ Fits(r)'
    BY <2>0, <2>3, RecordWritten
  <2>4. CASE Look(c)
    <3>1. PICK over \in 0..overcommit :
            Step(c, [s EXCEPT !.pc = "count", !.over = over])
      BY <2>1, <2>4 DEF Look
    <3>2. PICK r : r = [s EXCEPT !.pc = "count", !.over = over]
      OBVIOUS
    <3>3. r \in ConsumerType /\ r.pc = "count"
      <4>1. over \in Nat
        BY <1>0
      <4>. QED
        BY <2>2, <3>2, <4>1 DEF ConsumerType, ConsumerLabel
    <3>. QED
      BY <3>1, <3>2, <3>3 DEF Fits, ConsumerType
  <2>5. CASE Count(c)
    <3>1. PICK r : r = [s EXCEPT !.pc = "claim", !.count = optimistic]
      OBVIOUS
    <3>2. r \in ConsumerType /\ r.pc = "claim"
      BY <1>0, <2>2, <3>1 DEF ConsumerType, ConsumerLabel
    <3>. QED
      BY <2>1, <2>5, <3>1, <3>2 DEF Fits, ConsumerType, Count
  <2>6. CASE Claim(c)
    <3>1. PICK r : r = [s EXCEPT !.pc = "header", !.index = headIndex]
      OBVIOUS
    <3>2. r \in ConsumerType /\ r.pc = "header" /\ r.index = headIndex
      BY <1>0, <2>2, <3>1 DEF ConsumerType, ConsumerLabel
    <3>3. headIndex' = headIndex + 1
      BY <2>6 DEF Claim
    <3>4. Step(c, r)
      BY <2>1, <2>6, <3>1 DEF Claim
    <3>5. r.index < headIndex'
      BY <1>0, <3>2, <3>3
    <3>. QED
      BY <3>2, <3>4, <3>5 DEF Fits, ConsumerType
  <2>7. CASE LoadHeader(c)
    <3>1. headers # <<>>
      <4>1. s.index < headIndex /\ s.index \in Nat
        BY <2>1, <2>2, <2>7 DEF Fits, LoadHeader, At, ConsumerType
      <4>2. tailIndex # 0
        BY <1>0, <4>1
      <4>. QED
        BY <1>0, <2>0, <4>2 DEF ProducerInv
    <3>2. Len(headers) \in DOMAIN headers /\ Len(headers) \in Nat
      BY <1>0, <3>1, Headers
    <3>3. PICK r : r = [s EXCEPT !.pc = "tail", !.header = Len(headers)]
      OBVIOUS
    <3>4. /\ r \in ConsumerType /\ r.pc = "tail" /\ r.header = Len(headers)
          /\ r.index = s.index
      BY <2>2, <3>2, <3>3 DEF ConsumerType, ConsumerLabel
    <3>5. UNCHANGED <<headIndex, headers>> /\ s.pc = "header"
      BY <2>1, <2>7 DEF LoadHeader, counters, index, At
    <3>. QED
      BY <2>1, <2>2, <2>7, <3>2, <3>3, <3>4, <3>5
         DEF Fits, ConsumerType, LoadHeader
  <2>8. CASE LoadTail(c)
    <3>1. s.pc = "tail" /\ UNCHANGED <<headIndex, headers>>
      BY <2>1, <2>8 DEF LoadTail, counters, index, At
    <3>2. s.header \in DOMAIN headers
      BY <2>2, <3>1 DEF Fits
    <3>3. PICK t : t = headers[s.header].tail
      OBVIOUS
    <3>4. t \in DOMAIN headers[s.header].index /\ t \in Nat
      <4>1. PICK n \in Nat \ {0} : headers[s.header] \in HeaderType(n)
        BY <1>0, <3>2, HeaderSize
      <4>. QED
        BY <3>3, <4>1, HeaderCapacity
    <3>5. PICK r : r = [s EXCEPT !.pc = "key", !.tail = t]
      OBVIOUS
    <3>6. /\ r \in ConsumerType /\ r.pc = "key" /\ r.header = s.header
          /\ r.index = s.index /\ r.tail = t
      BY <2>2, <3>4, <3>5 DEF ConsumerType, ConsumerLabel
    <3>7. Step(c, r)
      BY <2>1, <2>8, <3>3, <3>5 DEF LoadTail
    <3>. QED
      BY <2>2, <3>1, <3>2, <3>4, <3>6, <3>7 DEF Fits, ConsumerType
  <2>9. CASE LoadKey(c)
    <3>1. s.pc = "key" /\ UNCHANGED <<headIndex, entries>>
      BY <2>1, <2>9 DEF LoadKey, counters, index, At
    <3>2. s.header \in DOMAIN headers /\ s.tail \in DOMAIN headers[s.header].index
      BY <2>2, <3>1 DEF Fits
    <3>. DEFINE h == headers[s.header]
    <3>3. PICK e : /\ e = h.index[Position(h, s.tail, TailKey(c), s.index)]
                   /\ Step(c, [s EXCEPT !.pc = "block", !.entry = e])
      BY <2>1, <2>9, Zenon DEF LoadKey
    <3>4. e \in DOMAIN entries /\ e \in Nat
      <4>1. PICK n \in Nat \ {0} : h \in HeaderType(n)
        BY <1>0, <3>2, HeaderSize
      <4>2. /\ Capacity(h) = n /\ DOMAIN h.index = 0..n-1
            /\ \A p \in 0..n-1 : h.index[p] \in 1..Len(entries)
        BY <4>1, HeaderCapacity
      <4>3. TailKey(c) \in Int
        <5>1. TailKey(c) = entries[h.index[s.tail]].key
          BY <2>1 DEF TailKey
        <5>2. h.index[s.tail] \in DOMAIN entries
          BY <1>0, <3>2, <4>2 DEF IndexInv
        <5>3. entries \in Seq(EntryType)
          BY <1>0 DEF IndexInv
        <5>4. entries[h.index[s.tail]] \in EntryType
          BY <5>2, <5>3
        <5>. QED
          BY <5>1, <5>4 DEF EntryType, InvalidKey
      <4>4. Position(h, s.tail, TailKey(c), s.index) \in 0..n-1
        <5>1. s.tail \in Int /\ s.index \in Int
          BY <2>2 DEF ConsumerType
        <5>2. Base(s.index) \in Int
          BY <5>1, Sizes DEF Base, Offset
        <5>3. s.tail + (Base(s.index) - TailKey(c)) \div BlockSize \in Int
          BY <4>3, <5>1, <5>2, Sizes
        <5>. QED
          BY <4>2, <5>3, ModRange DEF Position
      <4>5. e \in 1..Len(entries)
        BY <3>3, <4>2, <4>4
      <4>. QED
        BY <1>0, <4>5 DEF IndexInv
    <3>5. PICK r : r = [s EXCEPT !.pc = "block", !.entry = e]
      OBVIOUS
    <3>6. /\ r \in ConsumerType /\ r.pc = "block"
          /\ r.index = s.index /\ r.entry = e
      BY <2>2, <3>4, <3>5 DEF ConsumerType, ConsumerLabel
    <3>. QED
      BY <2>2, <3>1, <3>3, <3>4, <3>5, <3>6 DEF Fits, ConsumerType
  <2>10. CASE LoadBlock(c)
    <3>1. s.pc = "block" /\ UNCHANGED <<headIndex, entries>>
      BY <2>1, <2>10 DEF LoadBlock, counters, index, At
    <3>2. PICK b : b = entries[s.entry].value
      OBVIOUS
    <3>3. b \in Block \cup {None} /\ s.entry \in DOMAIN entries
      <4>1. s.entry \in DOMAIN entries
        BY <2>2, <3>1 DEF Fits
      <4>2. entries \in Seq(EntryType)
        BY <1>0 DEF IndexInv
      <4>3. entries[s.entry] \in EntryType
        BY <4>1, <4>2
      <4>. QED
        BY <3>2, <4>1, <4>3 DEF EntryType
    <3>4. PICK r : r = [s EXCEPT !.pc = "move", !.block = b]
      OBVIOUS
    <3>5. /\ r \in ConsumerType /\ r.pc = "move"
          /\ r.index = s.index /\ r.entry = s.entry
      BY <2>2, <3>3, <3>4 DEF ConsumerType, ConsumerLabel
    <3>6. Step(c, r)
      BY <2>1, <2>10, <3>2, <3>4 DEF LoadBlock
    <3>. QED
      BY <2>2, <3>1, <3>3, <3>5, <3>6 DEF Fits, ConsumerType
  <2>11. CASE Move(c)
    <3>1. s.pc = "move" /\ UNCHANGED <<headIndex, entries>> /\ s.block # None
      BY <2>1, <2>11 DEF Move, counters, index, At
    <3>2. PICK x : x = slots[s.block][Offset(s.index)]
      OBVIOUS
    <3>3. s.block \in Block
      BY <2>2, <3>1 DEF ConsumerType
    <3>4. x \in Item \cup {None}
      <4>1. Offset(s.index) \in 0..BlockSize-1
        <5>1. s.index \in Int /\ BlockSize \in Nat \ {0}
          BY <2>2, Sizes DEF ConsumerType
        <5>. QED
          BY <5>1, ModRange DEF Offset
      <4>2. slots \in [Block -> [0..BlockSize-1 -> Item \cup {None}]]
        BY <1>0 DEF IndexInv
      <4>. QED
        BY <3>2, <3>3, <4>1, <4>2
    <3>5. PICK r : r = [s EXCEPT !.pc = "empty", !.item = x]
      OBVIOUS
    <3>6. /\ r \in ConsumerType /\ r.pc = "empty" /\ r.block = s.block
          /\ r.index = s.index /\ r.entry = s.entry
      BY <2>2, <3>4, <3>5 DEF ConsumerType, ConsumerLabel
    <3>7. Step(c, r)
      BY <2>1, <2>11, <3>2, <3>5 DEF Move
    <3>. QED
      BY <2>2, <3>1, <3>3, <3>6, <3>7 DEF Fits, ConsumerType
  <2>12. CASE SetEmpty(c) \/ Unlink(c) \/ Recycle(c) \/ Overcommit(c)
    <3>1. Fits(Idle)'
      BY Sizes DEF Fits, Idle, ConsumerType, ConsumerLabel
    <3>2. CASE Overcommit(c) \/ Recycle(c)
      BY <3>1, <3>2 DEF Overcommit, Recycle
    <3>3. CASE SetEmpty(c)
      <4>1. s.pc = "empty" /\ UNCHANGED <<headIndex, entries>>
        BY <2>1, <3>3 DEF SetEmpty, counters, index, At
      <4>2. PICK r : r = [s EXCEPT !.pc = "unlink"]
        OBVIOUS
      <4>3. /\ r \in ConsumerType /\ r.pc = "unlink" /\ r.block = s.block
            /\ r.index = s.index /\ r.entry = s.entry
        BY <2>2, <4>2 DEF ConsumerType, ConsumerLabel
      <4>4. Fits(r)'
        BY <2>2, <4>1, <4>3 DEF Fits, ConsumerType
      <4>. QED
        BY <2>1, <3>1, <3>3, <4>2, <4>4 DEF SetEmpty
    <3>4. CASE Unlink(c)
      <4>1. s.pc = "unlink" /\ UNCHANGED headIndex
        BY <2>1, <3>4 DEF Unlink, counters, At
      <4>2. PICK r : r = [s EXCEPT !.pc = "recycle"]
        OBVIOUS
      <4>3. /\ r \in ConsumerType /\ r.pc = "recycle" /\ r.block = s.block
            /\ r.index = s.index
        BY <2>2, <4>2 DEF ConsumerType, ConsumerLabel
      <4>4. Fits(r)'
        BY <2>2, <4>1, <4>3 DEF Fits, ConsumerType
      <4>. QED
        BY <2>1, <3>4, <4>2, <4>4 DEF Unlink
    <3>. QED
      BY <2>12, <3>2, <3>3, <3>4
  <2>. QED
    BY <1>2, <2>4, <2>5, <2>6, <2>7, <2>8, <2>9, <2>10, <2>11, <2>12
       DEF Consume
<1>3. CASE Drain \/ Destroy
  <2>1. UNCHANGED consumer /\ Quiet
    BY <1>3 DEF Drain, Destroy
  <2>2. \A c \in Consumer : consumer'[c].pc = "idle"
    BY <2>1 DEF Quiet, At
  <2>3. consumer' \in [Consumer -> ConsumerType]
    BY <1>0, <2>1 DEF ConsumerInv, ConsumerType
  <2>. QED
    BY <2>2, <2>3 DEF ConsumerInv, Claimed, At
<1>. QED
  BY <1>1, <1>2, <1>3 DEF Next

LEMMA ShapeInit == Init => ShapeInv
<1>. SUFFICES ASSUME Init
              PROVE  ShapeInv
  OBVIOUS
<1>1. CounterInv
  BY DEF Init, CounterInv
<1>2. IndexInv
  <2>1. entries \in Seq(EntryType) /\ headers \in Seq(HeaderSet)
    <3>1. CASE entries = <<>> /\ headers = <<>>
      BY <3>1
    <3>2. CASE /\ entries = FreshEntries(InitialIndexSize)
               /\ headers = <<FirstHeader(InitialIndexSize)>>
      <4>. DEFINE n == InitialIndexSize
      <4>1. n \in Nat \ {0}
        BY Sizes
      <4>2. entries \in Seq(EntryType) /\ Len(entries) = n
        BY <3>2, <4>1, FreshType
      <4>3. FirstHeader(n) \in HeaderType(n)
        BY <4>1, <4>2 DEF FirstHeader, HeaderType
      <4>4. FirstHeader(n) \in HeaderSet
        BY <4>1, <4>3 DEF HeaderSet
      <4>. QED
        BY <3>2, <4>2, <4>4
    <3>. QED
      BY <3>1, <3>2 DEF Init
  <2>2. /\ slots \in [Block -> [0..BlockSize-1 -> Item \cup {None}]]
        /\ emptied \in [Block -> Nat]
    BY DEF Init
  <2>. QED
    BY <2>1, <2>2 DEF IndexInv, HeaderSet
<1>3. ProducerInv
  BY Sizes DEF Init, ProducerInv, ProducerType, ProducerLabel
<1>4. ConsumerInv
  BY Sizes DEF Init, ConsumerInv, ConsumerType, ConsumerLabel, Idle, Claimed, At
<1>. QED
  BY <1>1, <1>2, <1>3, <1>4 DEF ShapeInv

LEMMA ShapeStep ==
  ASSUME ShapeInv, CountInv, Next
  PROVE  ShapeInv'
<1>1. IndexInv'
  BY ProducerIndexStep, ConsumerIndexStep, EndIndexStep DEF Next
<1>. QED
  BY <1>1, CounterStep, ProducerStep, ConsumerStep DEF ShapeInv

-----------------------------------------------------------------------------
\* CountInv is inductive.
LEMMA CountInit == Init => CountInv
<1>. SUFFICES ASSUME Init
              PROVE  CountInv
  OBVIOUS
<1>1. Claiming = {} /\ \A c \in Consumer : ~At(c, "count")
  BY DEF Init, Claiming, At, Idle
<1>2. 0..optimistic-1 = {}
  BY DEF Init
<1>3. Outcome({}, {})
  BY <1>1, <1>2, FS_EmptySet DEF Outcome, Init
<1>. QED
  BY <1>1, <1>3 DEF CountInv, Init

LEMMA SubsetOfBefore ==
  ASSUME NEW N \in Nat, NEW G \in SUBSET (0..N-1)
  PROVE  /\ IsFiniteSet(G) /\ Cardinality(G) \in Nat
         /\ \A i : Cardinality(Before(G, i)) \in Nat
         /\ \A H \in SUBSET G : \A i :
              Cardinality(Before(H, i)) <= Cardinality(Before(G, i))
<1>1. IsFiniteSet(0..N-1)
  BY FS_Interval
<1>2. IsFiniteSet(G) /\ Cardinality(G) \in Nat
  BY <1>1, FS_Subset, FS_CardinalityType
<1>3. \A i : IsFiniteSet(Before(G, i)) /\ Cardinality(Before(G, i)) \in Nat
  <2>1. \A i : Before(G, i) \in SUBSET G
    BY DEF Before
  <2>. QED
    BY <1>2, <2>1, FS_Subset, FS_CardinalityType
<1>4. ASSUME NEW H \in SUBSET G, NEW i
      PROVE  Cardinality(Before(H, i)) <= Cardinality(Before(G, i))
  <2>1. Before(H, i) \in SUBSET Before(G, i)
    BY DEF Before
  <2>. QED
    BY <1>3, <2>1, FS_Subset
<1>. QED
  BY <1>2, <1>3, <1>4

\* Steps that touch no counter but perhaps the tail.
LEMMA CountsUnchanged ==
  ASSUME ShapeInv, CountInv, phase = "alive", phase' = "alive",
         UNCHANGED <<headIndex, optimistic, overcommit>>,
         tailIndex' \in Nat, tailIndex' >= tailIndex,
         \A c \in Consumer : At(c, "count")' =>
            /\ At(c, "count") \/ ~At(c, "claim")
            /\ consumer'[c].over <= overcommit,
         \A c \in Consumer : At(c, "claim")' <=> At(c, "claim"),
         \A c \in Consumer : At(c, "claim") => consumer'[c] = consumer[c]
  PROVE  CountInv'
<1>1. PICK K \in SUBSET (0..optimistic-1), G \in SUBSET (0..optimistic-1) :
        Outcome(K, G)
  BY DEF CountInv
<1>2. Claiming' = Claiming /\ \A c \in Claiming : consumer'[c] = consumer[c]
  BY DEF Claiming
<1>3. \A i \in K : i - Cardinality(Before(G, i)) < tailIndex'
  <2>1. ASSUME NEW i \in K
        PROVE  i - Cardinality(Before(G, i)) < tailIndex'
    <3>1. i \in Int /\ tailIndex \in Nat
      BY DEF ShapeInv, CounterInv
    <3>2. Cardinality(Before(G, i)) \in Nat
      BY SubsetOfBefore DEF ShapeInv, CounterInv
    <3>3. i - Cardinality(Before(G, i)) < tailIndex
      BY <1>1 DEF Outcome
    <3>. QED
      BY <3>1, <3>2, <3>3
  <2>. QED
    BY <2>1
<1>4. Outcome(K, G)'
  BY <1>1, <1>2, <1>3 DEF Outcome
<1>. QED
  BY <1>4 DEF CountInv

LEMMA CountCounts ==
  ASSUME ShapeInv, CountInv, NEW c \in Consumer, Count(c)
  PROVE  CountInv'
<1>0. /\ phase = "alive" /\ phase' = "alive"
      /\ tailIndex \in Nat /\ optimistic \in Nat /\ overcommit \in Nat
      /\ consumer \in [Consumer -> ConsumerType]
  BY InUse DEF ShapeInv, CounterInv, ConsumerInv, Consume
<1>1. PICK K \in SUBSET (0..optimistic-1), G \in SUBSET (0..optimistic-1) :
        Outcome(K, G)
  BY <1>0 DEF CountInv
<1>2. PICK r : r = [consumer[c] EXCEPT !.pc = "claim", !.count = optimistic]
  OBVIOUS
<1>3. /\ consumer' = [consumer EXCEPT ![c] = r]
      /\ r.pc = "claim" /\ r.count = optimistic /\ r.over = consumer[c].over
      /\ optimistic' = optimistic + 1
      /\ UNCHANGED <<tailIndex, headIndex, overcommit>>
      /\ consumer[c].pc = "count"
  <2>1. consumer[c] \in ConsumerType
    BY <1>0
  <2>. QED
    BY <1>2, <2>1 DEF Count, Step, At, ConsumerType
<1>4. /\ Claiming' = Claiming \cup {c} /\ c \notin Claiming
      /\ consumer'[c] = r
      /\ \A d \in Consumer \ {c} : consumer'[d] = consumer[d]
      /\ \A d \in Claiming : d # c
  BY <1>0, <1>3 DEF Claiming, At
<1>5. Before(G, optimistic) = G
  <2>1. \A g \in G : g \in 0..optimistic-1
    OBVIOUS
  <2>2. \A g \in G : g < optimistic
    BY <1>0, <2>1
  <2>. QED
    BY <2>2 DEF Before
<1>6. r.over <= Cardinality(Before(G, optimistic))
  <2>1. Cardinality(G) = overcommit
    BY <1>1 DEF Outcome
  <2>2. consumer[c].over <= overcommit
    BY <1>3 DEF CountInv, At
  <2>. QED
    BY <1>3, <1>5, <2>1, <2>2
<1>7. /\ 0..optimistic'-1 = (0..optimistic-1) \cup {optimistic}
      /\ optimistic \notin 0..optimistic-1
  BY <1>0, <1>3
<1>8. Outcome(K, G)'
  <2>1. /\ K \subseteq 0..optimistic'-1 /\ G \subseteq 0..optimistic'-1
        /\ K \cap G = {}
        /\ Cardinality(K) = headIndex' /\ Cardinality(G) = overcommit'
        /\ \A i \in K : i - Cardinality(Before(G, i)) < tailIndex'
    BY <1>1, <1>3, <1>7 DEF Outcome
  <2>2. ASSUME NEW d \in Claiming'
        PROVE  /\ consumer'[d].count \in (0..optimistic'-1) \ (K \cup G)
               /\ consumer'[d].over
                    <= Cardinality(Before(G, consumer'[d].count))
    <3>1. CASE d = c
      <4>1. optimistic \in (0..optimistic'-1) \ (K \cup G)
        BY <1>1, <1>7
      <4>. QED
        BY <3>1, <4>1, <1>3, <1>4, <1>6
    <3>2. CASE d # c
      <4>1. d \in Claiming /\ consumer'[d] = consumer[d]
        BY <3>2, <1>4 DEF Claiming
      <4>. QED
        BY <4>1, <1>1, <1>7 DEF Outcome
    <3>. QED
      BY <3>1, <3>2
  <2>3. ASSUME NEW d \in Claiming', NEW e \in Claiming',
               consumer'[d].count = consumer'[e].count
        PROVE  d = e
    <3>1. \A f \in Claiming : /\ consumer'[f] = consumer[f]
                              /\ consumer[f].count \in 0..optimistic-1
      BY <1>1, <1>4 DEF Outcome, Claiming
    <3>2. consumer'[c].count = optimistic
      BY <1>3, <1>4
    <3>3. d = c <=> e = c
      BY <2>3, <3>1, <3>2, <1>4, <1>7
    <3>4. CASE d # c
      <4>1. d \in Claiming /\ e \in Claiming
        BY <3>3, <3>4, <1>4
      <4>. QED
        BY <2>3, <3>1, <4>1, <1>1 DEF Outcome
    <3>. QED
      BY <3>3, <3>4
  <2>4. ASSUME NEW i \in (0..optimistic'-1) \ (K \cup G)
        PROVE  \E d \in Claiming' : consumer'[d].count = i
    <3>1. CASE i = optimistic
      BY <3>1, <1>3, <1>4
    <3>2. CASE i # optimistic
      <4>1. PICK d \in Claiming : consumer[d].count = i
        BY <3>2, <1>1, <1>7 DEF Outcome
      <4>2. consumer'[d] = consumer[d] /\ d \in Claiming'
        BY <4>1, <1>4 DEF Claiming
      <4>. QED
        BY <4>1, <4>2
    <3>. QED
      BY <3>1, <3>2
  <2>. QED
    BY <2>1, <2>2, <2>3, <2>4 DEF Outcome
<1>9. \A d \in Consumer : At(d, "count")' => consumer'[d].over <= overcommit'
  BY <1>3, <1>4 DEF CountInv, At
<1>10. K \in SUBSET (0..optimistic'-1) /\ G \in SUBSET (0..optimistic'-1)
  BY <1>7
<1>. QED
  BY <1>0, <1>8, <1>9, <1>10 DEF CountInv

\* A dequeue that was counted claims an element, or gives up.
LEMMA ChoiceCounts ==
  ASSUME ShapeInv, CountInv, NEW c \in Consumer, Claim(c) \/ Overcommit(c)
  PROVE  CountInv'
<1>0. /\ phase = "alive" /\ phase' = "alive"
      /\ tailIndex \in Nat /\ optimistic \in Nat /\ overcommit \in Nat
      /\ headIndex \in Nat
      /\ consumer \in [Consumer -> ConsumerType]
      /\ consumer[c] \in ConsumerType
  BY InUse DEF ShapeInv, CounterInv, ConsumerInv, Consume
<1>1. PICK K \in SUBSET (0..optimistic-1), G \in SUBSET (0..optimistic-1) :
        Outcome(K, G)
  BY <1>0 DEF CountInv
<1>. DEFINE n == consumer[c].count
<1>2. /\ c \in Claiming
      /\ n \in (0..optimistic-1) \ (K \cup G)
      /\ consumer[c].over <= Cardinality(Before(G, n))
      /\ n \in Nat /\ consumer[c].over \in Nat
  <2>1. c \in Claiming
    BY DEF Claim, Overcommit, Claiming
  <2>. QED
    BY <2>1, <1>0, <1>1 DEF Outcome, ConsumerType
<1>3. /\ Claiming' = Claiming \ {c}
      /\ \A d \in Consumer \ {c} : consumer'[d] = consumer[d]
      /\ ~At(c, "count")'
      /\ UNCHANGED <<tailIndex, optimistic>>
  <2>1. PICK r : consumer' = [consumer EXCEPT ![c] = r] /\ r.pc \in {"idle", "header"}
    <3>1. CASE Claim(c)
      <4>1. PICK r : r = [consumer[c] EXCEPT !.pc = "header",
                                             !.index = headIndex]
        OBVIOUS
      <4>2. r.pc = "header"
        BY <4>1, <1>0 DEF ConsumerType
      <4>3. consumer' = [consumer EXCEPT ![c] = r]
        BY <3>1, <4>1 DEF Claim, Step
      <4>. QED
        BY <4>2, <4>3
    <3>2. CASE ~Claim(c)
      <4>1. PICK r : r = Idle
        OBVIOUS
      <4>2. r.pc = "idle"
        BY <4>1 DEF Idle
      <4>3. consumer' = [consumer EXCEPT ![c] = r]
        BY <3>2, <4>1 DEF Overcommit, Step
      <4>. QED
        BY <4>2, <4>3
    <3>. QED
      BY <3>1, <3>2
  <2>2. UNCHANGED <<tailIndex, optimistic>>
    BY DEF Claim, Overcommit
  <2>. QED
    BY <2>1, <2>2, <1>0 DEF Claiming, At
<1>4. IsFiniteSet(K) /\ IsFiniteSet(G)
  BY <1>0, SubsetOfBefore
<1>. DEFINE K1 == IF Claim(c) THEN K \cup {n} ELSE K
            G1 == IF Claim(c) THEN G ELSE G \cup {n}
<1>5. /\ K1 \in SUBSET (0..optimistic-1) /\ G1 \in SUBSET (0..optimistic-1)
      /\ K1 \cap G1 = {} /\ K1 \cup G1 = K \cup G \cup {n}
      /\ G \in SUBSET G1
  BY <1>1, <1>2 DEF Outcome
<1>6. Cardinality(K1) = headIndex' /\ Cardinality(G1) = overcommit'
  <2>1. Cardinality(K) = headIndex /\ Cardinality(G) = overcommit
    BY <1>1 DEF Outcome
  <2>2. /\ Cardinality(K \cup {n}) = headIndex + 1
        /\ Cardinality(G \cup {n}) = overcommit + 1
    BY <1>2, <1>4, <2>1, FS_AddElement
  <2>3. CASE Claim(c)
    BY <2>1, <2>2, <2>3 DEF Claim
  <2>4. CASE ~Claim(c)
    BY <2>1, <2>2, <2>4 DEF Overcommit, GiveBack
  <2>. QED
    BY <2>3, <2>4
<1>7. \A i : /\ Cardinality(Before(G, i)) \in Nat
             /\ Cardinality(Before(G1, i)) \in Nat
             /\ Cardinality(Before(G, i)) <= Cardinality(Before(G1, i))
  BY <1>0, <1>5, SubsetOfBefore
<1>8. ASSUME NEW i \in K1
      PROVE  i - Cardinality(Before(G1, i)) < tailIndex
  <2>0. i \in Nat
    BY <1>5
  <2>1. CASE i \in K
    <3>1. i - Cardinality(Before(G, i)) < tailIndex
      BY <2>1, <1>1 DEF Outcome
    <3>. QED
      BY <1>0, <1>7, <2>0, <3>1
  <2>2. CASE i \notin K
    <3>1. Claim(c) /\ i = n
      BY <2>2
    <3>2. PICK tail \in 0..tailIndex : n - consumer[c].over < tail
      BY <3>1 DEF Claim, Available
    <3>3. G1 = G
      BY <3>1
    <3>. QED
      BY <3>1, <3>2, <3>3, <1>0, <1>2, <1>7
  <2>. QED
    BY <2>1, <2>2
<1>9. ASSUME NEW d \in Claiming'
      PROVE  /\ consumer'[d].count \in (0..optimistic-1) \ (K1 \cup G1)
             /\ consumer'[d].over
                  <= Cardinality(Before(G1, consumer'[d].count))
  <2>1. d \in Claiming /\ d # c /\ consumer'[d] = consumer[d]
    BY <1>3 DEF Claiming
  <2>2. /\ consumer[d].count \in (0..optimistic-1) \ (K \cup G)
        /\ consumer[d].over <= Cardinality(Before(G, consumer[d].count))
        /\ consumer[d].count # n
    BY <2>1, <1>1, <1>2 DEF Outcome
  <2>3. consumer[d].over \in Nat
    BY <2>1, <1>0 DEF Claiming, ConsumerType
  <2>4. consumer[d].over <= Cardinality(Before(G1, consumer[d].count))
    <3>. DEFINE x == Cardinality(Before(G, consumer[d].count))
                y == Cardinality(Before(G1, consumer[d].count))
    <3>1. x \in Nat /\ y \in Nat /\ x <= y
      BY <1>7
    <3>2. consumer[d].over <= x
      BY <2>2
    <3>. HIDE DEF x, y
    <3>3. consumer[d].over <= y
      BY <2>3, <3>1, <3>2
    <3>. QED
      BY <3>3 DEF y
  <2>. QED
    BY <2>1, <2>2, <2>4, <1>5
<1>10. ASSUME NEW i \in (0..optimistic-1) \ (K1 \cup G1)
       PROVE  \E d \in Claiming' : consumer'[d].count = i
  <2>1. i \in (0..optimistic-1) \ (K \cup G) /\ i # n
    BY <1>5
  <2>2. PICK d \in Claiming : consumer[d].count = i
    BY <2>1, <1>1 DEF Outcome
  <2>3. d # c
    BY <2>1, <2>2
  <2>. QED
    BY <2>2, <2>3, <1>3 DEF Claiming
<1>11. \A d, e \in Claiming' :
          consumer'[d].count = consumer'[e].count => d = e
  <2>1. \A d \in Claiming' : d \in Claiming /\ consumer'[d] = consumer[d]
    BY <1>3 DEF Claiming
  <2>. QED
    BY <2>1, <1>1 DEF Outcome
<1>12. \E KK \in SUBSET (0..optimistic'-1) :
         \E GG \in SUBSET (0..optimistic'-1) : Outcome(KK, GG)'
  <2>1. PICK KK, GG : KK = K1 /\ GG = G1
    OBVIOUS
  <2>. HIDE DEF K1, G1, n
  <2>2. /\ KK \subseteq 0..optimistic'-1 /\ GG \subseteq 0..optimistic'-1
        /\ KK \cap GG = {}
        /\ Cardinality(KK) = headIndex'
        /\ Cardinality(GG) = overcommit'
        /\ \A i \in KK : i - Cardinality(Before(GG, i)) < tailIndex'
    BY <2>1, <1>3, <1>5, <1>6, <1>8
  <2>3. /\ \A d \in Claiming' :
             /\ consumer'[d].count \in (0..optimistic'-1) \ (KK \cup GG)
             /\ consumer'[d].over
                  <= Cardinality(Before(GG, consumer'[d].count))
        /\ \A i \in (0..optimistic'-1) \ (KK \cup GG) :
             \E d \in Claiming' : consumer'[d].count = i
    BY <2>1, <1>3, <1>9, <1>10
  <2>4. Outcome(KK, GG)'
    BY <2>2, <2>3, <1>11 DEF Outcome
  <2>. QED
    BY <2>2, <2>4
<1>13. ASSUME NEW d \in Consumer, At(d, "count")'
       PROVE  consumer'[d].over <= overcommit'
  <2>1. d # c /\ consumer'[d] = consumer[d]
    BY <1>13, <1>3
  <2>2. consumer[d].over <= overcommit /\ consumer[d].over \in Nat
    BY <1>13, <2>1, <1>0 DEF CountInv, At, ConsumerType
  <2>3. overcommit' = overcommit \/ overcommit' = overcommit + 1
    BY DEF Claim, Overcommit, GiveBack
  <2>. QED
    BY <2>1, <2>2, <2>3, <1>0
<1>. QED
  BY <1>0, <1>12, <1>13 DEF CountInv

LEMMA CountStep ==
  ASSUME ShapeInv, CountInv, Next
  PROVE  CountInv'
<1>0. /\ tailIndex \in Nat /\ optimistic \in Nat /\ overcommit \in Nat
      /\ consumer \in [Consumer -> ConsumerType]
  BY DEF ShapeInv, CounterInv, ConsumerInv
<1>1. CASE Produce
  <2>1. phase = "alive" /\ phase' = "alive"
    BY <1>1, InUse
  <2>2. /\ UNCHANGED <<headIndex, optimistic, overcommit, consumer>>
        /\ tailIndex' = tailIndex \/ tailIndex' = tailIndex + 1
    BY <1>1 DEF Produce, Enqueue, InsertKey, AdvanceTail, GrowIndex,
       InsertFails, Requisition, RequisitionFails, ClearEntry, Link,
       Construct, Publish, counters
  <2>3. /\ \A c \in Consumer : At(c, "count")' =>
            /\ At(c, "count") \/ ~At(c, "claim")
            /\ consumer'[c].over <= overcommit
        /\ \A c \in Consumer : At(c, "claim")' <=> At(c, "claim")
        /\ \A c \in Consumer : At(c, "claim") => consumer'[c] = consumer[c]
    BY <2>2 DEF At, CountInv
  <2>4. tailIndex' \in Nat /\ tailIndex' >= tailIndex
    BY <1>0, <2>2
  <2>. QED
    BY <2>1, <2>2, <2>3, <2>4, CountsUnchanged
<1>2. ASSUME NEW c \in Consumer, Consume(c)
      PROVE  CountInv'
  <2>1. phase = "alive" /\ phase' = "alive"
    BY <1>2, InUse
  <2>2. CASE Count(c)
    BY <2>2, CountCounts
  <2>3. CASE Claim(c) \/ Overcommit(c)
    BY <2>3, ChoiceCounts
  <2>4. CASE ~Count(c) /\ ~Claim(c) /\ ~Overcommit(c)
    <3>1. UNCHANGED counters /\ ~At(c, "claim")
      BY <1>2, <2>4 DEF Consume, Look, LoadHeader, LoadTail, LoadKey,
         LoadBlock, Move, SetEmpty, Unlink, Recycle, At
    <3>2. PICK r : /\ consumer' = [consumer EXCEPT ![c] = r]
                   /\ r.pc # "claim"
                   /\ r.pc = "count" => r.over <= overcommit
      <4>1. CASE Look(c)
        <5>1. PICK over \in 0..overcommit :
                Step(c, [consumer[c] EXCEPT !.pc = "count", !.over = over])
          BY <4>1 DEF Look
        <5>2. consumer[c] \in ConsumerType /\ over <= overcommit
          BY <1>0
        <5>3. PICK r : r = [consumer[c] EXCEPT !.pc = "count", !.over = over]
          OBVIOUS
        <5>4. r.pc = "count" /\ r.over = over
          BY <5>2, <5>3 DEF ConsumerType
        <5>5. consumer' = [consumer EXCEPT ![c] = r]
          BY <5>1, <5>3 DEF Step
        <5>. QED
          BY <5>2, <5>4, <5>5
      <4>2. CASE ~Look(c)
        <5>1. consumer[c] \in ConsumerType
          BY <1>0
        <5>2. PICK s : s = consumer[c]
          OBVIOUS
        <5>3. s \in ConsumerType
          BY <5>1, <5>2
        <5>4. CASE LoadHeader(c) \/ LoadTail(c) \/ LoadKey(c) \/ LoadBlock(c)
          <6>1. PICK h, t, e, b, r :
                  /\ \/ r = [s EXCEPT !.pc = "tail", !.header = h]
                     \/ r = [s EXCEPT !.pc = "key", !.tail = t]
                     \/ r = [s EXCEPT !.pc = "block", !.entry = e]
                     \/ r = [s EXCEPT !.pc = "move", !.block = b]
                  /\ consumer' = [consumer EXCEPT ![c] = r]
            <7>1. CASE LoadHeader(c)
              BY <5>2, <7>1 DEF LoadHeader, Step
            <7>2. CASE LoadTail(c)
              BY <5>2, <7>2 DEF LoadTail, Step
            <7>3. CASE LoadKey(c)
              BY <5>2, <7>3 DEF LoadKey, Step
            <7>4. CASE LoadBlock(c)
              BY <5>2, <7>4 DEF LoadBlock, Step
            <7>. QED
              BY Zenon, <5>4, <7>1, <7>2, <7>3, <7>4
          <6>2. r.pc \in {"tail", "key", "block", "move"}
            BY <5>3, <6>1 DEF ConsumerType
          <6>. QED
            BY Zenon, <6>1, <6>2
        <5>5. CASE Move(c) \/ SetEmpty(c) \/ Unlink(c) \/ Recycle(c)
          <6>1. PICK x, r :
                  /\ \/ r = [s EXCEPT !.pc = "empty", !.item = x]
                     \/ r = [s EXCEPT !.pc = "unlink"]
                     \/ r = [s EXCEPT !.pc = "recycle"]
                     \/ r = Idle
                  /\ consumer' = [consumer EXCEPT ![c] = r]
            BY <5>2, <5>5 DEF Move, SetEmpty, Unlink, Recycle, Step
          <6>2. r.pc \in {"empty", "unlink", "recycle", "idle"}
            <7>1. Idle.pc = "idle"
              BY DEF Idle
            <7>2. CASE r # Idle
              BY <5>3, <6>1, <7>2 DEF ConsumerType
            <7>. QED
              BY <7>1, <7>2
          <6>. QED
            BY <6>1, <6>2
        <5>. QED
          BY <1>2, <2>4, <4>2, <5>4, <5>5 DEF Consume
      <4>. QED
        BY <4>1, <4>2
    <3>3. \A d \in Consumer \ {c} : consumer'[d] = consumer[d]
      BY <1>0, <3>2
    <3>4. consumer'[c] = r
      BY <1>0, <3>2
    <3>5. /\ \A d \in Consumer : At(d, "count")' =>
              /\ At(d, "count") \/ ~At(d, "claim")
              /\ consumer'[d].over <= overcommit
          /\ \A d \in Consumer : At(d, "claim")' <=> At(d, "claim")
          /\ \A d \in Consumer : At(d, "claim") => consumer'[d] = consumer[d]
      BY <3>1, <3>2, <3>3, <3>4 DEF At, CountInv
    <3>6. /\ UNCHANGED <<headIndex, optimistic, overcommit>>
          /\ tailIndex' \in Nat /\ tailIndex' >= tailIndex
      BY <1>0, <3>1 DEF counters
    <3>. QED
      BY <2>1, <3>5, <3>6, CountsUnchanged
  <2>. QED
    BY <2>2, <2>3, <2>4
<1>3. CASE Drain
  <2>1. /\ headIndex' = tailIndex
        /\ optimistic' = optimistic + (tailIndex - headIndex)
        /\ optimistic - overcommit = headIndex
    BY <1>3, DrainTakesAll
  <2>2. UNCHANGED <<tailIndex, overcommit, consumer>> /\ phase' = "drained"
    BY <1>3 DEF Drain
  <2>3. \A c \in Consumer : ~At(c, "count")'
    BY <1>3, <2>2 DEF Drain, Quiet, At
  <2>4. headIndex \in Nat
    BY DEF ShapeInv, CounterInv
  <2>. QED
    BY <1>0, <2>1, <2>2, <2>3, <2>4 DEF CountInv
<1>4. CASE Destroy
  <2>1. UNCHANGED <<counters, consumer>> /\ phase' = "destroyed" /\ Quiet
    BY <1>4 DEF Destroy
  <2>2. \A c \in Consumer : ~At(c, "count")' /\ ~At(c, "claim")
    BY <2>1 DEF Quiet, At
  <2>3. Undecided = 0
    <3>1. {c \in Consumer : At(c, "claim")} = {}
      BY <2>2
    <3>. QED
      BY <3>1, FS_EmptySet DEF Undecided
  <2>4. optimistic - overcommit = headIndex /\ headIndex <= tailIndex
    BY <1>0, <2>3, AccountingHolds DEF Accounting, ShapeInv, CounterInv
  <2>. QED
    BY <2>1, <2>2, <2>4 DEF CountInv, counters
<1>. QED
  BY <1>1, <1>2, <1>3, <1>4 DEF Next

LEMMA UnchangedInv ==
  ASSUME IInv, UNCHANGED vars
  PROVE  IInv'
<1>1. CounterInv'
  BY DEF IInv, ShapeInv, CounterInv, Quiet, At, vars, counters, history
<1>2. IndexInv'
  BY DEF IInv, ShapeInv, IndexInv, HeaderType, vars, index, memory
<1>3. ProducerInv'
  BY DEF IInv, ShapeInv, ProducerInv, ProducerType, vars, counters, index,
     history
<1>4. ConsumerInv'
  BY DEF IInv, ShapeInv, ConsumerInv, ConsumerType, Claimed, At, vars,
     counters, index
<1>5. CountInv'
  BY DEF IInv, CountInv, Outcome, Claiming, At, vars, counters, history
<1>. QED
  BY <1>1, <1>2, <1>3, <1>4, <1>5 DEF IInv, ShapeInv

\* The inductive invariant.
THEOREM Invariant == Spec => []IInv
<1>1. Init => IInv
  BY ShapeInit, CountInit DEF IInv
<1>2. IInv /\ [Next]_vars => IInv'
  BY ShapeStep, CountStep, UnchangedInv DEF IInv
<1>. QED
  BY <1>1, <1>2, PTL DEF Spec

\* Every dequeue that passed its first check is accounted for (the two counts
\* of dequeue and headIndex_), so an element that is claimed is there.
THEOREM EveryDequeueAccounted == Spec => []Accounting
<1>1. IInv => Accounting
  BY AccountingHolds DEF IInv
<1>. QED
  BY <1>1, Invariant, PTL

-----------------------------------------------------------------------------
\* The producer's part of the queue is a queue.

\* What a dequeue has got depends on its claim only.
Gets(r) == IF r.pc \in {"idle", "count", "claim"} THEN None
           ELSE IF r.index < Len(items) THEN items[r.index + 1] ELSE 0

LEMMA GotIs == Got = [c \in Consumer |-> Gets(consumer[c])]
BY DEF Got, Gets, Claimed

LEMMA RecordOnly ==
  ASSUME ShapeInv, NEW c \in Consumer, NEW r,
         consumer' = [consumer EXCEPT ![c] = r], items' = items
  PROVE  Got' = [Got EXCEPT ![c] = Gets(r)]
<1>1. consumer \in [Consumer -> ConsumerType]
  BY DEF ShapeInv, ConsumerInv
<1>2. consumer'[c] = r /\ \A d \in Consumer \ {c} : consumer'[d] = consumer[d]
  BY <1>1
<1>3. Got' = [d \in Consumer |-> Gets(consumer[d])']
  BY DEF Got, Gets, Claimed
<1>4. \A d \in Consumer : Gets(consumer[d])' = IF d = c THEN Gets(r)
                                              ELSE Gets(consumer[d])
  BY <1>2 DEF Gets
<1>. QED
  BY <1>3, <1>4, GotIs

LEMMA Queued ==
  ASSUME NEW s \in Seq(Item), NEW h \in Nat, NEW t \in Nat,
         h <= t, t <= Len(s)
  PROVE  /\ SubSeq(s, h + 1, t) \in Seq(Item)
         /\ Len(SubSeq(s, h + 1, t)) = t - h
         /\ \A i \in 1..t - h : SubSeq(s, h + 1, t)[i] = s[h + i]
<1>1. \A i \in h+1..t : s[i] \in Item
  <2>1. \A i \in h+1..t : i \in 1..Len(s)
    OBVIOUS
  <2>. QED
    BY <2>1
<1>. DEFINE q == SubSeq(s, h + 1, t)
<1>2. /\ q \in Seq(Item)
      /\ Len(q) = IF h + 1 <= t THEN t - (h + 1) + 1 ELSE 0
      /\ \A i \in 1..t - (h + 1) + 1 : q[i] = s[(h + 1) + i - 1]
  BY <1>1, SubSeqProperties
<1>. HIDE DEF q
<1>3. Len(q) = t - h
  BY <1>2
<1>4. ASSUME NEW i \in 1..t - h
      PROVE  q[i] = s[h + i]
  <2>1. i \in 1..t - (h + 1) + 1 /\ (h + 1) + i - 1 = h + i
    OBVIOUS
  <2>. QED
    BY <1>2, <2>1
<1>. QED
  BY <1>2, <1>3, <1>4 DEF q

LEMMA PublishIsEnqueue ==
  ASSUME IInv, IInv', Publish
  PROVE  \E x \in Item : Abstract!Enqueue(x)
<1>0. /\ CounterInv /\ CounterInv' /\ ConsumerInv
      /\ headIndex <= tailIndex
      /\ phase = "alive" /\ phase' = "alive"
      /\ headIndex \in Nat /\ tailIndex \in Nat
      /\ items \in Seq(Item) /\ Len(items) = tailIndex
  BY InUse, AccountingHolds
     DEF IInv, ShapeInv, CounterInv, Accounting, Produce
<1>. DEFINE x == producer.item
            q == SubSeq(items, headIndex + 1, tailIndex)
            q1 == SubSeq(items', headIndex + 1, tailIndex + 1)
<1>1. x \in Item
  BY Sizes DEF Publish, IInv, ShapeInv, ProducerInv, ProducerType, Item
<1>2. /\ tailIndex' = tailIndex + 1 /\ headIndex' = headIndex
      /\ items' = Append(items, x) /\ consumer' = consumer
  BY DEF Publish
<1>3. /\ items' \in Seq(Item) /\ items'[tailIndex + 1] = x
      /\ \A i \in 1..tailIndex : items'[i] = items[i]
  BY <1>0, <1>1, <1>2, AppendProperties
<1>4. Waiting = q /\ Waiting' = q1
  BY <1>0, <1>2 DEF Waiting
<1>5. /\ q \in Seq(Item) /\ Len(q) = tailIndex - headIndex
      /\ \A i \in 1..tailIndex - headIndex : q[i] = items[headIndex + i]
  BY <1>0, Queued
<1>6. /\ q1 \in Seq(Item) /\ Len(q1) = tailIndex + 1 - headIndex
      /\ \A i \in 1..tailIndex + 1 - headIndex : q1[i] = items'[headIndex + i]
  <2>1. tailIndex + 1 \in Nat /\ Len(items') = tailIndex + 1
    BY <1>0, <1>2 DEF CounterInv
  <2>. QED
    BY <1>0, <1>3, <2>1, Queued
<1>7. q1 = Append(q, x)
  <2>. HIDE DEF q, q1, x
  <2>1. /\ Append(q, x) \in Seq(Item)
        /\ Len(Append(q, x)) = tailIndex + 1 - headIndex
        /\ \A i \in 1..tailIndex - headIndex : Append(q, x)[i] = q[i]
        /\ Append(q, x)[tailIndex - headIndex + 1] = x
    BY <1>0, <1>1, <1>5, AppendProperties
  <2>2. ASSUME NEW i \in 1..tailIndex + 1 - headIndex
        PROVE  q1[i] = Append(q, x)[i]
    <3>1. CASE i = tailIndex - headIndex + 1
      BY <3>1, <1>0, <1>3, <1>6, <2>1
    <3>2. CASE i # tailIndex - headIndex + 1
      <4>1. i \in 1..tailIndex - headIndex /\ headIndex + i \in 1..tailIndex
        BY <3>2, <1>0
      <4>. QED
        BY <4>1, <1>3, <1>5, <1>6, <2>1
    <3>. QED
      BY <3>1, <3>2
  <2>. QED
    BY <1>6, <2>1, <2>2, SeqEqual
<1>8. Got' = Got
  <2>1. ASSUME NEW c \in Consumer
        PROVE  Gets(consumer[c])' = Gets(consumer[c])
    <3>1. PICK r : r = consumer[c]
      OBVIOUS
    <3>2. r \in ConsumerType /\ Fits(r)
      BY <1>0, <3>1, ConsumersFit
    <3>3. CASE r.pc \in {"idle", "count", "claim"}
      BY <1>2, <3>1, <3>3 DEF Gets
    <3>4. CASE r.pc \notin {"idle", "count", "claim"}
      <4>1. r.index \in Nat /\ r.index < headIndex
        BY <3>2, <3>4 DEF ConsumerType, Fits
      <4>2. Len(items') = tailIndex + 1
        BY <1>0, <1>2 DEF CounterInv
      <4>3. /\ r.index < Len(items) /\ r.index < Len(items')
            /\ r.index + 1 \in 1..tailIndex
        BY <1>0, <4>1, <4>2
      <4>. QED
        BY <1>2, <1>3, <3>1, <3>4, <4>3 DEF Gets
    <3>. QED
      BY <3>3, <3>4
  <2>2. Got' = [c \in Consumer |-> Gets(consumer[c])']
    BY DEF Got, Gets, Claimed
  <2>. QED
    BY <2>1, <2>2, GotIs
<1>. QED
  BY <1>1, <1>4, <1>7, <1>8 DEF Abstract!Enqueue

LEMMA ClaimIsDequeue ==
  ASSUME IInv, Accounting', NEW c \in Consumer, Claim(c)
  PROVE  Abstract!Dequeue(c)
<1>0. /\ CounterInv /\ ShapeInv
      /\ headIndex' <= tailIndex' /\ headIndex' = headIndex + 1
      /\ tailIndex' = tailIndex /\ items' = items
      /\ phase = "alive" /\ phase' = "alive"
      /\ headIndex \in Nat /\ tailIndex \in Nat
      /\ items \in Seq(Item) /\ Len(items) = tailIndex
  BY InUse
     DEF IInv, ShapeInv, CounterInv, Accounting, Consume, Claim, history
<1>. DEFINE q == SubSeq(items, headIndex + 1, tailIndex)
<1>1. headIndex + 1 \in 1..Len(items) /\ tailIndex \in headIndex + 1..Len(items)
  BY <1>0
<1>2. /\ Waiting = q
      /\ Waiting' = SubSeq(items, headIndex + 1 + 1, tailIndex)
  BY <1>0 DEF Waiting
<1>3. /\ Head(q) = items[headIndex + 1]
      /\ Tail(q) = SubSeq(items, headIndex + 1 + 1, tailIndex)
  BY <1>0, <1>1, HeadTailOfSubSeq
<1>4. q # <<>>
  <2>1. Len(q) = tailIndex - headIndex
    BY <1>0, Queued
  <2>. QED
    BY <1>0, <2>1
<1>5. PICK r : r = [consumer[c] EXCEPT !.pc = "header", !.index = headIndex]
  OBVIOUS
<1>6. consumer[c] \in ConsumerType /\ consumer[c].pc = "claim"
  BY <1>0 DEF ShapeInv, ConsumerInv, Claim, At
<1>7. r.pc = "header" /\ r.index = headIndex
  BY <1>5, <1>6 DEF ConsumerType
<1>8. Got' = [Got EXCEPT ![c] = Gets(r)]
  <2>1. consumer' = [consumer EXCEPT ![c] = r]
    BY <1>5 DEF Claim, Step
  <2>. QED
    BY <1>0, <2>1, RecordOnly
<1>9. Gets(r) = items[headIndex + 1]
  BY <1>0, <1>7 DEF Gets
<1>10. Got[c] = None
  BY <1>6, GotIs DEF Gets
<1>. QED
  BY <1>2, <1>3, <1>4, <1>8, <1>9, <1>10 DEF Abstract!Dequeue

LEMMA StepRefines ==
  ASSUME IInv, IInv', Accounting', Next
  PROVE  Abstract!Next \/ UNCHANGED Abstract!vars
<1>0. ShapeInv /\ consumer \in [Consumer -> ConsumerType]
  BY DEF IInv, ShapeInv, ConsumerInv
<1>1. CASE Publish
  BY <1>1, PublishIsEnqueue DEF Abstract!Next
<1>2. CASE Produce /\ ~Publish
  <2>1. UNCHANGED <<headIndex, tailIndex, items, phase, consumer>>
    BY <1>2 DEF Produce, Enqueue, InsertKey, AdvanceTail, GrowIndex,
       InsertFails, Requisition, RequisitionFails, ClearEntry, Link,
       Construct, counters, history
  <2>2. Waiting' = Waiting /\ Got' = Got
    BY <2>1 DEF Waiting, Got, Claimed
  <2>. QED
    BY <2>2 DEF Abstract!vars
<1>3. ASSUME NEW c \in Consumer, Consume(c)
      PROVE  Abstract!Next \/ UNCHANGED Abstract!vars
  <2>1. CASE Claim(c)
    BY <2>1, ClaimIsDequeue DEF Abstract!Next
  <2>2. CASE ~Claim(c)
    <3>1. UNCHANGED <<headIndex, tailIndex, items, phase>>
      BY <1>3, <2>2, Zenon DEF Consume, Look, Count, Overcommit, LoadHeader,
         LoadTail, LoadKey, LoadBlock, Move, SetEmpty, Unlink, Recycle,
         counters, history
    <3>2. Waiting' = Waiting
      BY <3>1 DEF Waiting
    <3>3. PICK s : s = consumer[c]
      OBVIOUS
    <3>4. s \in ConsumerType
      BY <1>0, <3>3
    <3>5. PICK r : consumer' = [consumer EXCEPT ![c] = r]
                   /\ Gets(r) \in {Gets(s), None}
      <4>1. CASE Overcommit(c) \/ Recycle(c)
        <5>1. Step(c, Idle)
          BY <4>1 DEF Overcommit, Recycle
        <5>2. Gets(Idle) = None
          BY DEF Gets, Idle
        <5>. QED
          BY <5>1, <5>2 DEF Step
      <4>2. CASE Look(c)
        <5>1. PICK over :
                Step(c, [s EXCEPT !.pc = "count", !.over = over])
          BY <3>3, <4>2 DEF Look
        <5>2. Gets([s EXCEPT !.pc = "count", !.over = over]) = None
          BY <3>4 DEF Gets, ConsumerType
        <5>. QED
          BY <5>1, <5>2 DEF Step
      <4>3. CASE Count(c)
        <5>1. Step(c, [s EXCEPT !.pc = "claim", !.count = optimistic])
          BY <3>3, <4>3 DEF Count
        <5>2. Gets([s EXCEPT !.pc = "claim", !.count = optimistic]) = None
          BY <3>4 DEF Gets, ConsumerType
        <5>. QED
          BY <5>1, <5>2 DEF Step
      <4>4. CASE LoadHeader(c)
        <5>1. Step(c, [s EXCEPT !.pc = "tail", !.header = Len(headers)])
              /\ s.pc = "header"
          BY <3>3, <4>4 DEF LoadHeader, At
        <5>2. Gets([s EXCEPT !.pc = "tail", !.header = Len(headers)])
                = Gets(s)
          BY <3>4, <5>1 DEF Gets, ConsumerType
        <5>. QED
          BY <5>1, <5>2 DEF Step
      <4>5. CASE LoadTail(c)
        <5>1. PICK t : Step(c, [s EXCEPT !.pc = "key", !.tail = t])
                       /\ s.pc = "tail"
          BY <3>3, <4>5 DEF LoadTail, At
        <5>2. Gets([s EXCEPT !.pc = "key", !.tail = t]) = Gets(s)
          BY <3>4, <5>1 DEF Gets, ConsumerType
        <5>. QED
          BY <5>1, <5>2 DEF Step
      <4>6. CASE LoadKey(c)
        <5>1. PICK e : Step(c, [s EXCEPT !.pc = "block", !.entry = e])
                       /\ s.pc = "key"
          BY <3>3, <4>6 DEF LoadKey, At
        <5>2. Gets([s EXCEPT !.pc = "block", !.entry = e]) = Gets(s)
          BY <3>4, <5>1 DEF Gets, ConsumerType
        <5>. QED
          BY <5>1, <5>2 DEF Step
      <4>7. CASE LoadBlock(c)
        <5>1. PICK b : Step(c, [s EXCEPT !.pc = "move", !.block = b])
                       /\ s.pc = "block"
          BY <3>3, <4>7 DEF LoadBlock, At
        <5>2. Gets([s EXCEPT !.pc = "move", !.block = b]) = Gets(s)
          BY <3>4, <5>1 DEF Gets, ConsumerType
        <5>. QED
          BY <5>1, <5>2 DEF Step
      <4>8. CASE Move(c)
        <5>1. PICK x : Step(c, [s EXCEPT !.pc = "empty", !.item = x])
                       /\ s.pc = "move"
          BY <3>3, <4>8 DEF Move, At
        <5>2. Gets([s EXCEPT !.pc = "empty", !.item = x]) = Gets(s)
          BY <3>4, <5>1 DEF Gets, ConsumerType
        <5>. QED
          BY <5>1, <5>2 DEF Step
      <4>9. CASE SetEmpty(c) \/ Unlink(c)
        <5>1. PICK r : /\ consumer' = [consumer EXCEPT ![c] = r]
                       /\ s.pc \in {"empty", "unlink"}
                       /\ \/ r = [s EXCEPT !.pc = "unlink"]
                          \/ r = [s EXCEPT !.pc = "recycle"]
                          \/ r = Idle
          BY <3>3, <4>9 DEF SetEmpty, Unlink, Step, At
        <5>2. Gets(Idle) = None
          BY DEF Gets, Idle
        <5>3. r # Idle => Gets(r) = Gets(s)
          BY <3>4, <5>1 DEF Gets, ConsumerType
        <5>. QED
          BY <5>1, <5>2, <5>3
      <4>. QED
        BY <1>3, <2>2, <4>1, <4>2, <4>3, <4>4, <4>5, <4>6, <4>7, <4>8, <4>9
           DEF Consume
    <3>6. Got' = [Got EXCEPT ![c] = Gets(r)]
      BY <1>0, <3>1, <3>5, RecordOnly
    <3>7. Got[c] = Gets(s)
      BY <3>3, GotIs
    <3>8. CASE Gets(r) = Gets(s)
      <4>1. Got' = Got
        BY <3>6, <3>7, <3>8, GotIs
      <4>. QED
        BY <3>2, <4>1 DEF Abstract!vars
    <3>9. CASE Gets(r) = None
      <4>1. Abstract!Return(c)
        BY <3>2, <3>6, <3>9 DEF Abstract!Return
      <4>. QED
        BY <4>1 DEF Abstract!Next
    <3>. QED
      BY <3>5, <3>8, <3>9
  <2>. QED
    BY <2>1, <2>2
<1>4. CASE Drain \/ Destroy
  <2>1. phase' # "alive" /\ UNCHANGED <<consumer, items>>
    BY <1>4 DEF Drain, Destroy
  <2>2. Waiting' = <<>> /\ Got' = Got
    BY <2>1 DEF Waiting, Got, Claimed
  <2>. QED
    BY <2>2 DEF Abstract!Next, Abstract!Empty
<1>. QED
  BY <1>1, <1>2, <1>3, <1>4 DEF Next

\* ImplicitProducer implements SubQueue: elements leave in the order in which
\* they were enqueued and each is claimed by one dequeue, which gets it.
THEOREM Refinement == Spec => ImplementsSubQueue
<1>1. Init => Abstract!Init
  <2>. SUFFICES ASSUME Init
                PROVE  Abstract!Init
    OBVIOUS
  <2>1. Waiting = <<>>
    BY SubSeqEmpty DEF Init, Waiting
  <2>2. Got = [c \in Consumer |-> None]
    BY DEF Init, Got, Claimed, At, Idle
  <2>. QED
    BY <2>1, <2>2 DEF Abstract!Init
<1>2. IInv /\ IInv' /\ Accounting' /\ [Next]_vars
        => [Abstract!Next]_(Abstract!vars)
  <2>1. IInv /\ IInv' /\ Accounting' /\ Next => Abstract!Next \/ UNCHANGED Abstract!vars
    BY StepRefines
  <2>2. UNCHANGED vars => UNCHANGED Abstract!vars
    BY DEF vars, Abstract!vars, Waiting, Got, Claimed, counters, history
  <2>. QED
    BY <2>1, <2>2
<1>3. Spec => Abstract!Spec
  BY <1>1, <1>2, Invariant, EveryDequeueAccounted, PTL DEF Spec, Abstract!Spec
<1>. QED
  BY <1>3 DEF ImplementsSubQueue

-----------------------------------------------------------------------------
\* The block index.  Block number j holds the elements from Start(j) on.
Start(j) == j * BlockSize
Number(i) == i \div BlockSize
Elements(j) == Start(j)..Start(j) + BlockSize - 1

\* How many blocks were linked so far, and which block the tail's entry is for.
Blocks ==
  IF Offset(tailIndex) = 0 /\ producer.pc \notin {"construct", "publish"}
  THEN Number(tailIndex) ELSE Number(tailIndex) + 1
Newest ==
  IF producer.pc \in {"requisition", "link"} THEN Blocks ELSE Blocks - 1

\* A dequeue has claimed its element but has not yet counted it, ...
Reading(c) ==
  consumer[c].pc \in {"header", "tail", "key", "block", "move", "empty"}
\* ... and has not moved it, either.
Holding(c) == Reading(c) /\ ~At(c, "empty")

\* The elements of which the block's counter has not heard, those that are
\* still in their slots or not yet there, and those that are there.
Open(i) ==
  i >= headIndex \/ \E c \in Consumer : Reading(c) /\ consumer[c].index = i
Present(i) ==
  i >= headIndex \/ \E c \in Consumer : Holding(c) /\ consumer[c].index = i
Filled(i) == i < tailIndex \/ (i = tailIndex /\ producer.pc = "publish")
Content(i) == IF i < tailIndex THEN items[i + 1] ELSE producer.item
\* What is in an element's slot.
Shown(i) == IF Filled(i) /\ Present(i) THEN Content(i) ELSE None

Wanted(j) == \E i \in Elements(j) : Open(i)
Spent(j) == {i \in Elements(j) : ~Open(i)}
Holds(e, j) == entries[e].key = Start(j) /\ entries[e].value # None

\* Where header k, for some off, has block number j.
Size(k) == Capacity(headers[k])
Place(off, k, j) == (off[k] + j) % Size(k)
EntryOf(off, k, j) == headers[k].index[Place(off, k, j)]

\* In every header, the latest and those that are still read, a key is that of
\* a block number which belongs there: modulo the header's size.
CongruentInv(off) ==
  /\ \A k \in DOMAIN headers : \A p \in DOMAIN headers[k].index :
       LET key == entries[headers[k].index[p]].key
       IN  \/ key = InvalidKey /\ k = Len(headers)
           \/ \E j \in Nat : key = Start(j) /\ p = Place(off, k, j)
  /\ \A k \in DOMAIN headers :
       \E q \in Nat : Size(Len(headers)) = q * Size(k)

\* The latest header has all entries, those of the latest blocks in order.
\* The oldest may have been given its next key already.
CurrentInv(off, first) ==
  LET n == Len(entries)
  IN  /\ Current.index \in [0..n-1 -> 1..n]
      /\ \A e \in 1..n : \E p \in 0..n-1 : Current.index[p] = e
      /\ \A p, q \in 0..n-1 : Current.index[p] = Current.index[q] => p = q
      /\ Current.tail = Place(off, Len(headers), Newest)
      /\ first = 0 \/ first <= Blocks - 1
      /\ \A j \in Newest-n+1..Newest :
           LET entry == entries[EntryOf(off, Len(headers), j)]
           IN  \/ entry.key = IF j < first THEN InvalidKey ELSE Start(j)
               \/ /\ j = Blocks - n
                  /\ entry.key = Start(Blocks) /\ entry.value = None

\* The index a consumer read leads it to the entry it wants.
LookupInv(off) ==
  \A c \in Consumer :
    /\ consumer[c].pc \in {"tail", "key"} =>
         entries[EntryOf(off, consumer[c].header, Number(consumer[c].index))].key
           = Start(Number(consumer[c].index))
    /\ At(c, "key") => TailKey(c) # InvalidKey

RingInv(off, first) ==
  /\ off \in [DOMAIN headers -> Int] /\ first \in Nat
  /\ CongruentInv(off)
  /\ headers # <<>> => CurrentInv(off, first)
  /\ LookupInv(off)

IndexPart == \E off, first : RingInv(off, first)

ProducerPart ==
  /\ producer.pc \in {"insert", "advance", "requisition", "clear", "link"} =>
       Offset(tailIndex) = 0
  /\ producer.pc \in {"advance", "requisition", "clear", "link"} =>
       entries[producer.entry].key = Start(Blocks)
  /\ IF producer.pc = "link" THEN emptied[producer.block] = 0
     ELSE producer.block = None

\* A block is in the index from its first use until its last element has been
\* taken and its entry cleared, and its counter counts the elements taken.
LinkInv ==
  /\ \A e \in DOMAIN entries :
       entries[e].value # None =>
         \E j \in 0..Blocks-1 :
           /\ entries[e].key = Start(j)
           /\ \/ Wanted(j)
              \/ \E c \in Consumer : At(c, "unlink") /\ consumer[c].entry = e
  /\ \A j \in 0..Blocks-1 : Wanted(j) => \E e \in DOMAIN entries : Holds(e, j)
  /\ \A e \in DOMAIN entries, j \in Nat :
       Holds(e, j) => emptied[entries[e].value] = Cardinality(Spent(j))
  /\ \A e \in DOMAIN entries :
       Holds(e, Blocks - 1) => tailBlock = entries[e].value

\* Every block is in one place.
Linked(b) == \E e \in DOMAIN entries : entries[e].value = b
Given(b) == \E c \in Consumer : At(c, "recycle") /\ consumer[c].block = b
OwnerInv ==
  /\ freeBlocks \subseteq Block
  /\ \A b \in Block :
       /\ b \in freeBlocks \/ Linked(b) \/ Given(b) \/ producer.block = b
       /\ b \in freeBlocks => ~Linked(b) /\ ~Given(b) /\ producer.block # b
       /\ Linked(b) => ~Given(b) /\ producer.block # b
       /\ Given(b) => producer.block # b
  /\ \A e, f \in DOMAIN entries :
       entries[e].value = entries[f].value /\ entries[e].value # None => e = f
  /\ \A c, d \in Consumer :
       /\ At(c, "recycle") /\ At(d, "recycle")
       /\ consumer[c].block = consumer[d].block
       => c = d

\* The slots of a block in the index hold what was put there and not yet moved;
\* those of all others are empty.
SlotInv ==
  /\ \A e \in DOMAIN entries, j \in Nat : Holds(e, j) =>
       \A i \in Elements(j) :
         slots[entries[e].value][i - Start(j)] = Shown(i)
  /\ \A b \in Block, o \in 0..BlockSize-1 : ~Linked(b) => slots[b][o] = None

\* What a consumer has found.
FoundInv ==
  /\ \A c, d \in Consumer :
       Reading(c) /\ Reading(d) /\ consumer[c].index = consumer[d].index
       => c = d
  /\ \A c, d \in Consumer :
       At(c, "unlink") /\ At(d, "unlink") /\ consumer[c].entry = consumer[d].entry
       => c = d
  /\ \A c \in Consumer :
       LET r == consumer[c]
           j == Number(r.index)
       IN  /\ r.pc \in {"block", "move", "empty", "unlink"} => Holds(r.entry, j)
           /\ r.pc \in {"move", "empty", "unlink"} =>
                r.block # None /\ entries[r.entry].value = r.block
           /\ r.pc \notin {"move", "empty", "unlink", "recycle"} =>
                r.block = None
           /\ At(c, "empty") => r.item = items[r.index + 1]
           /\ At(c, "unlink") => ~Wanted(j)

Gone == {i \in 0..headIndex-1 : ~Present(i)}
ReturnInv ==
  /\ returned = {items[i + 1] : i \in Gone}
  /\ phase = "drained" => headIndex = tailIndex

MemoryInv ==
  /\ tailBlock \in Block \cup {None}
  /\ emptied \in [Block -> 0..BlockSize]
  /\ phase = "destroyed" => freeBlocks = Block

UsedInv ==
  phase # "destroyed" => IndexPart /\ LinkInv /\ OwnerInv /\ SlotInv
BlockInv == UsedInv /\ ProducerPart /\ FoundInv /\ MemoryInv /\ ReturnInv

\* Arithmetic.
LEMMA DivideBy ==
  ASSUME NEW a \in Int, NEW n \in Nat \ {0}
  PROVE  /\ a \div n \in Int
         /\ a % n \in 0..n-1
         /\ a = n * (a \div n) + (a % n)
OBVIOUS

LEMMA QuotientIs ==
  ASSUME NEW q \in Int, NEW r \in Int, NEW n \in Nat \ {0}, r \in 0..n-1
  PROVE  /\ (n * q + r) \div n = q
         /\ (n * q + r) % n = r
<1>. DEFINE a == n * q + r
            x == a \div n
            s == a % n
<1>1. a \in Int /\ x \in Int /\ s \in 0..n-1 /\ a = n * x + s
  BY DivideBy
<1>. HIDE DEF x, s
<1>2. n * (x - q) = r - s
  BY <1>1
<1>3. ~(x - q >= 1)
  <2>. SUFFICES ASSUME x - q >= 1 PROVE FALSE
    OBVIOUS
  <2>1. n * (x - q) >= n
    BY <1>1
  <2>. QED
    BY <1>1, <1>2, <2>1
<1>4. ~(x - q <= -1)
  <2>. SUFFICES ASSUME x - q <= -1 PROVE FALSE
    OBVIOUS
  <2>1. n * (x - q) <= -n
    BY <1>1
  <2>. QED
    BY <1>1, <1>2, <2>1
<1>5. x = q
  BY <1>1, <1>3, <1>4
<1>6. s = r
  BY <1>1, <1>2, <1>5
<1>. QED
  BY <1>5, <1>6 DEF x, s

\* Numbers that differ by a multiple of n have the same remainder, and the
\* other way round.
LEMMA SameRemainder ==
  ASSUME NEW a \in Int, NEW z \in Int, NEW n \in Nat \ {0}
  PROVE  (a + n * z) % n = a % n
<1>1. /\ a \div n \in Int /\ a % n \in 0..n-1
      /\ a = n * (a \div n) + (a % n)
  BY DivideBy
<1>. DEFINE x == a \div n
            r == a % n
<1>. HIDE DEF x, r
<1>2. /\ x \in Int /\ r \in Int /\ r \in 0..n-1 /\ x + z \in Int
      /\ a = n * x + r
  BY <1>1 DEF x, r
<1>3. a + n * z = n * (x + z) + r
  BY <1>2
<1>4. (n * (x + z) + r) % n = r
  BY <1>2, QuotientIs
<1>. QED
  BY <1>3, <1>4 DEF r

LEMMA RemainderOfSum ==
  ASSUME NEW a \in Int, NEW b \in Int, NEW n \in Nat \ {0}
  PROVE  ((a % n) + b) % n = (a + b) % n
<1>1. /\ a \div n \in Int /\ a % n \in 0..n-1
      /\ a = n * (a \div n) + (a % n)
  BY DivideBy
<1>. DEFINE x == a \div n
            r == a % n
<1>. HIDE DEF x, r
<1>2. x \in Int /\ r \in Int /\ r + b \in Int /\ a = n * x + r
  BY <1>1 DEF x, r
<1>3. a + b = (r + b) + n * x
  BY <1>2
<1>4. ((r + b) + n * x) % n = (r + b) % n
  BY <1>2, SameRemainder
<1>. QED
  BY <1>3, <1>4 DEF r

LEMMA EqualRemainders ==
  ASSUME NEW a \in Int, NEW b \in Int, NEW n \in Nat \ {0}, a % n = b % n
  PROVE  \E z \in Int : b = a + n * z
<1>1. /\ a \div n \in Int /\ b \div n \in Int
      /\ a = n * (a \div n) + (a % n)
      /\ b = n * (b \div n) + (b % n)
  BY DivideBy
<1>. DEFINE x == a \div n
            y == b \div n
            r == a % n
<1>. HIDE DEF x, y, r
<1>2. /\ x \in Int /\ y \in Int /\ r \in Int
      /\ a = n * x + r /\ b = n * y + r
  BY <1>1, DivideBy DEF x, y, r
<1>3. b = a + n * (y - x)
  BY <1>2
<1>4. y - x \in Int
  BY <1>2
<1>. WITNESS y - x \in Int
<1>. QED
  BY <1>3

LEMMA CloseRemainders ==
  ASSUME NEW a \in Int, NEW b \in Int, NEW n \in Nat \ {0},
         a % n = b % n, b - a < n, a - b < n
  PROVE  a = b
<1>1. PICK z \in Int : b = a + n * z
  BY EqualRemainders
<1>2. ~(z >= 1)
  <2>. SUFFICES ASSUME z >= 1 PROVE FALSE
    OBVIOUS
  <2>1. n * z >= n
    OBVIOUS
  <2>. QED
    BY <1>1, <2>1
<1>3. ~(z <= -1)
  <2>. SUFFICES ASSUME z <= -1 PROVE FALSE
    OBVIOUS
  <2>1. n * z <= -n
    OBVIOUS
  <2>. QED
    BY <1>1, <2>1
<1>4. z = 0
  BY <1>2, <1>3
<1>. QED
  BY <1>1, <1>4

LEMMA SmallRemainder ==
  ASSUME NEW n \in Nat \ {0}, NEW a \in 0..n-1
  PROVE  a % n = a
<1>1. n * 0 + a = a
  OBVIOUS
<1>. QED
  BY <1>1, QuotientIs

\* The blocks' numbers.
LEMMA Starts ==
  /\ Start(0) = 0
  /\ \A j \in Int : /\ Start(j) \in Int
                    /\ Start(j + 1) = Start(j) + BlockSize
                    /\ Start(j) # InvalidKey
  /\ \A j \in Nat : Start(j) \in Nat
  /\ \A j, k \in Int : j < k => Start(j) + BlockSize <= Start(k)
<1>. USE Sizes
<1>1. \A j \in Int : Start(j) \in Int /\ Start(j + 1) = Start(j) + BlockSize
  BY DEF Start
<1>2. ASSUME NEW j \in Int, NEW k \in Int, j < k
      PROVE  Start(j) + BlockSize <= Start(k)
  <2>1. (k - j - 1) * BlockSize >= 0
    BY <1>2
  <2>2. (k - j - 1) * BlockSize = k * BlockSize - j * BlockSize - BlockSize
    OBVIOUS
  <2>. QED
    BY <2>1, <2>2 DEF Start
<1>3. Start(0) = 0
  BY DEF Start
<1>4. ASSUME NEW j \in Int PROVE Start(j) # InvalidKey
  <2>1. CASE j >= 0
    <3>1. 0 < j => Start(0) + BlockSize <= Start(j)
      BY <1>2
    <3>2. j = 0 => Start(j) = 0
      BY <1>3
    <3>3. Start(j) >= 0
      BY <1>1, <1>3, <2>1, <3>1, <3>2
    <3>. QED
      BY <3>3 DEF InvalidKey
  <2>2. CASE j < 0
    <3>1. Start(j) + BlockSize <= 0
      BY <1>2, <1>3, <2>2
    <3>. QED
      BY <1>1, <3>1 DEF InvalidKey
  <2>. QED
    BY <2>1, <2>2
<1>5. ASSUME NEW j \in Nat PROVE Start(j) \in Nat
  <2>1. 0 < j => Start(0) + BlockSize <= Start(j)
    BY <1>2
  <2>2. j = 0 => Start(j) = 0
    BY <1>3
  <2>3. Start(j) \in Int
    BY <1>1
  <2>4. Start(j) >= 0
    BY <1>3, <2>1, <2>2, <2>3
  <2>. QED
    BY <2>3, <2>4
<1>. QED
  BY <1>1, <1>2, <1>3, <1>4, <1>5

LEMMA StartInjective ==
  ASSUME NEW j \in Int, NEW k \in Int, Start(j) = Start(k)
  PROVE  j = k
<1>1. j < k => Start(j) + BlockSize <= Start(k)
  BY Starts
<1>2. k < j => Start(k) + BlockSize <= Start(j)
  BY Starts
<1>3. Start(j) \in Int /\ Start(k) \in Int
  BY Starts
<1>. QED
  BY <1>1, <1>2, <1>3, Sizes

LEMMA StartsApart ==
  ASSUME NEW j \in Int, NEW k \in Int
  PROVE  (Start(j) - Start(k)) \div BlockSize = j - k
<1>1. Start(j) - Start(k) = BlockSize * (j - k) + 0
  BY Sizes DEF Start
<1>2. 0 \in 0..BlockSize-1 /\ BlockSize \in Nat \ {0} /\ j - k \in Int
  BY Sizes
<1>3. (BlockSize * (j - k) + 0) \div BlockSize = j - k
  BY <1>2, QuotientIs
<1>. QED
  BY <1>1, <1>3

LEMMA NumberOf ==
  ASSUME NEW i \in Int
  PROVE  /\ Number(i) \in Int
         /\ i \in Nat => Number(i) \in Nat
         /\ i \in Elements(Number(i))
         /\ Base(i) = Start(Number(i))
         /\ Offset(i) = i - Start(Number(i))
         /\ Offset(i) \in 0..BlockSize-1
<1>1. /\ i \div BlockSize \in Int
      /\ i % BlockSize \in 0..BlockSize-1
      /\ i = BlockSize * (i \div BlockSize) + (i % BlockSize)
  BY DivideBy, Sizes
<1>2. Start(Number(i)) = BlockSize * (i \div BlockSize)
  BY <1>1, Sizes DEF Start, Number
<1>3. Number(i) \in Int /\ Start(Number(i)) \in Int
  BY <1>1, Starts DEF Number
<1>4. /\ Base(i) = Start(Number(i))
      /\ Offset(i) = i - Start(Number(i))
      /\ Offset(i) \in 0..BlockSize-1
  BY <1>1, <1>2, <1>3, Sizes DEF Base, Offset
<1>5. i \in Elements(Number(i))
  BY <1>3, <1>4, Sizes DEF Elements
<1>6. i \in Nat => Number(i) \in Nat
  <2>1. Number(i) < 0 => Start(Number(i)) + BlockSize <= 0
    BY <1>3, Starts
  <2>. QED
    BY <1>3, <1>4, <2>1, Sizes
<1>. QED
  BY <1>3, <1>4, <1>5, <1>6

LEMMA ElementOf ==
  ASSUME NEW j \in Int, NEW i \in Elements(j)
  PROVE  /\ i \in Int /\ Number(i) = j
         /\ i - Start(j) \in 0..BlockSize-1
         /\ j \in Nat => i \in Nat
<1>1. i \in Int /\ Start(j) \in Int /\ Start(j) <= i /\ i < Start(j) + BlockSize
  BY Starts, Sizes DEF Elements
<1>2. /\ Number(i) \in Int
      /\ Start(Number(i)) \in Int /\ Start(Number(i)) <= i
      /\ i < Start(Number(i)) + BlockSize
  <2>1. Number(i) \in Int /\ i \in Elements(Number(i))
    BY <1>1, NumberOf
  <2>2. Start(Number(i)) \in Int
    BY <2>1, Starts
  <2>. QED
    BY <1>1, <2>1, <2>2, Sizes DEF Elements
<1>. DEFINE k == Number(i)
<1>. HIDE DEF k
<1>3. ~(k < j) /\ ~(j < k)
  <2>1. k < j => Start(k) + BlockSize <= Start(j)
    BY <1>2, Starts DEF k
  <2>2. j < k => Start(j) + BlockSize <= Start(k)
    BY <1>2, Starts DEF k
  <2>. QED
    BY <1>1, <1>2, <2>1, <2>2, Sizes DEF k
<1>4. Number(i) = j
  BY <1>2, <1>3 DEF k
<1>5. i - Start(j) \in 0..BlockSize-1
  BY <1>1, Sizes
<1>6. j \in Nat => Start(j) \in Nat
  BY Starts
<1>. QED
  BY <1>1, <1>4, <1>5, <1>6

LEMMA ElementsOf ==
  ASSUME NEW j \in Int
  PROVE  /\ IsFiniteSet(Elements(j)) /\ Cardinality(Elements(j)) = BlockSize
         /\ Elements(j) \subseteq Int /\ Start(j) \in Elements(j)
<1>1. Start(j) \in Int /\ BlockSize \in Nat /\ BlockSize >= 2
  BY Starts, Sizes
<1>2. /\ IsFiniteSet(Start(j)..Start(j) + BlockSize - 1)
      /\ Cardinality(Start(j)..Start(j) + BlockSize - 1) = BlockSize
  BY <1>1, FS_Interval
<1>. QED
  BY <1>1, <1>2 DEF Elements

-----------------------------------------------------------------------------
\* Where a header has which block.
LEMMA ResidueInRange ==
  ASSUME NEW a \in Int, NEW n \in Nat \ {0}, NEW p \in 0..n-1
  PROVE  \E j \in a-n+1..a : j % n = p
<1>. DEFINE x == (a - p) \div n
            s == (a - p) % n
<1>1. x \in Int /\ s \in 0..n-1 /\ a - p = n * x + s
  <2>1. a - p \in Int
    OBVIOUS
  <2>. QED
    BY <2>1, DivideBy
<1>. HIDE DEF x, s
<1>2. a - s = n * x + p /\ a - s \in a-n+1..a
  BY <1>1
<1>3. (n * x + p) % n = p
  BY <1>1, QuotientIs
<1>4. (a - s) % n = p
  BY <1>2, <1>3
<1>. QED
  BY <1>2, <1>4

LEMMA PlaceIn ==
  ASSUME IndexInv, NEW k \in DOMAIN headers,
         NEW off \in [DOMAIN headers -> Int], NEW j \in Int
  PROVE  /\ Size(k) \in Nat \ {0}
         /\ DOMAIN headers[k].index = 0..Size(k)-1
         /\ headers[k].tail \in 0..Size(k)-1
         /\ off[k] + j \in Int
         /\ Place(off, k, j) \in 0..Size(k)-1
         /\ EntryOf(off, k, j) \in DOMAIN entries
<1>1. PICK n \in Nat \ {0} : headers[k] \in HeaderType(n)
  BY HeaderSize
<1>2. /\ Size(k) = n
      /\ DOMAIN headers[k].index = 0..n-1
      /\ headers[k].tail \in 0..n-1
      /\ \A p \in 0..n-1 : headers[k].index[p] \in 1..Len(entries)
  BY <1>1, HeaderCapacity DEF Size
<1>3. off[k] + j \in Int
  OBVIOUS
<1>4. (off[k] + j) % n \in 0..n-1
  BY <1>3, ModRange
<1>5. DOMAIN entries = 1..Len(entries)
  BY DEF IndexInv
<1>. QED
  BY <1>2, <1>3, <1>4, <1>5 DEF Place, EntryOf

LEMMA BlocksType ==
  ASSUME tailIndex \in Nat
  PROVE  /\ Blocks \in Nat /\ Newest \in Int /\ Newest + 1 \in Nat
         /\ Newest = Blocks \/ Newest = Blocks - 1
BY NumberOf DEF Blocks, Newest

LEMMA CurrentSize ==
  ASSUME IndexInv, headers # <<>>, NEW off, NEW first, CurrentInv(off, first)
  PROVE  /\ Len(headers) \in DOMAIN headers
         /\ Current = headers[Len(headers)]
         /\ Len(entries) \in Nat \ {0}
         /\ Size(Len(headers)) = Len(entries)
         /\ DOMAIN Current.index = 0..Len(entries)-1
         /\ DOMAIN entries = 1..Len(entries)
<1>1. Len(headers) \in DOMAIN headers /\ Current = headers[Len(headers)]
  BY Headers
<1>2. PICK n \in Nat \ {0} : headers[Len(headers)] \in HeaderType(n)
  BY <1>1, HeaderSize
<1>3. Size(Len(headers)) = n /\ DOMAIN Current.index = 0..n-1
  BY <1>1, <1>2, HeaderCapacity DEF Size
<1>4. DOMAIN entries = 1..Len(entries) /\ Len(entries) \in Nat
  BY DEF IndexInv
<1>5. Current.index \in [0..Len(entries)-1 -> 1..Len(entries)]
  BY DEF CurrentInv
<1>6. 0..n-1 = 0..Len(entries)-1
  BY <1>3, <1>5
<1>7. n = Len(entries)
  <2>1. IsFiniteSet(0..n-1) /\ Cardinality(0..n-1) = n
    BY FS_Interval
  <2>2. Cardinality(0..Len(entries)-1) = Len(entries) \/ Len(entries) = 0
    BY <1>4, FS_Interval
  <2>3. Len(entries) # 0
    <3>1. 0 \in 0..n-1
      OBVIOUS
    <3>2. 0 \in 0..Len(entries)-1
      BY <1>6, <3>1
    <3>. QED
      BY <1>4, <3>2
  <2>. QED
    BY Zenon, <1>4, <1>6, <2>1, <2>2, <2>3
<1>. QED
  BY <1>1, <1>3, <1>4, <1>7

\* The ring comes round.
LEMMA PlaceAgain ==
  ASSUME NEW off, NEW k, off[k] \in Int, Size(k) \in Nat \ {0},
         NEW i \in Int, NEW z \in Int
  PROVE  Place(off, k, i + Size(k) * z) = Place(off, k, i)
<1>. DEFINE n == Size(k)
            a == off[k] + i
<1>1. a \in Int /\ n \in Nat \ {0}
  OBVIOUS
<1>2. off[k] + (i + n * z) = a + n * z
  OBVIOUS
<1>3. (a + n * z) % n = a % n
  BY <1>1, SameRemainder
<1>. QED
  BY <1>2, <1>3 DEF Place

LEMMA PlaceApart ==
  ASSUME NEW off, NEW k, off[k] \in Int, Size(k) \in Nat \ {0},
         NEW i \in Int, NEW j \in Int, Place(off, k, i) = Place(off, k, j)
  PROVE  j = i + Size(k) * ((j - i) \div Size(k))
<1>1. (off[k] + i) % Size(k) = (off[k] + j) % Size(k)
  BY DEF Place
<1>2. PICK z \in Int : off[k] + j = off[k] + i + Size(k) * z
  <2>1. off[k] + i \in Int /\ off[k] + j \in Int
    OBVIOUS
  <2>. QED
    BY <1>1, <2>1, EqualRemainders
<1>. DEFINE w == Size(k) * z
<1>. HIDE DEF w
<1>3. off[k] + j = off[k] + i + w /\ w \in Int
  BY <1>2 DEF w
<1>4. j = i + w /\ j - i = w + 0
  BY <1>3
<1>5. (Size(k) * z + 0) \div Size(k) = z
  <2>1. 0 \in 0..Size(k)-1
    OBVIOUS
  <2>. QED
    BY <2>1, QuotientIs
<1>6. (j - i) \div Size(k) = z
  BY <1>4, <1>5 DEF w
<1>. QED
  BY <1>4, <1>6 DEF w

LEMMA PlaceClose ==
  ASSUME NEW off, NEW k, off[k] \in Int, Size(k) \in Nat \ {0},
         NEW i \in Int, NEW j \in Int, Place(off, k, i) = Place(off, k, j),
         i - j < Size(k), j - i < Size(k)
  PROVE  i = j
<1>. DEFINE a == off[k] + i
            b == off[k] + j
<1>1. a \in Int /\ b \in Int /\ b - a < Size(k) /\ a - b < Size(k)
  OBVIOUS
<1>2. a % Size(k) = b % Size(k)
  BY DEF Place
<1>3. a = b
  BY <1>1, <1>2, CloseRemainders
<1>. QED
  BY <1>3

\* One step further.
LEMMA PlaceStep ==
  ASSUME NEW off, NEW k, off[k] \in Int, Size(k) \in Nat \ {0},
         NEW i \in Int, NEW d \in Int
  PROVE  (Place(off, k, i) + d) % Size(k) = Place(off, k, i + d)
<1>. DEFINE a == off[k] + i
<1>1. a \in Int /\ off[k] + (i + d) = a + d
  OBVIOUS
<1>2. ((a % Size(k)) + d) % Size(k) = (a + d) % Size(k)
  BY <1>1, RemainderOfSum
<1>. QED
  BY <1>1, <1>2 DEF Place

\* The entry with a key is where the latest header has that block; so there is
\* only one.
LEMMA KeyPlace ==
  ASSUME IndexInv, headers # <<>>, NEW off, NEW first, RingInv(off, first),
         NEW e \in DOMAIN entries, NEW j \in Int, entries[e].key = Start(j)
  PROVE  j \in Nat /\ e = EntryOf(off, Len(headers), j)
<1>1. CurrentInv(off, first) /\ CongruentInv(off)
  BY DEF RingInv
<1>2. /\ Len(headers) \in DOMAIN headers
      /\ Current = headers[Len(headers)]
      /\ DOMAIN Current.index = 0..Len(entries)-1
      /\ DOMAIN entries = 1..Len(entries)
  BY <1>1, CurrentSize
<1>3. PICK p \in 0..Len(entries)-1 : Current.index[p] = e
  BY <1>1, <1>2 DEF CurrentInv
<1>4. Start(j) # InvalidKey
  BY Starts
<1>5. PICK i \in Nat : Start(j) = Start(i) /\ p = Place(off, Len(headers), i)
  BY <1>1, <1>2, <1>3, <1>4 DEF CongruentInv
<1>6. i = j
  BY <1>5, StartInjective
<1>. QED
  BY <1>2, <1>3, <1>5, <1>6 DEF EntryOf

\* Every entry is that of one of the latest blocks.
LEMMA EntryRange ==
  ASSUME IndexInv, headers # <<>>, tailIndex \in Nat,
         NEW off, NEW first, RingInv(off, first), NEW e \in DOMAIN entries
  PROVE  \E j \in Newest-Len(entries)+1..Newest :
           e = EntryOf(off, Len(headers), j)
<1>1. CurrentInv(off, first) /\ off \in [DOMAIN headers -> Int]
  BY DEF RingInv
<1>. DEFINE n == Len(entries)
            h == Len(headers)
<1>2. /\ h \in DOMAIN headers
      /\ Current = headers[h]
      /\ n \in Nat \ {0} /\ Size(h) = n
      /\ DOMAIN entries = 1..n
  BY <1>1, CurrentSize
<1>3. PICK p \in 0..n-1 : Current.index[p] = e
  BY <1>1, <1>2 DEF CurrentInv
<1>4. Newest \in Int /\ off[h] \in Int
  BY <1>1, <1>2, BlocksType
<1>. HIDE DEF n, h
<1>5. PICK i \in (off[h]+Newest)-n+1..off[h]+Newest : i % n = p
  <2>1. off[h] + Newest \in Int
    BY <1>4
  <2>. QED
    BY <1>2, <2>1, ResidueInRange
<1>6. i - off[h] \in Newest-n+1..Newest /\ off[h] + (i - off[h]) = i
  BY <1>2, <1>4
<1>7. e = EntryOf(off, h, i - off[h])
  BY <1>2, <1>3, <1>5, <1>6 DEF EntryOf, Place
<1>. QED
  BY <1>6, <1>7 DEF n, h

\* Two of the latest blocks have different entries.
LEMMA EntriesApart ==
  ASSUME IndexInv, headers # <<>>,
         NEW off, NEW first, RingInv(off, first), NEW i \in Int, NEW j \in Int,
         EntryOf(off, Len(headers), i) = EntryOf(off, Len(headers), j)
  PROVE  /\ Place(off, Len(headers), i) = Place(off, Len(headers), j)
         /\ j = i + Len(entries) * ((j - i) \div Len(entries))
         /\ i - j < Len(entries) /\ j - i < Len(entries) => i = j
<1>1. CurrentInv(off, first) /\ off \in [DOMAIN headers -> Int]
  BY DEF RingInv
<1>. DEFINE n == Len(entries)
            h == Len(headers)
<1>2. /\ h \in DOMAIN headers
      /\ Current = headers[h]
      /\ n \in Nat \ {0} /\ Size(h) = n
  BY <1>1, CurrentSize
<1>3. Place(off, h, i) \in 0..n-1 /\ Place(off, h, j) \in 0..n-1
  BY <1>1, <1>2, PlaceIn
<1>4. \A p, q \in 0..n-1 : Current.index[p] = Current.index[q] => p = q
  BY <1>1 DEF CurrentInv
<1>5. Place(off, h, i) = Place(off, h, j)
  BY <1>2, <1>3, <1>4 DEF EntryOf
<1>6. off[h] \in Int
  BY <1>1, <1>2
<1>. HIDE DEF n, h
<1>7. j = i + n * ((j - i) \div n)
  <2>1. Size(h) \in Nat \ {0}
    BY <1>2
  <2>2. j = i + Size(h) * ((j - i) \div Size(h))
    BY <1>5, <1>6, <2>1, PlaceApart
  <2>. QED
    BY <1>2, <2>2
<1>8. i - j < n /\ j - i < n => i = j
  BY <1>2, <1>5, <1>6, PlaceClose
<1>. QED
  BY <1>5, <1>7, <1>8 DEF n, h

\* The next entry and the tail's.
LEMMA NextIs ==
  ASSUME IndexInv, headers # <<>>, tailIndex \in Nat,
         NEW off, NEW first, RingInv(off, first)
  PROVE  /\ NextPosition(Current) = Place(off, Len(headers), Newest + 1)
         /\ NextEntry(Current) = EntryOf(off, Len(headers), Newest + 1)
         /\ NextEntry(Current)
              = EntryOf(off, Len(headers), Newest - Len(entries) + 1)
         /\ Rewind(Current) = Place(off, Len(headers), Newest - 1)
         /\ NextEntry(Current) \in DOMAIN entries
<1>1. CurrentInv(off, first) /\ off \in [DOMAIN headers -> Int]
  BY DEF RingInv
<1>. DEFINE n == Len(entries)
            h == Len(headers)
<1>2. /\ h \in DOMAIN headers
      /\ Current = headers[h]
      /\ n \in Nat \ {0} /\ Size(h) = n
  BY <1>1, CurrentSize
<1>3. Capacity(Current) = n
  BY <1>2 DEF Size
<1>4. Newest \in Int /\ off[h] \in Int
  BY <1>1, <1>2, BlocksType
<1>5. Current.tail = Place(off, h, Newest)
  BY <1>1 DEF CurrentInv
<1>. HIDE DEF n, h
<1>6. NextPosition(Current) = Place(off, h, Newest + 1)
  <2>1. (Place(off, h, Newest) + 1) % Size(h) = Place(off, h, Newest + 1)
    BY <1>2, <1>4, PlaceStep
  <2>. QED
    BY <1>2, <1>3, <1>5, <2>1 DEF NextPosition, h
<1>7. Rewind(Current) = Place(off, h, Newest - 1)
  <2>1. (Place(off, h, Newest) + (-1)) % Size(h)
          = Place(off, h, Newest + (-1))
    BY <1>2, <1>4, PlaceStep
  <2>2. Place(off, h, Newest) \in Int
    BY <1>1, <1>2, <1>4, PlaceIn
  <2>3. /\ Place(off, h, Newest) + (-1) = Place(off, h, Newest) - 1
        /\ Newest + (-1) = Newest - 1
    BY <1>4, <2>2
  <2>. QED
    BY <1>2, <1>3, <1>5, <2>1, <2>3 DEF Rewind
<1>8. Place(off, h, Newest - n + 1) = Place(off, h, Newest + 1)
  <2>. DEFINE i == Newest - n + 1
  <2>1. i \in Int /\ Newest + 1 = i + n * 1
    BY <1>2, <1>4
  <2>. HIDE DEF i
  <2>2. Place(off, h, i + Size(h) * 1) = Place(off, h, i)
    <3>1. Size(h) \in Nat \ {0} /\ 1 \in Int
      BY <1>2
    <3>. QED
      BY <1>4, <2>1, <3>1, PlaceAgain
  <2>. QED
    BY <1>2, <2>1, <2>2 DEF i
<1>9. NextEntry(Current) = EntryOf(off, h, Newest + 1)
  BY <1>2, <1>6 DEF NextEntry, EntryOf
<1>10. EntryOf(off, h, Newest + 1) \in DOMAIN entries
  <2>1. Newest + 1 \in Int
    BY <1>4
  <2>. QED
    BY <1>1, <1>2, <2>1, PlaceIn
<1>. QED
  BY <1>6, <1>7, <1>8, <1>9, <1>10 DEF EntryOf, n, h

-----------------------------------------------------------------------------
\* Steps and the block index.

\* The entries consumers are on their way to.
LEMMA LookupEntries ==
  ASSUME IndexInv, ConsumerInv, NEW off \in [DOMAIN headers -> Int],
         NEW c \in Consumer
  PROVE  /\ Number(consumer[c].index) \in Nat
         /\ consumer[c].pc \in {"tail", "key"} =>
              /\ consumer[c].header \in DOMAIN headers
              /\ EntryOf(off, consumer[c].header, Number(consumer[c].index))
                   \in DOMAIN entries
         /\ At(c, "key") =>
              headers[consumer[c].header].index[consumer[c].tail]
                \in DOMAIN entries
<1>1. consumer[c] \in ConsumerType
  BY DEF ConsumerInv
<1>2. consumer[c].index \in Nat
  BY <1>1 DEF ConsumerType
<1>3. Number(consumer[c].index) \in Nat
  BY <1>2, NumberOf
<1>4. /\ consumer[c].pc \in {"tail", "key"} =>
           consumer[c].header \in DOMAIN headers
      /\ At(c, "key") =>
           consumer[c].tail \in DOMAIN headers[consumer[c].header].index
  BY DEF ConsumerInv
<1>5. ASSUME consumer[c].pc \in {"tail", "key"}
      PROVE  EntryOf(off, consumer[c].header, Number(consumer[c].index))
               \in DOMAIN entries
  <2>1. Number(consumer[c].index) \in Int
    BY <1>3
  <2>. QED
    BY <1>4, <1>5, <2>1, PlaceIn
<1>6. ASSUME At(c, "key")
      PROVE  headers[consumer[c].header].index[consumer[c].tail]
               \in DOMAIN entries
  <2>1. consumer[c].header \in DOMAIN headers
    BY <1>4, <1>6 DEF At
  <2>2. PICK n \in Nat \ {0} : headers[consumer[c].header] \in HeaderType(n)
    BY <2>1, HeaderSize
  <2>3. DOMAIN entries = 1..Len(entries)
    BY DEF IndexInv
  <2>. QED
    BY <1>4, <1>6, <2>2, <2>3, HeaderCapacity
<1>. QED
  BY <1>3, <1>4, <1>5, <1>6

LEMMA HeaderEntries ==
  ASSUME IndexInv, NEW k \in DOMAIN headers,
         NEW p \in DOMAIN headers[k].index
  PROVE  headers[k].index[p] \in DOMAIN entries
<1>1. PICK n \in Nat \ {0} : headers[k] \in HeaderType(n)
  BY HeaderSize
<1>2. DOMAIN entries = 1..Len(entries)
  BY DEF IndexInv
<1>. QED
  BY <1>1, <1>2, HeaderCapacity

\* Keys and headers stay as they are.
LEMMA KeysKept ==
  ASSUME IndexInv, ConsumerInv, tailIndex \in Nat,
         NEW off, NEW first, RingInv(off, first),
         headers' = headers, Len(entries') = Len(entries),
         \A e \in DOMAIN entries : entries'[e].key = entries[e].key,
         Newest' = Newest,
         \/ Blocks' = Blocks
         \/ Newest = Blocks /\ Blocks' = Blocks + 1,
         \A e \in DOMAIN entries :
           entries[e].key = Start(Blocks) /\ entries[e].value = None
             => entries'[e].value = None \/ Newest = Blocks,
         \A c \in Consumer : consumer'[c].pc \in {"tail", "key"} =>
           consumer'[c] = consumer[c]
  PROVE  RingInv(off, first)'
<1>1. /\ off \in [DOMAIN headers -> Int] /\ first \in Nat
      /\ CongruentInv(off) /\ LookupInv(off)
      /\ headers # <<>> => CurrentInv(off, first)
  BY DEF RingInv
<1>2. /\ \A k : Size(k)' = Size(k)
      /\ \A k, j : Place(off, k, j)' = Place(off, k, j)
      /\ \A k, j : EntryOf(off, k, j)' = EntryOf(off, k, j)
      /\ Current' = Current
  BY DEF Size, Place, EntryOf, Current
<1>3. CongruentInv(off)'
  <2>1. ASSUME NEW k \in DOMAIN headers, NEW p \in DOMAIN headers[k].index
        PROVE  entries'[headers[k].index[p]].key
                 = entries[headers[k].index[p]].key
    BY HeaderEntries
  <2>2. ASSUME NEW k \in DOMAIN headers, NEW p \in DOMAIN headers[k].index
        PROVE  \/ /\ entries'[headers[k].index[p]].key = InvalidKey
                  /\ k = Len(headers)
               \/ \E j \in Nat :
                    /\ entries'[headers[k].index[p]].key = Start(j)
                    /\ p = Place(off, k, j)
    BY <1>1, <2>1 DEF CongruentInv
  <2>3. \A k \in DOMAIN headers : \E q \in Nat : Size(Len(headers)) = q * Size(k)
    BY <1>1 DEF CongruentInv
  <2>. QED
    BY <1>2, <2>2, <2>3 DEF CongruentInv
<1>4. ASSUME headers # <<>> PROVE CurrentInv(off, first)'
  <2>. DEFINE n == Len(entries)
              h == Len(headers)
  <2>1. CurrentInv(off, first)
    BY <1>1, <1>4
  <2>2. /\ Current.index \in [0..n-1 -> 1..n]
        /\ \A e \in 1..n : \E p \in 0..n-1 : Current.index[p] = e
        /\ \A p, q \in 0..n-1 : Current.index[p] = Current.index[q] => p = q
        /\ Current.tail = Place(off, h, Newest)
        /\ first = 0 \/ first <= Blocks - 1
    BY <2>1 DEF CurrentInv
  <2>3. h \in DOMAIN headers /\ n \in Nat \ {0} /\ DOMAIN entries = 1..n
    BY <1>4, <2>1, CurrentSize
  <2>4. /\ Newest \in Int /\ Blocks \in Nat
        /\ Newest = Blocks \/ Newest = Blocks - 1
    BY BlocksType
  <2>5. ASSUME NEW j \in Newest-n+1..Newest
        PROVE  LET entry == entries'[EntryOf(off, h, j)]
               IN  \/ entry.key = IF j < first THEN InvalidKey ELSE Start(j)
                   \/ /\ j = Blocks' - n
                      /\ entry.key = Start(Blocks') /\ entry.value = None
    <3>1. EntryOf(off, h, j) \in DOMAIN entries
      BY <1>1, <2>3, <2>4, PlaceIn
    <3>2. LET entry == entries[EntryOf(off, h, j)]
          IN  \/ entry.key = IF j < first THEN InvalidKey ELSE Start(j)
              \/ /\ j = Blocks - n
                 /\ entry.key = Start(Blocks) /\ entry.value = None
      BY <2>1 DEF CurrentInv
    <3>3. Newest = Blocks => j # Blocks - n
      BY <2>3, <2>4
    <3>4. entries'[EntryOf(off, h, j)].key = entries[EntryOf(off, h, j)].key
      BY <3>1
    <3>5. CASE entries[EntryOf(off, h, j)].key
                 = IF j < first THEN InvalidKey ELSE Start(j)
      BY <3>4, <3>5
    <3>6. CASE /\ j = Blocks - n
               /\ entries[EntryOf(off, h, j)].key = Start(Blocks)
               /\ entries[EntryOf(off, h, j)].value = None
      <4>1. Newest # Blocks /\ Blocks' = Blocks
        BY <3>3, <3>6
      <4>2. entries'[EntryOf(off, h, j)].value = None
        BY <3>1, <3>6, <4>1
      <4>. QED
        BY <3>4, <3>6, <4>1, <4>2
    <3>. QED
      BY <3>2, <3>5, <3>6
  <2>6. first = 0 \/ first <= Blocks' - 1
    BY <1>1, <2>2, <2>4
  <2>7. /\ Len(entries)' = n /\ Len(headers)' = h
        /\ Current' = Current /\ Newest' = Newest
        /\ \A j : EntryOf(off, h, j)' = EntryOf(off, h, j)
        /\ Place(off, h, Newest)' = Place(off, h, Newest)
    BY <1>2
  <2>8. /\ Current'.index \in [0..Len(entries')-1 -> 1..Len(entries')]
        /\ \A e \in 1..Len(entries') :
             \E p \in 0..Len(entries')-1 : Current'.index[p] = e
        /\ \A p, q \in 0..Len(entries')-1 :
             Current'.index[p] = Current'.index[q] => p = q
        /\ Current'.tail = Place(off, Len(headers), Newest)'
    BY <2>2, <2>7
  <2>9. \A j \in Newest'-Len(entries')+1..Newest' :
          LET entry == entries'[EntryOf(off, Len(headers), j)']
          IN  \/ entry.key = IF j < first THEN InvalidKey ELSE Start(j)
              \/ /\ j = Blocks' - Len(entries')
                 /\ entry.key = Start(Blocks') /\ entry.value = None
    BY <2>5, <2>7
  <2>. HIDE DEF n, h
  <2>. QED
    BY <2>6, <2>8, <2>9 DEF CurrentInv, Start
<1>5. LookupInv(off)'
  <2>1. ASSUME NEW c \in Consumer, consumer'[c].pc \in {"tail", "key"}
        PROVE  /\ consumer'[c] = consumer[c]
               /\ entries'[EntryOf(off, consumer[c].header,
                                   Number(consumer[c].index))].key
                    = entries[EntryOf(off, consumer[c].header,
                                      Number(consumer[c].index))].key
               /\ At(c, "key") =>
                    entries'[headers[consumer[c].header].index
                               [consumer[c].tail]].key
                      = entries[headers[consumer[c].header].index
                                  [consumer[c].tail]].key
    BY <1>1, <2>1, LookupEntries
  <2>2. ASSUME NEW c \in Consumer, consumer'[c].pc \in {"tail", "key"}
        PROVE  (entries[EntryOf(off, consumer[c].header,
                                Number(consumer[c].index))].key
                  = Start(Number(consumer[c].index)))'
    <3>1. entries[EntryOf(off, consumer[c].header,
                          Number(consumer[c].index))].key
            = Start(Number(consumer[c].index))
      BY <1>1, <2>1, <2>2 DEF LookupInv
    <3>2. EntryOf(off, consumer[c].header, Number(consumer[c].index))'
            = EntryOf(off, consumer[c].header, Number(consumer[c].index))
      BY <2>1, <2>2, ZenonT(30) DEF EntryOf, Place, Size
    <3>. QED
      BY <2>1, <2>2, <3>1, <3>2, ZenonT(30) DEF Start, Number
  <2>3. ASSUME NEW c \in Consumer, At(c, "key")'
        PROVE  TailKey(c)' # InvalidKey
    <3>1. consumer'[c].pc \in {"tail", "key"} /\ consumer'[c] = consumer[c]
      BY <2>1, <2>3 DEF At
    <3>2. At(c, "key")
      BY <2>3, <3>1 DEF At
    <3>3. TailKey(c)' = TailKey(c)
      BY <2>1, <3>1, <3>2 DEF TailKey
    <3>. QED
      BY <1>1, <3>2, <3>3 DEF LookupInv
  <2>. QED
    BY <2>2, <2>3 DEF LookupInv, Number, Start
<1>. QED
  BY <1>1, <1>3, <1>4, <1>5 DEF RingInv

LEMMA AtInsert ==
  ASSUME tailIndex \in Nat, Offset(tailIndex) = 0,
         producer.pc \notin {"construct", "publish"}
  PROVE  Blocks = Number(tailIndex) /\ tailIndex = Start(Blocks)
<1>1. Blocks = Number(tailIndex)
  BY DEF Blocks
<1>2. Offset(tailIndex) = tailIndex - Start(Number(tailIndex))
  BY NumberOf
<1>3. Number(tailIndex) \in Int
  BY NumberOf
<1>4. Start(Number(tailIndex)) \in Int
  BY <1>3, Starts
<1>. QED
  BY <1>1, <1>2, <1>4

\* insert_block_index_entry gives the entry its key: nobody who is on his way
\* to an element wants it, and the headers that are still read are congruent.
LEMMA KeyWritten ==
  ASSUME IndexInv, ConsumerInv, tailIndex \in Nat,
         NEW off, NEW first, RingInv(off, first),
         InsertKey, Offset(tailIndex) = 0,
         \A e \in DOMAIN entries :
           entries[e].key = InvalidKey => entries[e].value = None,
         \A c \in Consumer : consumer[c].pc \in {"tail", "key"} =>
           entries[EntryOf(off, consumer[c].header,
                           Number(consumer[c].index))].value # None
  PROVE  RingInv(off, first)'
<1>. DEFINE n == Len(entries)
            h == Len(headers)
            e == NextEntry(Current)
<1>1. /\ off \in [DOMAIN headers -> Int] /\ first \in Nat
      /\ CongruentInv(off) /\ LookupInv(off)
      /\ headers # <<>> /\ CurrentInv(off, first)
  BY DEF RingInv, InsertKey
<1>2. /\ producer.pc = "insert" /\ producer'.pc = "advance"
      /\ Reusable(e)
      /\ entries' = [entries EXCEPT ![e].key = tailIndex]
      /\ headers' = headers /\ tailIndex' = tailIndex /\ consumer' = consumer
  BY <1>1 DEF InsertKey, counters, ProducerInv, ProducerType
<1>3. /\ Blocks' = Blocks /\ Newest' = Newest /\ Newest = Blocks - 1
      /\ Blocks \in Nat
  BY <1>2, BlocksType DEF Blocks, Newest
<1>4. tailIndex = Start(Blocks)
  BY <1>2, AtInsert
<1>5. /\ e = EntryOf(off, h, Blocks)
      /\ e = EntryOf(off, h, Blocks - n)
      /\ e \in DOMAIN entries
  <2>1. Newest + 1 = Blocks
    BY <1>3
  <2>2. Newest - n + 1 = Blocks - n
    BY <1>3, <1>1, CurrentSize
  <2>. QED
    BY <1>1, <2>1, <2>2, NextIs
<1>6. /\ h \in DOMAIN headers /\ n \in Nat \ {0} /\ DOMAIN entries = 1..n
      /\ Current = headers[h] /\ Size(h) = n
      /\ DOMAIN Current.index = 0..n-1
  BY <1>1, CurrentSize
<1>. HIDE DEF e
<1>7. /\ DOMAIN entries' = DOMAIN entries /\ Len(entries') = n
      /\ entries'[e].key = Start(Blocks) /\ entries'[e].value = None
      /\ \A f \in DOMAIN entries :
           /\ f # e => entries'[f] = entries[f]
           /\ entries'[f].value = entries[f].value
  <2>1. entries \in Seq(EntryType)
    BY DEF IndexInv
  <2>2. entries[e] \in [key : Nat \cup {InvalidKey}, value : Block \cup {None}]
    <3>1. entries[e] \in EntryType
      BY <1>5, <2>1
    <3>. QED
      BY <3>1 DEF EntryType
  <2>3. entries[e].value = None
    BY <1>2, <1>5 DEF Reusable
  <2>4. /\ DOMAIN entries' = DOMAIN entries
        /\ entries'[e].key = tailIndex /\ entries'[e].value = entries[e].value
        /\ \A f \in DOMAIN entries : f # e => entries'[f] = entries[f]
    BY <1>2, <1>5, <2>1, <2>2
  <2>5. Len(entries') = n
    BY <1>2, <2>1
  <2>. QED
    BY <1>4, <2>3, <2>4, <2>5
<1>8. /\ \A k : Size(k)' = Size(k)
      /\ \A k, j : Place(off, k, j)' = Place(off, k, j)
      /\ \A k, j : EntryOf(off, k, j)' = EntryOf(off, k, j)
      /\ Current' = Current
  BY <1>2, Zenon DEF Size, Place, EntryOf, Current
<1>9. CongruentInv(off)'
  <2>1. ASSUME NEW k \in DOMAIN headers, NEW p \in DOMAIN headers[k].index,
               headers[k].index[p] = e
        PROVE  p = Place(off, k, Blocks)
    <3>1. CASE k = h
      <4>1. /\ p \in 0..n-1 /\ Place(off, h, Blocks) \in 0..n-1
            /\ Current.index[p] = Current.index[Place(off, h, Blocks)]
        <5>1. Blocks \in Int
          BY <1>3
        <5>2. Place(off, h, Blocks) \in 0..Size(h)-1
          BY <1>1, <1>6, <5>1, PlaceIn
        <5>. QED
          BY <1>5, <1>6, <2>1, <3>1, <5>2 DEF EntryOf
      <4>. QED
        BY <1>1, <3>1, <4>1 DEF CurrentInv
    <3>2. CASE k # h
      <4>1. PICK j \in Nat : entries[e].key = Start(j) /\ p = Place(off, k, j)
        BY <1>1, <2>1, <3>2 DEF CongruentInv
      <4>2. e = EntryOf(off, h, j)
        BY <1>1, <1>5, <4>1, KeyPlace
      <4>3. Blocks = j + n * ((Blocks - j) \div n)
        <5>1. Blocks \in Int /\ j \in Int
          BY <1>3
        <5>2. EntryOf(off, h, j) = EntryOf(off, h, Blocks)
          BY <1>5, <4>2
        <5>. QED
          BY <1>1, <5>1, <5>2, EntriesApart
      <4>4. PICK q \in Nat : Size(h) = q * Size(k)
        BY <1>1 DEF CongruentInv
      <4>. DEFINE z == (Blocks - j) \div n
                  s == Size(k)
      <4>5. z \in Int
        <5>1. Blocks - j \in Int
          BY <1>3, <4>1
        <5>. QED
          BY <1>6, <5>1, DivideBy
      <4>6. s \in Nat \ {0} /\ off[k] \in Int
        BY <1>1, PlaceIn
      <4>. HIDE DEF z, s
      <4>7. Blocks = j + (q * s) * z
        BY <1>6, <4>3, <4>4 DEF z, s
      <4>8. (q * s) * z = s * (q * z) /\ q * z \in Int
        BY <4>4, <4>5, <4>6
      <4>9. Place(off, k, j + Size(k) * (q * z)) = Place(off, k, j)
        <5>1. off[k] \in Int /\ Size(k) \in Nat \ {0} /\ q * z \in Int /\ j \in Int
          BY <4>6, <4>8 DEF s
        <5>. HIDE DEF CongruentInv
        <5>. QED
          BY <5>1, PlaceAgain
      <4>. QED
        BY <4>1, <4>7, <4>8, <4>9 DEF s
    <3>. QED
      BY <3>1, <3>2
  <2>2. ASSUME NEW k \in DOMAIN headers, NEW p \in DOMAIN headers[k].index
        PROVE  LET key == entries'[headers[k].index[p]].key
               IN  \/ key = InvalidKey /\ k = Len(headers)
                   \/ \E j \in Nat : key = Start(j) /\ p = Place(off, k, j)
    <3>1. headers[k].index[p] \in DOMAIN entries
      BY HeaderEntries
    <3>2. CASE headers[k].index[p] = e
      BY <1>3, <1>7, <2>1, <3>2
    <3>3. CASE headers[k].index[p] # e
      BY <1>1, <1>7, <3>1, <3>3 DEF CongruentInv
    <3>. QED
      BY <3>2, <3>3
  <2>. QED
    BY <1>1, <1>2, <1>8, <2>2 DEF CongruentInv, Start
<1>10. CurrentInv(off, first)'
  <2>1. ASSUME NEW j \in Newest-n+1..Newest
        PROVE  LET entry == entries'[EntryOf(off, h, j)]
               IN  \/ entry.key = IF j < first THEN InvalidKey ELSE Start(j)
                   \/ /\ j = Blocks - n
                      /\ entry.key = Start(Blocks) /\ entry.value = None
    <3>1. EntryOf(off, h, j) \in DOMAIN entries
      BY <1>1, <1>6, PlaceIn
    <3>2. CASE j = Blocks - n
      BY <1>5, <1>7, <3>2
    <3>3. CASE j # Blocks - n
      <4>1. EntryOf(off, h, j) # e
        <5>1. /\ j \in Int /\ Blocks - n \in Int
              /\ j - (Blocks - n) < n /\ Blocks - n - j < n
          BY <1>3, <1>6
        <5>. QED
          BY <1>1, <1>5, <3>3, <5>1, EntriesApart
      <4>2. entries'[EntryOf(off, h, j)] = entries[EntryOf(off, h, j)]
        BY <1>7, <3>1, <4>1
      <4>. QED
        BY <1>1, <3>3, <4>2 DEF CurrentInv
    <3>. QED
      BY <3>2, <3>3
  <2>2. /\ Current.index \in [0..n-1 -> 1..n]
        /\ \A f \in 1..n : \E p \in 0..n-1 : Current.index[p] = f
        /\ \A p, q \in 0..n-1 : Current.index[p] = Current.index[q] => p = q
        /\ Current.tail = Place(off, h, Newest)
        /\ first = 0 \/ first <= Blocks - 1
    BY <1>1 DEF CurrentInv
  <2>3. /\ Len(entries)' = n /\ Len(headers)' = h
        /\ Current' = Current /\ Newest' = Newest /\ Blocks' = Blocks
        /\ \A j : EntryOf(off, h, j)' = EntryOf(off, h, j)
        /\ Place(off, h, Newest)' = Place(off, h, Newest)
    BY <1>2, <1>3, <1>7, <1>8
  <2>4. /\ Current'.index \in [0..Len(entries')-1 -> 1..Len(entries')]
        /\ \A f \in 1..Len(entries') :
             \E p \in 0..Len(entries')-1 : Current'.index[p] = f
        /\ \A p, q \in 0..Len(entries')-1 :
             Current'.index[p] = Current'.index[q] => p = q
        /\ Current'.tail = Place(off, Len(headers), Newest)'
        /\ first = 0 \/ first <= Blocks' - 1
    BY <2>2, <2>3
  <2>5. \A j \in Newest'-Len(entries')+1..Newest' :
          LET entry == entries'[EntryOf(off, Len(headers), j)']
          IN  \/ entry.key = IF j < first THEN InvalidKey ELSE Start(j)
              \/ /\ j = Blocks' - Len(entries')
                 /\ entry.key = Start(Blocks') /\ entry.value = None
    BY <2>1, <2>3
  <2>. HIDE DEF n, h
  <2>. QED
    BY <2>4, <2>5 DEF CurrentInv, Start
<1>11. LookupInv(off)'
  <2>1. ASSUME NEW c \in Consumer, consumer[c].pc \in {"tail", "key"}
        PROVE  entries'[EntryOf(off, consumer[c].header,
                                Number(consumer[c].index))].key
                 = Start(Number(consumer[c].index))
    <3>1. /\ EntryOf(off, consumer[c].header, Number(consumer[c].index))
               \in DOMAIN entries
          /\ EntryOf(off, consumer[c].header, Number(consumer[c].index)) # e
      BY <1>1, <1>2, <1>5, <1>7, <2>1, LookupEntries
    <3>. QED
      BY <1>1, <1>7, <2>1, <3>1 DEF LookupInv
  <2>2. ASSUME NEW c \in Consumer, At(c, "key")
        PROVE  entries'[headers[consumer[c].header].index[consumer[c].tail]].key
                 # InvalidKey
    <3>1. headers[consumer[c].header].index[consumer[c].tail] \in DOMAIN entries
      BY <1>1, <2>2, LookupEntries
    <3>2. TailKey(c) # InvalidKey
      BY <1>1, <2>2 DEF LookupInv
    <3>3. Start(Blocks) # InvalidKey
      BY <1>3, Starts
    <3>. QED
      BY <1>7, <3>1, <3>2, <3>3 DEF TailKey
  <2>. QED
    BY <1>2, <1>8, <2>1, <2>2 DEF LookupInv, TailKey, Start, Number, At
<1>. QED
  BY <1>1, <1>2, <1>9, <1>10, <1>11 DEF RingInv

\* The tail moves: no header has its entries elsewhere.
LEMMA TailSet ==
  ASSUME IndexInv, ConsumerInv, tailIndex \in Nat, headers # <<>>,
         NEW off, NEW first, RingInv(off, first), NEW t,
         headers' = [headers EXCEPT ![Len(headers)].tail = t],
         entries' = entries, consumer' = consumer, Blocks' = Blocks,
         t = Place(off, Len(headers), Newest'),
         \A j \in Newest'-Len(entries)+1..Newest' :
           LET entry == entries[EntryOf(off, Len(headers), j)]
           IN  \/ entry.key = IF j < first THEN InvalidKey ELSE Start(j)
               \/ /\ j = Blocks - Len(entries)
                  /\ entry.key = Start(Blocks) /\ entry.value = None
  PROVE  RingInv(off, first)'
<1>. DEFINE n == Len(entries)
            h == Len(headers)
<1>1. /\ off \in [DOMAIN headers -> Int] /\ first \in Nat
      /\ CongruentInv(off) /\ LookupInv(off) /\ CurrentInv(off, first)
  BY DEF RingInv
<1>2. /\ h \in DOMAIN headers /\ n \in Nat \ {0} /\ DOMAIN entries = 1..n
      /\ Current = headers[h] /\ Size(h) = n
      /\ DOMAIN Current.index = 0..n-1
  BY <1>1, CurrentSize
<1>3. /\ DOMAIN headers' = DOMAIN headers /\ Len(headers') = h
      /\ headers' # <<>>
      /\ \A k \in DOMAIN headers : headers'[k].index = headers[k].index
      /\ headers'[h].tail = t
  <2>1. headers \in Seq(UNION {HeaderType(m) : m \in Nat \ {0}})
    BY DEF IndexInv
  <2>2. PICK m \in Nat \ {0} : headers[h] \in HeaderType(m)
    BY <1>2, HeaderSize
  <2>3. /\ headers'[h].index = headers[h].index /\ headers'[h].tail = t
        /\ \A k \in DOMAIN headers : k # h => headers'[k] = headers[k]
    BY <1>2, <2>1, <2>2 DEF HeaderType
  <2>4. DOMAIN headers' = DOMAIN headers /\ Len(headers') = h
    BY <2>1
  <2>. QED
    BY <1>2, <2>3, <2>4
<1>4. \A k \in DOMAIN headers : Size(k)' = Size(k)
  BY <1>3 DEF Size, Capacity
<1>5. \A k \in DOMAIN headers : \A j :
        /\ Place(off, k, j)' = Place(off, k, j)
        /\ EntryOf(off, k, j)' = EntryOf(off, k, j)
  BY <1>3, <1>4 DEF Place, EntryOf
<1>6. Current' = headers'[h]
  BY <1>3 DEF Current, Last
<1>7. CongruentInv(off)'
  <2>1. \A k \in DOMAIN headers' : \A p \in DOMAIN headers'[k].index :
          LET key == entries'[headers'[k].index[p]].key
          IN  \/ key = InvalidKey /\ k = Len(headers')
              \/ \E j \in Nat : key = Start(j) /\ p = Place(off, k, j)'
    BY <1>1, <1>3, <1>5 DEF CongruentInv
  <2>2. \A k \in DOMAIN headers' :
          \E q \in Nat : Size(Len(headers))' = q * Size(k)'
    BY <1>1, <1>2, <1>3, <1>4 DEF CongruentInv
  <2>. QED
    BY <2>1, <2>2 DEF CongruentInv, Start
<1>8. CurrentInv(off, first)'
  <2>1. /\ Current.index \in [0..n-1 -> 1..n]
        /\ \A f \in 1..n : \E p \in 0..n-1 : Current.index[p] = f
        /\ \A p, q \in 0..n-1 : Current.index[p] = Current.index[q] => p = q
        /\ first = 0 \/ first <= Blocks - 1
    BY <1>1 DEF CurrentInv
  <2>2. Current'.index = Current.index /\ Current'.tail = t
    BY <1>2, <1>3, <1>6
  <2>3. /\ Current'.index \in [0..Len(entries')-1 -> 1..Len(entries')]
        /\ \A f \in 1..Len(entries') :
             \E p \in 0..Len(entries')-1 : Current'.index[p] = f
        /\ \A p, q \in 0..Len(entries')-1 :
             Current'.index[p] = Current'.index[q] => p = q
        /\ Current'.tail = Place(off, Len(headers), Newest)'
        /\ first = 0 \/ first <= Blocks' - 1
    <3>1. Place(off, Len(headers), Newest)' = Place(off, Len(headers), Newest')
      BY <1>2, <1>3, <1>4 DEF Place
    <3>. QED
      BY <2>1, <2>2, <3>1
  <2>4. \A j \in Newest'-Len(entries')+1..Newest' :
          LET entry == entries'[EntryOf(off, Len(headers), j)']
          IN  \/ entry.key = IF j < first THEN InvalidKey ELSE Start(j)
              \/ /\ j = Blocks' - Len(entries')
                 /\ entry.key = Start(Blocks') /\ entry.value = None
    <3>1. \A j : EntryOf(off, Len(headers), j)' = EntryOf(off, Len(headers), j)
      BY <1>2, <1>3, <1>4 DEF Place, EntryOf
    <3>. QED
      BY <3>1
  <2>. HIDE DEF n, h
  <2>. QED
    BY <2>3, <2>4 DEF CurrentInv, Start
<1>9. LookupInv(off)'
  <2>1. ASSUME NEW c \in Consumer, consumer[c].pc \in {"tail", "key"}
        PROVE  EntryOf(off, consumer[c].header, Number(consumer[c].index))'
                 = EntryOf(off, consumer[c].header, Number(consumer[c].index))
    <3>1. consumer[c].header \in DOMAIN headers
      BY <1>1, <2>1, LookupEntries
    <3>. QED
      BY <1>3, <1>4, <3>1, Zenon DEF EntryOf, Place, Number
  <2>2. ASSUME NEW c \in Consumer, At(c, "key")
        PROVE  TailKey(c)' = TailKey(c)
    <3>1. consumer[c].header \in DOMAIN headers
      BY <1>1, <2>2, LookupEntries DEF At
    <3>. QED
      BY <1>3, <3>1 DEF TailKey
  <2>3. ASSUME NEW c \in Consumer, consumer[c].pc \in {"tail", "key"}
        PROVE  (entries[EntryOf(off, consumer[c].header,
                                Number(consumer[c].index))].key
                  = Start(Number(consumer[c].index)))'
    <3>1. entries[EntryOf(off, consumer[c].header,
                          Number(consumer[c].index))].key
            = Start(Number(consumer[c].index))
      BY <1>1, <2>3 DEF LookupInv
    <3>. QED
      BY <2>1, <2>3, <3>1 DEF Start, Number
  <2>4. \A c \in Consumer : At(c, "key")' => TailKey(c)' # InvalidKey
    BY <1>1, <2>2 DEF LookupInv, At
  <2>. QED
    BY <2>3, <2>4 DEF LookupInv, Start, Number
<1>. QED
  BY <1>1, <1>3, <1>7, <1>8, <1>9 DEF RingInv

LEMMA TailAdvanced ==
  ASSUME IndexInv, ConsumerInv, tailIndex \in Nat, headers # <<>>,
         NEW off, NEW first, RingInv(off, first), AdvanceTail,
         producer.entry \in DOMAIN entries, producer \in ProducerType,
         entries[producer.entry].key = Start(Blocks)
  PROVE  RingInv(off, first)'
<1>. DEFINE n == Len(entries)
            h == Len(headers)
<1>1. CurrentInv(off, first) /\ first \in Nat
  BY DEF RingInv
<1>2. /\ headers' = [headers EXCEPT ![h].tail = NextPosition(Current)]
      /\ entries' = entries /\ consumer' = consumer /\ tailIndex' = tailIndex
      /\ producer.pc = "advance" /\ producer'.pc = "requisition"
  BY DEF AdvanceTail, counters, ProducerType
<1>3. /\ Blocks' = Blocks /\ Newest' = Blocks /\ Newest = Blocks - 1
      /\ Blocks \in Nat
  BY <1>2, BlocksType DEF Blocks, Newest
<1>4. NextPosition(Current) = Place(off, h, Newest')
  <2>1. Newest + 1 = Newest'
    BY <1>3
  <2>. QED
    BY <2>1, NextIs
<1>5. n \in Nat \ {0}
  BY <1>1, CurrentSize
<1>6. ASSUME NEW j \in Newest'-n+1..Newest'
      PROVE  LET entry == entries[EntryOf(off, h, j)]
             IN  \/ entry.key = IF j < first THEN InvalidKey ELSE Start(j)
                 \/ /\ j = Blocks - n
                    /\ entry.key = Start(Blocks) /\ entry.value = None
  <2>1. CASE j = Blocks
    <3>1. producer.entry = EntryOf(off, h, j)
      <4>1. Blocks \in Int
        BY <1>3
      <4>. QED
        BY <2>1, <4>1, KeyPlace
    <3>2. ~(j < first)
      BY <1>1, <1>3, <2>1 DEF CurrentInv
    <3>. QED
      BY <2>1, <3>1, <3>2
  <2>2. CASE j # Blocks
    <3>1. j \in Newest-n+1..Newest
      BY <1>3, <1>5, <2>2
    <3>. QED
      BY <1>1, <3>1 DEF CurrentInv
  <2>. QED
    BY <2>1, <2>2
<1>. QED
  BY <1>2, <1>3, <1>4, <1>6, TailSet

LEMMA TailRewound ==
  ASSUME IndexInv, ConsumerInv, tailIndex \in Nat, headers # <<>>,
         NEW off, NEW first, RingInv(off, first), RequisitionFails,
         producer.entry \in DOMAIN entries, producer \in ProducerType,
         entries[producer.entry].key = Start(Blocks),
         entries[producer.entry].value = None
  PROVE  RingInv(off, first)'
<1>. DEFINE n == Len(entries)
            h == Len(headers)
<1>1. CurrentInv(off, first) /\ first \in Nat
  BY DEF RingInv
<1>2. /\ headers' = [headers EXCEPT ![h].tail = Rewind(Current)]
      /\ entries' = entries /\ consumer' = consumer /\ tailIndex' = tailIndex
      /\ producer.pc = "requisition" /\ producer'.pc = "clear"
  BY DEF RequisitionFails, counters, ProducerType
<1>3. /\ Blocks' = Blocks /\ Newest' = Blocks - 1 /\ Newest = Blocks
      /\ Blocks \in Nat
  BY <1>2, BlocksType DEF Blocks, Newest
<1>4. Rewind(Current) = Place(off, h, Newest')
  <2>1. Newest - 1 = Newest'
    BY <1>3
  <2>. QED
    BY <2>1, NextIs
<1>5. n \in Nat \ {0} /\ Size(h) = n /\ h \in DOMAIN headers
  BY <1>1, CurrentSize
<1>6. ASSUME NEW j \in Newest'-n+1..Newest'
      PROVE  LET entry == entries[EntryOf(off, h, j)]
             IN  \/ entry.key = IF j < first THEN InvalidKey ELSE Start(j)
                 \/ /\ j = Blocks - n
                    /\ entry.key = Start(Blocks) /\ entry.value = None
  <2>1. CASE j = Blocks - n
    <3>1. producer.entry = EntryOf(off, h, Blocks)
      <4>1. Blocks \in Int
        BY <1>3
      <4>. QED
        BY <4>1, KeyPlace
    <3>2. Place(off, h, j + Size(h) * 1) = Place(off, h, j)
      <4>1. off[h] \in Int /\ Size(h) \in Nat \ {0} /\ j \in Int /\ 1 \in Int
        BY <1>5 DEF RingInv
      <4>. QED
        BY <4>1, PlaceAgain
    <3>3. j + Size(h) * 1 = Blocks
      BY <1>3, <1>5, <2>1
    <3>4. EntryOf(off, h, j) = producer.entry
      BY <3>1, <3>2, <3>3 DEF EntryOf
    <3>. QED
      BY <2>1, <3>4
  <2>2. CASE j # Blocks - n
    <3>1. j \in Newest-n+1..Newest
      <4>1. j \in (Blocks-1)-n+1..Blocks-1
        BY <1>3
      <4>2. n \in Nat \ {0} /\ Blocks \in Nat
        BY <1>3, <1>5
      <4>. HIDE DEF n
      <4>3. j \in Blocks-n+1..Blocks
        BY <2>2, <4>1, <4>2
      <4>. QED
        BY <1>3, <4>3
    <3>. QED
      BY <1>1, <3>1 DEF CurrentInv
  <2>. QED
    BY <2>1, <2>2
<1>. QED
  BY <1>2, <1>3, <1>4, <1>6, TailSet

\* A larger index holds all entries of the full one, the oldest first.
LEMMA IndexGrown ==
  ASSUME IndexInv, ConsumerInv, tailIndex \in Nat,
         NEW off, NEW first, RingInv(off, first), GrowIndex
  PROVE  \E off2, first2 : RingInv(off2, first2)'
<1>0. PICK n, h, e, nu, m, g, z :
         /\ n = Len(entries) /\ h = Len(headers)
         /\ e = NextEntry(Current) /\ nu = NextHeader(Current)
         /\ m = 2 * n /\ g = Newest - n + 1 /\ z = g + n - 1
  OBVIOUS
<1>1. /\ off \in [DOMAIN headers -> Int] /\ first \in Nat
      /\ CongruentInv(off) /\ LookupInv(off)
      /\ headers # <<>> /\ CurrentInv(off, first)
  BY DEF RingInv, GrowIndex
<1>2. /\ h \in DOMAIN headers /\ h \in Nat \ {0}
      /\ n \in Nat \ {0} /\ DOMAIN entries = 1..n /\ DOMAIN headers = 1..h
      /\ Current = headers[h] /\ Size(h) = n /\ Capacity(Current) = n
      /\ DOMAIN Current.index = 0..n-1
  BY <1>0, <1>1, CurrentSize, Headers DEF Size
<1>3. /\ producer.pc = "insert" /\ ~Reusable(e)
      /\ entries' = entries \o FreshEntries(Capacity(Current))
      /\ headers' = Append(headers, nu)
      /\ tailIndex' = tailIndex /\ consumer' = consumer /\ producer' = producer
  BY <1>0 DEF GrowIndex, counters
<1>4. /\ Blocks' = Blocks /\ Newest' = Newest /\ Newest = Blocks - 1
      /\ Blocks \in Nat
  BY <1>3, BlocksType DEF Blocks, Newest
<1>5. n \in Nat \ {0} /\ h \in Nat \ {0}
  BY <1>2
<1>6. /\ m = n + n /\ m \in Nat \ {0} /\ g \in Int /\ z \in Int
      /\ Newest = z /\ z = g + n - 1 /\ Newest - n + 1 = g
      /\ Newest + 1 - n = g
  BY <1>0, <1>2, <1>4
<1>7. /\ nu.tail = n - 1
      /\ DOMAIN nu.index = 0..m-1
      /\ \A i \in 0..m-1 :
           nu.index[i] = IF i < n THEN Current.index[(Current.tail + 1 + i) % n]
                         ELSE n + 1 + i - n
  BY <1>0, <1>2, <1>6 DEF NextHeader
<1>8. /\ Current.index \in [0..n-1 -> 1..n]
      /\ \A f \in 1..n : \E p \in 0..n-1 : Current.index[p] = f
      /\ Current.tail = Place(off, h, Newest)
      /\ \A j \in Newest-n+1..Newest :
           LET entry == entries[EntryOf(off, h, j)]
           IN  \/ entry.key = IF j < first THEN InvalidKey ELSE Start(j)
               \/ /\ j = Blocks - n
                  /\ entry.key = Start(Blocks) /\ entry.value = None
  BY <1>0, <1>1 DEF CurrentInv
<1>9. off[h] \in Int
  BY <1>1, <1>2
<1>10. /\ e = EntryOf(off, h, g) /\ e \in DOMAIN entries
  BY <1>0, <1>1, NextIs
<1>11. ASSUME NEW f \in DOMAIN entries
       PROVE  \E j \in g..z : f = EntryOf(off, h, j)
  BY <1>0, <1>1, <1>6, <1>11, EntryRange
<1>12. ASSUME NEW i \in Int, NEW j \in Int,
              EntryOf(off, h, i) = EntryOf(off, h, j), i - j < n, j - i < n
       PROVE  i = j
  BY <1>0, <1>1, <1>12, EntriesApart
<1>13. ASSUME NEW j \in Int
       PROVE  /\ Place(off, h, j) \in 0..n-1
              /\ EntryOf(off, h, j) \in 1..n
  BY <1>0, <1>1, <1>2, PlaceIn
<1>14. /\ entries' \in Seq(EntryType) /\ Len(entries') = m
       /\ \A f \in 1..n : entries'[f] = entries[f]
       /\ \A f \in n+1..m :
            entries'[f] = [key |-> InvalidKey, value |-> None]
  <2>1. PICK k \in Nat \ {0} :
           /\ Capacity(Current) = k
           /\ Len(entries') = Len(entries) + k
           /\ entries' \in Seq(EntryType)
           /\ \A f \in 1..Len(entries) : entries'[f] = entries[f]
           /\ \A f \in Len(entries)+1..Len(entries)+k :
                entries'[f] = [key |-> InvalidKey, value |-> None]
    <3>1. /\ headers # <<>>
          /\ entries' = entries \o FreshEntries(Capacity(Current))
          /\ headers' = Append(headers, NextHeader(Current))
      BY <1>0, <1>1, <1>3
    <3>. QED
      BY <3>1, Grows
  <2>2. k = n
    BY <1>2, <2>1
  <2>. QED
    BY <1>0, <1>5, <1>6, <2>1, <2>2
<1>15. /\ DOMAIN headers' = 1..h+1 /\ Len(headers') = h + 1
       /\ \A k \in 1..h : headers'[k] = headers[k]
       /\ headers'[h+1] = nu
       /\ Current' = nu
  <2>1. headers \in Seq(UNION {HeaderType(k) : k \in Nat \ {0}})
    BY DEF IndexInv
  <2>2. headers' = Append(headers, nu)
    BY <1>3
  <2>3. /\ DOMAIN headers' = 1..h+1 /\ Len(headers') = h + 1
        /\ \A k \in 1..h : headers'[k] = headers[k]
        /\ headers'[h+1] = nu
    BY <1>0, <1>2, <2>1, <2>2
  <2>. QED
    BY <2>3 DEF Current, Last
\* The old entries lie in order.
<1>16. ASSUME NEW i \in 0..n-1
       PROVE  /\ nu.index[i] = EntryOf(off, h, g + i)
              /\ nu.index[i] = Current.index[Place(off, h, g + i)]
              /\ g + i \in g..z
  <2>. DEFINE j == g + i
  <2>1. /\ j \in Int /\ z + (1 + i) = j + n * 1 /\ 1 + i \in Int
        /\ j \in g..z
    BY <1>5, <1>6
  <2>. HIDE DEF j
  <2>2. (Place(off, h, z) + (1 + i)) % Size(h) = Place(off, h, z + (1 + i))
    <3>1. Size(h) \in Nat \ {0} /\ z \in Int /\ 1 + i \in Int
      BY <1>2, <1>6, <2>1
    <3>. QED
      BY <1>9, <3>1, PlaceStep
  <2>3. Place(off, h, j + Size(h) * 1) = Place(off, h, j)
    <3>1. Size(h) \in Nat \ {0} /\ 1 \in Int
      BY <1>2
    <3>. QED
      BY <1>9, <2>1, <3>1, PlaceAgain
  <2>4. Place(off, h, z) \in Int
    BY <1>6, <1>13
  <2>5. Current.tail + 1 + i = Place(off, h, z) + (1 + i)
    BY <1>6, <1>8, <2>4
  <2>6. (Current.tail + 1 + i) % n = Place(off, h, j)
    BY <1>2, <2>1, <2>2, <2>3, <2>5
  <2>7. i \in 0..m-1 /\ i < n
    BY <1>5, <1>6
  <2>8. nu.index[i] = Current.index[Place(off, h, j)]
    BY <1>7, <2>6, <2>7
  <2>. QED
    BY <1>2, <2>1, <2>8 DEF EntryOf, j
<1>17. ASSUME NEW i \in n..m-1
       PROVE  nu.index[i] = i + 1 /\ nu.index[i] \in n+1..m
  <2>1. i \in 0..m-1 /\ ~(i < n) /\ n + 1 + i - n = i + 1 /\ i + 1 \in n+1..m
    BY <1>5, <1>6
  <2>. QED
    BY <1>7, <2>1
\* All keys are those of the latest blocks.
<1>18. ASSUME NEW j \in g..z
       PROVE  j >= first /\ entries[EntryOf(off, h, j)].key = Start(j)
  <2>1. g \in g..z
    BY <1>5, <1>6
  <2>2. entries[e].key # InvalidKey /\ entries[e].value # None
    BY <1>3 DEF Reusable
  <2>3. g..z = Newest-n+1..Newest
    BY <1>6
  <2>4. ~(g < first)
    BY <1>8, <1>10, <2>1, <2>2, <2>3
  <2>5. j >= first
    BY <1>1, <1>6, <2>4
  <2>6. j = Blocks - n => EntryOf(off, h, j) = e
    <3>1. Blocks - n = g
      BY <1>4, <1>5, <1>6
    <3>. QED
      BY <1>10, <3>1
  <2>7. ~(j < first)
    BY <1>1, <1>6, <2>5
  <2>. QED
    BY <1>8, <2>2, <2>3, <2>5, <2>6, <2>7
<1>19. g \in Nat
  <2>1. g \in g..z
    BY <1>5, <1>6
  <2>2. g >= first
    BY <1>18, <2>1
  <2>. QED
    BY <1>1, <1>6, <2>2
<1>. PICK off2 : off2 = [k \in 1..h+1 |-> IF k = h + 1 THEN -g ELSE off[k]]
  OBVIOUS
<1>20. /\ off2 \in [DOMAIN headers' -> Int]
       /\ off2[h+1] = -g
       /\ \A k \in 1..h : off2[k] = off[k]
  <2>1. ASSUME NEW k \in 1..h+1 PROVE (IF k = h + 1 THEN -g ELSE off[k]) \in Int
    <3>1. k = h + 1 \/ k \in 1..h
      BY <1>5
    <3>. QED
      BY <1>1, <1>2, <1>6, <3>1
  <2>2. \A k \in 1..h : k \in 1..h+1 /\ k # h + 1
    BY <1>5
  <2>3. h + 1 \in 1..h+1
    BY <1>5
  <2>. QED
    BY <1>15, <2>1, <2>2, <2>3
<1>21. /\ \A k \in 1..h : Size(k)' = Size(k)
       /\ Size(h+1)' = m
  <2>1. Cardinality(0..m-1) = m
    BY <1>6, FS_Interval
  <2>. QED
    BY <1>7, <1>15, <2>1 DEF Size, Capacity
<1>22. /\ \A k \in 1..h : \A j : Place(off2, k, j)' = Place(off, k, j)
       /\ \A k \in 1..h : \A j : EntryOf(off2, k, j)' = EntryOf(off, k, j)
       /\ \A j : EntryOf(off2, h+1, j)' = nu.index[Place(off2, h+1, j)']
  BY <1>15, <1>20, <1>21 DEF EntryOf, Place
<1>23. ASSUME NEW p \in 0..m-1
       PROVE  /\ Place(off2, h+1, g + p)' = p
              /\ Place(off2, h+1, g + p - m)' = p
  <2>1. Place(off2, h+1, g + p)' = p % m
    <3>1. -g + (g + p) = p
      BY <1>6
    <3>. QED
      BY <1>20, <1>21, <3>1 DEF Place
  <2>2. Place(off2, h+1, g + p - m)' = (p + m * (-1)) % m
    <3>1. -g + (g + p - m) = p + m * (-1)
      BY <1>6
    <3>. QED
      BY <1>20, <1>21, <3>1 DEF Place
  <2>3. p % m = p
    BY <1>6, SmallRemainder
  <2>4. (p + m * (-1)) % m = p % m
    <3>1. p \in Int /\ -1 \in Int
      OBVIOUS
    <3>. QED
      BY <1>6, <3>1, SameRemainder
  <2>. QED
    BY <2>1, <2>2, <2>3, <2>4
<1>24. CongruentInv(off2)'
  <2>1. ASSUME NEW k \in 1..h+1, NEW p \in DOMAIN headers'[k].index
        PROVE  LET key == entries'[headers'[k].index[p]].key
               IN  \/ key = InvalidKey /\ k = Len(headers')
                   \/ \E j \in Nat : key = Start(j) /\ p = Place(off2, k, j)'
    <3>1. CASE k \in 1..h
      <4>1. /\ k \in DOMAIN headers /\ p \in DOMAIN headers[k].index
            /\ headers'[k] = headers[k]
        BY <1>2, <1>15, <3>1
      <4>. DEFINE f == headers[k].index[p]
      <4>2. f \in DOMAIN entries
        BY <4>1, HeaderEntries
      <4>3. PICK j \in g..z : f = EntryOf(off, h, j)
        BY <1>11, <4>2
      <4>4. Start(j) # InvalidKey
        BY <1>6, Starts
      <4>5. entries[f].key = Start(j)
        BY <1>18, <4>3
      <4>6. PICK i \in Nat : entries[f].key = Start(i) /\ p = Place(off, k, i)
        BY <1>1, <4>1, <4>4, <4>5 DEF CongruentInv
      <4>7. entries'[f] = entries[f]
        BY <1>2, <1>14, <4>2
      <4>8. p = Place(off2, k, i)'
        BY <1>22, <3>1, <4>6
      <4>. QED
        BY <4>1, <4>6, <4>7, <4>8
    <3>2. CASE k = h + 1
      <4>1. p \in 0..m-1 /\ headers'[k].index[p] = nu.index[p]
        BY <1>7, <1>15, <3>2
      <4>2. CASE p \in 0..n-1
        <5>1. /\ g + p \in g..z /\ nu.index[p] = EntryOf(off, h, g + p)
          BY <1>16, <4>2
        <5>2. entries[nu.index[p]].key = Start(g + p)
          BY <1>18, <5>1
        <5>3. nu.index[p] \in 1..n /\ g + p \in Nat
          <6>1. g + p \in Int
            BY <1>6, <4>1
          <6>. QED
            BY <1>13, <1>19, <4>1, <5>1, <6>1
        <5>4. Place(off2, h+1, g + p)' = p
          BY <1>23, <4>1
        <5>5. entries'[nu.index[p]].key = Start(g + p)
          BY <1>14, <5>2, <5>3
        <5>. QED
          BY <3>2, <4>1, <5>3, <5>4, <5>5
      <4>3. CASE p \in n..m-1
        <5>1. nu.index[p] \in n+1..m
          BY <1>17, <4>3
        <5>. QED
          BY <1>14, <1>15, <3>2, <4>1, <5>1
      <4>4. p \in 0..n-1 \/ p \in n..m-1
        BY <1>5, <1>6, <4>1
      <4>. QED
        BY <4>2, <4>3, <4>4
    <3>3. k \in 1..h \/ k = h + 1
      BY <1>5
    <3>. QED
      BY <3>1, <3>2, <3>3
  <2>2. ASSUME NEW k \in 1..h+1
        PROVE  \E q \in Nat : Size(Len(headers))' = q * Size(k)'
    <3>0. Size(Len(headers))' = m
      BY <1>15, <1>21
    <3>1. CASE k \in 1..h
      <4>1. PICK q \in Nat : n = q * Size(k)
        BY <1>0, <1>1, <1>2, <3>1 DEF CongruentInv
      <4>2. Size(k) \in Nat
        BY <1>1, <1>2, <3>1, PlaceIn
      <4>3. q + q \in Nat /\ (q + q) * Size(k) = q * Size(k) + q * Size(k)
        BY <4>2
      <4>4. Size(k)' = Size(k)
        BY <1>21, <3>1
      <4>5. m = (q + q) * Size(k)
        BY <1>6, <4>1, <4>3
      <4>. QED
        BY <3>0, <4>3, <4>4, <4>5
    <3>2. CASE k = h + 1
      <4>1. m = 1 * m
        BY <1>6
      <4>. QED
        BY <1>21, <3>0, <3>2, <4>1
    <3>3. k \in 1..h \/ k = h + 1
      BY <1>5
    <3>. QED
      BY <3>1, <3>2, <3>3
  <2>. QED
    BY <1>15, <2>1, <2>2 DEF CongruentInv, Start
<1>25. CurrentInv(off2, g)'
  <2>0. ASSUME NEW i \in 0..m-1
        PROVE  \/ i \in 0..n-1 /\ g + i \in Int /\ nu.index[i] \in 1..n
                  /\ nu.index[i] = EntryOf(off, h, g + i)
               \/ i \in n..m-1 /\ nu.index[i] = i + 1 /\ nu.index[i] \in n+1..m
    <3>1. i \in 0..n-1 \/ i \in n..m-1
      BY <1>5, <1>6
    <3>2. CASE i \in 0..n-1
      <4>1. g + i \in Int
        BY <1>6
      <4>. QED
        BY <1>13, <1>16, <3>2, <4>1
    <3>. QED
      BY <1>17, <3>1, <3>2
  <2>1. ASSUME NEW i \in 0..m-1 PROVE nu.index[i] \in 1..m
    <3>1. 1..n \subseteq 1..m /\ n+1..m \subseteq 1..m
      BY <1>5, <1>6
    <3>. QED
      BY <2>0, <3>1
  <2>2. ASSUME NEW f \in 1..m
        PROVE  \E p \in 0..m-1 : nu.index[p] = f
    <3>1. CASE f \in 1..n
      <4>1. f \in DOMAIN entries
        BY <1>2, <3>1
      <4>2. PICK j \in g..z : f = EntryOf(off, h, j)
        BY <1>11, <4>1
      <4>3. PICK i \in 0..n-1 : i = j - g
        BY <1>5, <1>6
      <4>4. g + i = j /\ i \in 0..m-1
        BY <1>5, <1>6, <4>3
      <4>5. nu.index[i] = f
        BY <1>16, <4>2, <4>4
      <4>. QED
        BY <4>4, <4>5
    <3>2. CASE f \in n+1..m
      <4>1. PICK i \in n..m-1 : i + 1 = f
        <5>1. f - 1 \in n..m-1 /\ (f - 1) + 1 = f
          BY <1>5, <1>6, <3>2
        <5>. QED
          BY <5>1
      <4>2. nu.index[i] = f /\ i \in 0..m-1
        BY <1>5, <1>6, <1>17, <4>1
      <4>. QED
        BY <4>2
    <3>3. f \in 1..n \/ f \in n+1..m
      BY <1>5, <1>6
    <3>. QED
      BY <3>1, <3>2, <3>3
  <2>3. ASSUME NEW p \in 0..m-1, NEW q \in 0..m-1,
               nu.index[p] = nu.index[q]
        PROVE  p = q
    <3>1. ~(nu.index[p] \in 1..n /\ nu.index[q] \in n+1..m)
      BY <1>5, <2>3
    <3>2. ~(nu.index[q] \in 1..n /\ nu.index[p] \in n+1..m)
      BY <1>5, <2>3
    <3>3. CASE p \in 0..n-1 /\ q \in 0..n-1
      <4>. DEFINE i == g + p
                  j == g + q
      <4>1. EntryOf(off, h, i) = EntryOf(off, h, j)
        BY <1>16, <2>3, <3>3
      <4>2. i \in Int /\ j \in Int /\ i - j < n /\ j - i < n
        BY <1>5, <1>6, <3>3
      <4>. HIDE DEF i, j
      <4>3. i = j
        BY <1>12, <4>1, <4>2
      <4>4. g + p = g + q
        BY <4>3 DEF i, j
      <4>. QED
        BY <1>6, <4>4
    <3>4. CASE p \in n..m-1 /\ q \in n..m-1
      <4>1. p + 1 = q + 1
        BY <1>17, <2>3, <3>4
      <4>. QED
        BY <4>1
    <3>. QED
      BY <2>0, <3>1, <3>2, <3>3, <3>4
  <2>4. nu.tail = Place(off2, h+1, Newest)'
    <3>1. n - 1 \in 0..m-1 /\ g + (n - 1) = Newest
      BY <1>5, <1>6
    <3>2. Place(off2, h+1, g + (n - 1))' = n - 1
      BY <1>23, <3>1
    <3>3. Newest' = g + (n - 1)
      BY <1>4, <3>1
    <3>. QED
      BY <1>7, <3>2, <3>3 DEF Place
  <2>5. g <= Blocks' - 1
    BY <1>4, <1>5, <1>6
  <2>6. ASSUME NEW j \in z-m+1..z
        PROVE  entries'[EntryOf(off2, h+1, j)'].key
                 = IF j < g THEN InvalidKey ELSE Start(j)
    <3>0. EntryOf(off2, h+1, j)' = nu.index[Place(off2, h+1, j)']
      BY <1>22
    <3>1. CASE j >= g
      <4>1. PICK i \in 0..n-1 : i = j - g
        BY <1>5, <1>6, <3>1
      <4>2. g + i = j /\ i \in 0..m-1 /\ j \in g..z /\ j \in Int
        BY <1>5, <1>6, <3>1, <4>1
      <4>3. EntryOf(off2, h+1, j)' = nu.index[i]
        BY <1>23, <3>0, <4>2
      <4>4. nu.index[i] = EntryOf(off, h, j)
        BY <1>16, <4>2
      <4>5. entries'[nu.index[i]] = entries[EntryOf(off, h, j)]
        BY <1>13, <1>14, <4>2, <4>4
      <4>6. ~(j < g)
        BY <1>6, <3>1, <4>2
      <4>. QED
        BY <1>18, <4>2, <4>3, <4>5, <4>6
    <3>2. CASE j < g
      <4>1. PICK i \in n..m-1 : i = j - g + m
        BY <1>5, <1>6, <3>2
      <4>2. g + i - m = j /\ i \in 0..m-1
        BY <1>5, <1>6, <3>2, <4>1
      <4>3. EntryOf(off2, h+1, j)' = nu.index[i]
        BY <1>23, <3>0, <4>2
      <4>4. nu.index[i] \in n+1..m
        BY <1>17
      <4>. QED
        BY <1>14, <3>2, <4>3, <4>4
    <3>. QED
      BY <1>6, <3>1, <3>2
  <2>7. Len(entries') = m /\ Len(headers') = h + 1 /\ Newest' = z
    BY <1>4, <1>6, <1>14, <1>15
  <2>8. nu.index \in [0..m-1 -> 1..m]
    <3>1. nu.index = [i \in 0..m-1 |-> nu.index[i]]
      BY <1>0, <1>6, <1>7 DEF NextHeader
    <3>. QED
      BY <2>1, <3>1
  <2>9. /\ Current'.index \in [0..Len(entries')-1 -> 1..Len(entries')]
        /\ \A f \in 1..Len(entries') :
             \E p \in 0..Len(entries')-1 : Current'.index[p] = f
        /\ \A p, q \in 0..Len(entries')-1 :
             Current'.index[p] = Current'.index[q] => p = q
        /\ Current'.tail = Place(off2, Len(headers), Newest)'
        /\ g = 0 \/ g <= Blocks' - 1
    <3>1. Place(off2, Len(headers), Newest)' = Place(off2, h+1, Newest)'
      BY <2>7 DEF Place
    <3>. QED
      BY <1>15, <2>2, <2>3, <2>4, <2>5, <2>7, <2>8, <3>1
  <2>10. \A j \in Newest'-Len(entries')+1..Newest' :
           LET entry == entries'[EntryOf(off2, Len(headers), j)']
           IN  entry.key = IF j < g THEN InvalidKey ELSE Start(j)
    <3>1. \A j : EntryOf(off2, Len(headers), j)' = EntryOf(off2, h+1, j)'
      BY <2>7 DEF EntryOf, Place
    <3>. QED
      BY <2>6, <2>7, <3>1
  <2>. QED
    BY <2>9, <2>10 DEF CurrentInv, Start
<1>26. LookupInv(off2)'
  <2>1. ASSUME NEW c \in Consumer, consumer[c].pc \in {"tail", "key"}
        PROVE  (entries[EntryOf(off2, consumer[c].header,
                                Number(consumer[c].index))].key
                  = Start(Number(consumer[c].index)))'
    <3>. DEFINE f == EntryOf(off, consumer[c].header, Number(consumer[c].index))
    <3>1. f \in DOMAIN entries /\ consumer[c].header \in 1..h
      BY <1>1, <1>2, <2>1, LookupEntries
    <3>2. entries[f].key = Start(Number(consumer[c].index))
      BY <1>1, <2>1 DEF LookupInv
    <3>3. EntryOf(off2, consumer[c].header, Number(consumer[c].index))' = f
      BY <1>3, <1>15, <1>20, <1>21, <3>1, ZenonT(30) DEF EntryOf, Place, Number
    <3>4. entries'[f] = entries[f]
      BY <1>2, <1>14, <3>1
    <3>. QED
      BY <1>3, <3>2, <3>3, <3>4 DEF Start, Number
  <2>2. ASSUME NEW c \in Consumer, At(c, "key")
        PROVE  TailKey(c)' # InvalidKey
    <3>1. /\ headers[consumer[c].header].index[consumer[c].tail]
                \in DOMAIN entries
          /\ consumer[c].header \in 1..h
      BY <1>1, <1>2, <2>2, LookupEntries DEF At
    <3>2. TailKey(c)' = TailKey(c)
      BY <1>2, <1>3, <1>14, <1>15, <3>1, ZenonT(30) DEF TailKey
    <3>. QED
      BY <1>1, <2>2, <3>2 DEF LookupInv
  <2>. QED
    BY <1>3, <2>1, <2>2 DEF LookupInv, Start, Number, At
<1>27. RingInv(off2, g)'
  BY <1>19, <1>20, <1>24, <1>25, <1>26 DEF RingInv
<1>. QED
  BY <1>27

-----------------------------------------------------------------------------
\* What the invariant says of the elements.
LEMMA Numbers ==
  ASSUME tailIndex \in Nat, ProducerPart
  PROVE  /\ Blocks \in Nat
         /\ tailIndex <= Start(Blocks)
         /\ \A i \in Nat : Filled(i) => Number(i) \in 0..Blocks-1
         /\ \A i \in Nat : i < tailIndex => Number(i) \in 0..Blocks-1
         /\ producer.pc \in {"construct", "publish"} =>
              /\ Number(tailIndex) = Blocks - 1
              /\ Offset(tailIndex) = tailIndex - Start(Blocks - 1)
         /\ producer.pc \in {"advance", "requisition", "clear", "link"} =>
              tailIndex = Start(Blocks)
         /\ Blocks > 0 => Start(Blocks - 1) <= tailIndex
         /\ Blocks > 0 /\ producer.pc = "idle" => Start(Blocks - 1) < tailIndex
<1>. DEFINE b == Blocks
            t == Number(tailIndex)
<1>1. /\ t \in Nat /\ Start(t) \in Int /\ Start(t) <= tailIndex
      /\ tailIndex < Start(t) + BlockSize
      /\ Start(t + 1) = Start(t) + BlockSize
      /\ Offset(tailIndex) = tailIndex - Start(t)
  <2>1. /\ t \in Nat /\ Offset(tailIndex) = tailIndex - Start(t)
        /\ Offset(tailIndex) \in 0..BlockSize-1
    BY NumberOf
  <2>2. Start(t) \in Int /\ Start(t + 1) = Start(t) + BlockSize
    BY <2>1, Starts
  <2>. HIDE DEF t
  <2>. QED
    BY <2>1, <2>2, Sizes
<1>2. \/ b = t /\ tailIndex = Start(t)
         /\ producer.pc \notin {"construct", "publish"}
      \/ b = t + 1
         /\ (tailIndex # Start(t) \/ producer.pc \in {"construct", "publish"})
  <2>. HIDE DEF t
  <2>. QED
    BY <1>1 DEF Blocks, t
<1>. HIDE DEF b, t
<1>3. b \in Nat /\ tailIndex <= Start(b) /\ Start(b) \in Int
  BY <1>1, <1>2, Sizes
<1>4. ASSUME NEW i \in Nat, i < tailIndex \/ (b = t + 1 /\ i = tailIndex)
      PROVE  Number(i) \in 0..b-1
  <2>. DEFINE n == Number(i)
  <2>1. n \in Nat /\ i \in Elements(n)
    BY NumberOf
  <2>2. Start(n) \in Int /\ Start(n) <= i
    BY <2>1, Starts, Sizes DEF Elements
  <2>. HIDE DEF n
  <2>3. b <= n => Start(b) <= Start(n)
    <3>1. b < n => Start(b) + BlockSize <= Start(n)
      BY <1>3, <2>1, Starts
    <3>. QED
      BY <1>3, <2>1, <2>2, <3>1, Sizes
  <2>4. ~(b <= n)
    BY <1>1, <1>2, <1>3, <1>4, <2>2, <2>3, Sizes
  <2>. QED
    BY <1>3, <2>1, <2>4 DEF n
<1>5. ASSUME NEW i \in Nat, Filled(i) PROVE Number(i) \in 0..b-1
  <2>1. CASE i < tailIndex
    BY <1>4, <2>1
  <2>2. CASE i = tailIndex /\ producer.pc = "publish"
    <3>1. b = t + 1
      BY <1>2, <2>2
    <3>. QED
      BY <1>4, <2>2, <3>1
  <2>. QED
    BY <1>5, <2>1, <2>2 DEF Filled
<1>6. b > 0 => /\ Start(b - 1) <= tailIndex
               /\ producer.pc = "idle" => Start(b - 1) < tailIndex
  <2>1. b > 0 => Start(b - 1) \in Int /\ Start((b - 1) + 1) = Start(b - 1) + BlockSize
    BY <1>3, Starts
  <2>2. (b - 1) + 1 = b /\ (t + 1) - 1 = t
    BY <1>1, <1>3
  <2>. QED
    BY <1>1, <1>2, <1>3, <2>1, <2>2, Sizes
<1>7. producer.pc \in {"construct", "publish"} =>
        t = b - 1 /\ Offset(tailIndex) = tailIndex - Start(b - 1)
  <2>1. (t + 1) - 1 = t
    BY <1>1
  <2>. QED
    BY <1>1, <1>2, <2>1
<1>8. producer.pc \in {"advance", "requisition", "clear", "link"} =>
        tailIndex = Start(b)
  BY <1>1, <1>2 DEF ProducerPart
<1>9. /\ \A i \in Nat : Filled(i) => Number(i) \in 0..b-1
      /\ \A i \in Nat : i < tailIndex => Number(i) \in 0..b-1
  BY <1>4, <1>5
<1>. QED
  BY <1>3, <1>6, <1>7, <1>8, <1>9 DEF b, t

LEMMA WantedBy ==
  ASSUME NEW i \in Int, Open(i)
  PROVE  Wanted(Number(i))
<1>1. i \in Elements(Number(i))
  BY NumberOf
<1>. QED
  BY <1>1 DEF Wanted

\* What the counters say.
LEMMA Counted ==
  ASSUME IInv
  PROVE  /\ tailIndex \in Nat /\ headIndex \in Nat /\ headIndex <= tailIndex
         /\ items \in Seq(Item) /\ Len(items) = tailIndex
         /\ \A c \in Consumer :
              /\ consumer[c] \in ConsumerType
              /\ consumer[c].index \in Nat
              /\ Number(consumer[c].index) \in Nat
              /\ Claimed(c) => consumer[c].index < headIndex
              /\ Reading(c) => Claimed(c)
              /\ Holding(c) => Reading(c)
<1>1. /\ tailIndex \in Nat /\ headIndex \in Nat
      /\ items \in Seq(Item) /\ Len(items) = tailIndex
  BY DEF IInv, ShapeInv, CounterInv
<1>2. headIndex <= tailIndex
  BY AccountingHolds DEF IInv, Accounting
<1>3. ASSUME NEW c \in Consumer
      PROVE  /\ consumer[c] \in ConsumerType
             /\ consumer[c].index \in Nat
             /\ Claimed(c) => consumer[c].index < headIndex
  BY DEF IInv, ShapeInv, ConsumerInv, ConsumerType
<1>4. ASSUME NEW c \in Consumer
      PROVE  /\ Reading(c) => Claimed(c)
             /\ Holding(c) => Reading(c)
  BY DEF Reading, Holding, Claimed
<1>5. ASSUME NEW c \in Consumer
      PROVE  Number(consumer[c].index) \in Nat
  BY <1>3, NumberOf
<1>. QED
  BY <1>1, <1>2, <1>3, <1>4, <1>5

\* A claimed element that has not been counted has its block in the index.
LEMMA ReadingLinked ==
  ASSUME IInv, ProducerPart, LinkInv, NEW c \in Consumer, Reading(c)
  PROVE  /\ Wanted(Number(consumer[c].index))
         /\ Number(consumer[c].index) \in 0..Blocks-1
         /\ \E e \in DOMAIN entries : Holds(e, Number(consumer[c].index))
         /\ headers # <<>>
<1>. DEFINE i == consumer[c].index
<1>1. i \in Nat /\ i < headIndex /\ i < tailIndex /\ tailIndex \in Nat
  BY Counted
<1>2. Open(i)
  BY DEF Open
<1>. HIDE DEF i
<1>3. Wanted(Number(i))
  BY <1>1, <1>2, WantedBy
<1>4. Number(i) \in 0..Blocks-1
  BY <1>1, Numbers
<1>5. \E e \in DOMAIN entries : Holds(e, Number(i))
  BY <1>3, <1>4 DEF LinkInv
<1>6. headers # <<>>
  <2>1. PICK e \in DOMAIN entries : Holds(e, Number(i))
    BY <1>5
  <2>2. phase = "alive"
    <3>1. ~Quiet
      BY DEF Quiet, Reading, At
    <3>. QED
      BY <3>1 DEF IInv, ShapeInv, CounterInv
  <2>. QED
    BY <1>1, <2>2 DEF IInv, ShapeInv, ProducerInv
<1>. QED
  BY <1>3, <1>4, <1>5, <1>6 DEF i

\* Where a reader who has the tail's position and key will look.
LEMMA PositionIs ==
  ASSUME IndexInv, NEW off \in [DOMAIN headers -> Int], CongruentInv(off),
         NEW k \in DOMAIN headers, NEW t \in DOMAIN headers[k].index,
         entries[headers[k].index[t]].key # InvalidKey, NEW i \in Nat
  PROVE  Position(headers[k], t, entries[headers[k].index[t]].key, i)
           = Place(off, k, Number(i))
<1>1. PICK j \in Nat : /\ entries[headers[k].index[t]].key = Start(j)
                       /\ t = Place(off, k, j)
  BY DEF CongruentInv
<1>2. Number(i) \in Int /\ Base(i) = Start(Number(i))
  BY NumberOf
<1>3. (Base(i) - Start(j)) \div BlockSize = Number(i) - j
  BY <1>2, StartsApart
<1>4. Size(k) \in Nat \ {0} /\ off[k] \in Int
  BY PlaceIn
<1>5. (Place(off, k, j) + (Number(i) - j)) % Size(k)
        = Place(off, k, j + (Number(i) - j))
  <2>1. Number(i) - j \in Int /\ j \in Int
    BY <1>2
  <2>. QED
    BY <1>4, <2>1, PlaceStep
<1>6. j + (Number(i) - j) = Number(i)
  BY <1>2
<1>. QED
  BY <1>1, <1>3, <1>5, <1>6 DEF Position, Size

\* The tail's entry has a key once there is a block.
LEMMA TailHasKey ==
  ASSUME IndexInv, tailIndex \in Nat, NEW off, NEW first, RingInv(off, first),
         Blocks > 0, NEW k \in DOMAIN headers
  PROVE  /\ headers[k].tail \in DOMAIN headers[k].index
         /\ entries[headers[k].index[headers[k].tail]].key # InvalidKey
<1>1. /\ off \in [DOMAIN headers -> Int] /\ first \in Nat
      /\ CongruentInv(off) /\ headers # <<>>
  <2>1. headers # <<>>
    <3>1. headers \in Seq(UNION {HeaderType(n) : n \in Nat \ {0}})
      BY DEF IndexInv
    <3>. QED
      BY <3>1
  <2>. QED
    BY <2>1 DEF RingInv
<1>2. headers[k].tail \in DOMAIN headers[k].index
  <2>1. 0 \in Int
    OBVIOUS
  <2>. QED
    BY <1>1, <2>1, PlaceIn
<1>3. CASE k # Len(headers)
  <2>1. PICK j \in Nat :
          entries[headers[k].index[headers[k].tail]].key = Start(j)
    BY <1>1, <1>2, <1>3 DEF CongruentInv
  <2>2. Start(j) # InvalidKey
    BY Starts
  <2>. QED
    BY <1>2, <2>1, <2>2
<1>4. CASE k = Len(headers)
  <2>1. CurrentInv(off, first)
    BY <1>1 DEF RingInv
  <2>. DEFINE n == Len(entries)
  <2>2. Current = headers[k] /\ n \in Nat \ {0}
    BY <1>1, <1>4, <2>1, CurrentSize
  <2>3. /\ Newest \in Int /\ Blocks \in Nat
        /\ Newest = Blocks \/ Newest = Blocks - 1
    BY BlocksType
  <2>4. headers[k].tail = Place(off, k, Newest)
    BY <1>4, <2>1, <2>2 DEF CurrentInv
  <2>5. first = 0 \/ first <= Blocks - 1
    BY <2>1 DEF CurrentInv
  <2>6. \A j \in Newest-n+1..Newest :
          LET entry == entries[EntryOf(off, k, j)]
          IN  \/ entry.key = IF j < first THEN InvalidKey ELSE Start(j)
              \/ /\ j = Blocks - n
                 /\ entry.key = Start(Blocks) /\ entry.value = None
    BY <1>4, <2>1 DEF CurrentInv
  <2>. HIDE DEF n
  <2>7. Newest \in Newest-n+1..Newest /\ ~(Newest < first)
    BY <1>1, <2>2, <2>3, <2>5
  <2>8. \/ entries[EntryOf(off, k, Newest)].key = Start(Newest)
        \/ entries[EntryOf(off, k, Newest)].key = Start(Blocks)
    BY <2>6, <2>7
  <2>9. Start(Newest) # InvalidKey /\ Start(Blocks) # InvalidKey
    BY <2>3, Starts
  <2>. QED
    BY <1>2, <2>4, <2>8, <2>9 DEF EntryOf
<1>. QED
  BY <1>3, <1>4

-----------------------------------------------------------------------------
\* What most steps leave as it is: the blocks in the index, the elements their
\* counters have not heard of, what is in the slots, and who has a block.
LinksKept ==
  /\ DOMAIN entries \subseteq DOMAIN entries'
  /\ \A e \in DOMAIN entries :
       entries[e].value # None => entries'[e] = entries[e]
  /\ \A e \in DOMAIN entries' :
       entries'[e].value # None =>
         e \in DOMAIN entries /\ entries'[e] = entries[e]
LinksStay ==
  \A e \in DOMAIN entries :
    entries[e].value # None => e \in DOMAIN entries' /\ entries'[e] = entries[e]
OpenShrinks == \A i \in Int : Open(i)' => Open(i)
PresentKept == \A i \in Int : Present(i)' <=> Present(i)
OpenKept == \A i \in Int : Open(i)' <=> Open(i)
ShownKept == \A i \in Nat : Shown(i)' = Shown(i)
GivenKept ==
  \A c \in Consumer : At(c, "recycle") \/ At(c, "recycle")' =>
    /\ At(c, "recycle") /\ At(c, "recycle")'
    /\ consumer'[c].block = consumer[c].block

LEMMA SameWanted ==
  ASSUME OpenKept, NEW j \in Int
  PROVE  (Wanted(j)' <=> Wanted(j)) /\ Spent(j)' = Spent(j)
<1>1. Elements(j) \subseteq Int /\ Elements(j)' = Elements(j)
  BY ElementsOf DEF Elements, Start
<1>2. \A i \in Elements(j) : Open(i)' <=> Open(i)
  BY <1>1 DEF OpenKept
<1>. QED
  BY <1>1, <1>2 DEF Wanted, Spent

LEMMA SameHolds ==
  ASSUME LinksKept
  PROVE  /\ \A j : \A e \in DOMAIN entries :
              Holds(e, j) => e \in DOMAIN entries' /\ Holds(e, j)'
                             /\ entries'[e].value = entries[e].value
         /\ \A j : \A e \in DOMAIN entries' :
              Holds(e, j)' => e \in DOMAIN entries /\ Holds(e, j)
                              /\ entries'[e].value = entries[e].value
         /\ \A b : b # None => (Linked(b)' <=> Linked(b))
BY DEF LinksKept, Holds, Start, Linked

LEMMA LinkKept ==
  ASSUME LinkInv, tailIndex \in Nat, LinksKept, OpenKept,
         Blocks' = Blocks, tailBlock' = tailBlock,
         \A e \in DOMAIN entries : entries[e].value # None =>
           emptied'[entries[e].value] = emptied[entries[e].value],
         \A c \in Consumer : At(c, "unlink") =>
           At(c, "unlink")' /\ consumer'[c].entry = consumer[c].entry
  PROVE  LinkInv'
<1>0. Blocks \in Nat
  BY BlocksType
<1>1. ASSUME NEW e \in DOMAIN entries', entries'[e].value # None
      PROVE  \E j \in 0..Blocks'-1 :
               /\ entries'[e].key = Start(j)
               /\ \/ Wanted(j)'
                  \/ \E c \in Consumer :
                       At(c, "unlink")' /\ consumer'[c].entry = e
  <2>1. /\ e \in DOMAIN entries /\ entries'[e] = entries[e]
        /\ entries[e].value # None
    BY <1>1 DEF LinksKept
  <2>2. PICK j \in 0..Blocks-1 :
           /\ entries[e].key = Start(j)
           /\ \/ Wanted(j)
              \/ \E c \in Consumer : At(c, "unlink") /\ consumer[c].entry = e
    BY <2>1 DEF LinkInv
  <2>3. Wanted(j)' <=> Wanted(j)
    <3>1. j \in Int
      BY <1>0
    <3>. QED
      BY <3>1, SameWanted
  <2>. QED
    BY <2>1, <2>2, <2>3
<1>2. ASSUME NEW j \in 0..Blocks'-1, Wanted(j)'
      PROVE  \E e \in DOMAIN entries' : Holds(e, j)'
  <2>1. j \in Int /\ j \in 0..Blocks-1
    BY <1>0
  <2>2. Wanted(j)
    BY <1>2, <2>1, SameWanted
  <2>3. PICK e \in DOMAIN entries : Holds(e, j)
    BY <2>1, <2>2 DEF LinkInv
  <2>4. e \in DOMAIN entries' /\ Holds(e, j)'
    BY <2>3, SameHolds
  <2>. QED
    BY <2>4
<1>3. ASSUME NEW e \in DOMAIN entries', NEW j \in Nat, Holds(e, j)'
      PROVE  emptied'[entries'[e].value] = Cardinality(Spent(j))'
  <2>1. /\ e \in DOMAIN entries /\ Holds(e, j)
        /\ entries'[e].value = entries[e].value /\ entries[e].value # None
    BY <1>3, SameHolds DEF Holds
  <2>2. emptied[entries[e].value] = Cardinality(Spent(j))
    BY <2>1 DEF LinkInv
  <2>3. Spent(j)' = Spent(j)
    BY SameWanted
  <2>. QED
    BY <2>1, <2>2, <2>3
<1>4. ASSUME NEW e \in DOMAIN entries', Holds(e, Blocks - 1)'
      PROVE  tailBlock' = entries'[e].value
  <2>1. Holds(e, Blocks - 1)' => /\ e \in DOMAIN entries
                                 /\ Holds(e, Blocks - 1)
                                 /\ entries'[e].value = entries[e].value
    <3>1. PICK j : j = Blocks - 1
      OBVIOUS
    <3>2. Holds(e, Blocks - 1)' <=> Holds(e, j)'
      BY <3>1 DEF Holds, Start
    <3>. QED
      BY <3>1, <3>2, SameHolds
  <2>. QED
    BY <1>4, <2>1 DEF LinkInv
<1>. QED
  BY <1>1, <1>2, <1>3, <1>4 DEF LinkInv, Start

LEMMA OwnerKept ==
  ASSUME OwnerInv, None \notin Block, LinksKept, GivenKept,
         freeBlocks' = freeBlocks, producer'.block = producer.block
  PROVE  OwnerInv'
<1>1. ASSUME NEW b \in Block
      PROVE  (Linked(b)' <=> Linked(b)) /\ (Given(b)' <=> Given(b))
  <2>1. b # None
    OBVIOUS
  <2>2. Linked(b)' <=> Linked(b)
    BY <2>1, SameHolds
  <2>3. Given(b)' <=> Given(b)
    BY DEF Given, GivenKept
  <2>. QED
    BY <2>2, <2>3
<1>2. \A e, f \in DOMAIN entries' :
        entries'[e].value = entries'[f].value /\ entries'[e].value # None
          => e = f
  BY DEF LinksKept, OwnerInv
<1>3. \A c, d \in Consumer :
        /\ At(c, "recycle")' /\ At(d, "recycle")'
        /\ consumer'[c].block = consumer'[d].block
        => c = d
  BY DEF GivenKept, OwnerInv
<1>4. \A b \in Block :
       /\ b \in freeBlocks' \/ Linked(b)' \/ Given(b)' \/ producer'.block = b
       /\ b \in freeBlocks' => ~Linked(b)' /\ ~Given(b)' /\ producer'.block # b
       /\ Linked(b)' => ~Given(b)' /\ producer'.block # b
       /\ Given(b)' => producer'.block # b
  <2>. SUFFICES ASSUME NEW b \in Block
       PROVE /\ b \in freeBlocks' \/ Linked(b)' \/ Given(b)' \/ producer'.block = b
             /\ b \in freeBlocks' => ~Linked(b)' /\ ~Given(b)' /\ producer'.block # b
             /\ Linked(b)' => ~Given(b)' /\ producer'.block # b
             /\ Given(b)' => producer'.block # b
    OBVIOUS
  <2>1. /\ b \in freeBlocks \/ Linked(b) \/ Given(b) \/ producer.block = b
        /\ b \in freeBlocks => ~Linked(b) /\ ~Given(b) /\ producer.block # b
        /\ Linked(b) => ~Given(b) /\ producer.block # b
        /\ Given(b) => producer.block # b
    BY DEF OwnerInv
  <2>. QED
    BY <1>1, <2>1
<1>5. freeBlocks' \subseteq Block
  BY DEF OwnerInv
<1>. QED
  BY <1>2, <1>3, <1>4, <1>5 DEF OwnerInv

LEMMA SlotKept ==
  ASSUME SlotInv, None \notin Block, LinksKept, ShownKept, slots' = slots
  PROVE  SlotInv'
<1>1. ASSUME NEW e \in DOMAIN entries', NEW j \in Nat, Holds(e, j)',
             NEW i \in Elements(j)
      PROVE  slots'[entries'[e].value][i - Start(j)] = Shown(i)'
  <2>1. /\ e \in DOMAIN entries /\ Holds(e, j)
        /\ entries'[e].value = entries[e].value
    BY <1>1, SameHolds
  <2>2. slots[entries[e].value][i - Start(j)] = Shown(i)
    BY <2>1 DEF SlotInv
  <2>3. i \in Nat
    BY ElementOf
  <2>. QED
    BY <2>1, <2>2, <2>3 DEF ShownKept
<1>2. ASSUME NEW b \in Block, NEW o \in 0..BlockSize-1, ~Linked(b)'
      PROVE  slots'[b][o] = None
  <2>1. b # None
    OBVIOUS
  <2>2. ~Linked(b)
    BY <1>2, <2>1, SameHolds
  <2>. QED
    BY <2>2 DEF SlotInv
<1>. QED
  BY <1>1, <1>2 DEF SlotInv, Elements, Start

\* What follows from what a step does to the consumers.
LEMMA ConsumersSame ==
  ASSUME headIndex' = headIndex, consumer' = consumer
  PROVE  OpenKept /\ OpenShrinks /\ PresentKept /\ GivenKept
BY DEF OpenKept, OpenShrinks, PresentKept, GivenKept, Open, Present, Reading,
   Holding, At

LEMMA ConsumerKeeps ==
  ASSUME headIndex' = headIndex, consumer \in [Consumer -> ConsumerType],
         NEW c \in Consumer, NEW r, Step(c, r),
         Reading(c)' <=> Reading(c),
         Reading(c) => r.index = consumer[c].index
  PROVE  OpenKept /\ OpenShrinks
<1>1. \A d \in Consumer : d # c => consumer'[d] = consumer[d]
  BY DEF Step
<1>2. consumer'[c] = r
  BY DEF Step
<1>3. \A d \in Consumer :
        /\ Reading(d)' <=> Reading(d)
        /\ Reading(d) => consumer'[d].index = consumer[d].index
  BY <1>1, <1>2 DEF Reading
<1>4. \A i \in Int : Open(i)' <=> Open(i)
  BY <1>3 DEF Open
<1>. QED
  BY <1>4 DEF OpenKept, OpenShrinks

LEMMA ConsumerHolds ==
  ASSUME headIndex' = headIndex, consumer \in [Consumer -> ConsumerType],
         NEW c \in Consumer, NEW r, Step(c, r),
         Holding(c)' <=> Holding(c),
         Holding(c) => r.index = consumer[c].index
  PROVE  PresentKept
<1>1. \A d \in Consumer : d # c => consumer'[d] = consumer[d]
  BY DEF Step
<1>2. consumer'[c] = r
  BY DEF Step
<1>3. \A d \in Consumer :
        /\ Holding(d)' <=> Holding(d)
        /\ Holding(d) => consumer'[d].index = consumer[d].index
  BY <1>1, <1>2 DEF Holding, Reading, At
<1>4. \A i \in Int : Present(i)' <=> Present(i)
  BY <1>3 DEF Present
<1>. QED
  BY <1>4 DEF PresentKept

LEMMA GivenByOthers ==
  ASSUME consumer \in [Consumer -> ConsumerType],
         NEW c \in Consumer, NEW r, Step(c, r),
         ~At(c, "recycle"), r.pc # "recycle"
  PROVE  GivenKept
<1>1. \A d \in Consumer : d # c => consumer'[d] = consumer[d]
  BY DEF Step
<1>2. consumer'[c] = r
  BY DEF Step
<1>. QED
  BY <1>1, <1>2 DEF GivenKept, At

LEMMA ShownFrom ==
  ASSUME PresentKept,
         \A i \in Nat : Filled(i)' <=> Filled(i),
         \A i \in Nat : Filled(i) => Content(i)' = Content(i)
  PROVE  ShownKept
BY DEF ShownKept, PresentKept, Shown

LEMMA ReturnKept ==
  ASSUME ReturnInv, PresentKept, headIndex \in Nat, headIndex' = headIndex,
         returned' = returned, phase' # "drained",
         \A i \in 0..headIndex-1 : items'[i + 1] = items[i + 1]
  PROVE  ReturnInv'
<1>1. Gone' = Gone
  BY DEF Gone, PresentKept
<1>2. \A i \in Gone : items'[i + 1] = items[i + 1]
  BY DEF Gone
<1>. QED
  BY <1>1, <1>2 DEF ReturnInv

\* What one consumer has found.
FoundOk(c) ==
  LET r == consumer[c]
      j == Number(r.index)
  IN  /\ r.pc \in {"block", "move", "empty", "unlink"} => Holds(r.entry, j)
      /\ r.pc \in {"move", "empty", "unlink"} =>
           r.block # None /\ entries[r.entry].value = r.block
      /\ r.pc \notin {"move", "empty", "unlink", "recycle"} => r.block = None
      /\ At(c, "empty") => r.item = items[r.index + 1]
      /\ At(c, "unlink") => ~Wanted(j)

LEMMA OthersFound ==
  ASSUME IInv, FoundInv, OpenShrinks, NEW d \in Consumer,
         consumer'[d] = consumer[d],
         \A i \in 0..tailIndex-1 : items'[i + 1] = items[i + 1],
         consumer[d].pc \in {"block", "move", "empty", "unlink"} =>
           entries'[consumer[d].entry] = entries[consumer[d].entry]
  PROVE  FoundOk(d)'
<1>. DEFINE r == consumer[d]
            j == Number(r.index)
<1>1. /\ r.pc \in {"block", "move", "empty", "unlink"} => Holds(r.entry, j)
      /\ r.pc \in {"move", "empty", "unlink"} =>
           r.block # None /\ entries[r.entry].value = r.block
      /\ r.pc \notin {"move", "empty", "unlink", "recycle"} => r.block = None
      /\ At(d, "empty") => r.item = items[r.index + 1]
      /\ At(d, "unlink") => ~Wanted(j)
  BY DEF FoundInv
<1>2. /\ r.index \in Nat /\ j \in Nat
      /\ Claimed(d) => r.index \in 0..tailIndex-1
  BY Counted
<1>3. At(d, "empty") => items'[r.index + 1] = items[r.index + 1]
  BY <1>2 DEF Claimed, At
<1>4. Wanted(j)' => Wanted(j)
  <2>1. Elements(j) \subseteq Int /\ Elements(j)' = Elements(j)
    BY <1>2, ElementsOf DEF Elements, Start, Number
  <2>. QED
    BY <2>1 DEF Wanted, OpenShrinks
<1>5. j' = j /\ r' = r
  BY DEF Number
<1>6. At(d, "unlink")' => ~Wanted(j)'
  BY <1>1, <1>4, <1>5 DEF At
<1>7. r.pc \in {"block", "move", "empty", "unlink"} => Holds(r.entry, j)'
  BY <1>1, <1>5 DEF Holds, Start
<1>. HIDE DEF j
<1>. QED
  BY <1>1, <1>3, <1>5, <1>6, <1>7 DEF FoundOk, At, j

\* A step of the producer.
LEMMA FoundKept ==
  ASSUME IInv, FoundInv, OpenShrinks, LinksStay, consumer' = consumer,
         \A i \in 0..tailIndex-1 : items'[i + 1] = items[i + 1]
  PROVE  FoundInv'
<1>1. ASSUME NEW d \in Consumer PROVE FoundOk(d)'
  <2>1. ASSUME consumer[d].pc \in {"block", "move", "empty", "unlink"}
        PROVE  entries'[consumer[d].entry] = entries[consumer[d].entry]
    <3>1. entries[consumer[d].entry].value # None
      BY <2>1 DEF FoundInv, Holds
    <3>2. consumer[d].entry \in DOMAIN entries
      BY <2>1 DEF IInv, ShapeInv, ConsumerInv
    <3>. QED
      BY <3>1, <3>2 DEF LinksStay
  <2>. QED
    BY <2>1, OthersFound
<1>2. /\ \A c, d \in Consumer :
           Reading(c)' /\ Reading(d)' /\ consumer'[c].index = consumer'[d].index
           => c = d
      /\ \A c, d \in Consumer :
           /\ At(c, "unlink")' /\ At(d, "unlink")'
           /\ consumer'[c].entry = consumer'[d].entry
           => c = d
  BY DEF FoundInv, Reading, At
<1>. QED
  BY <1>1, <1>2 DEF FoundInv, FoundOk

\* A step of a consumer.
LEMMA FoundStep ==
  ASSUME IInv, FoundInv, OpenShrinks, items' = items,
         NEW c \in Consumer, NEW r, Step(c, r), FoundOk(c)',
         \A d \in Consumer \ {c} :
           consumer[d].pc \in {"block", "move", "empty", "unlink"} =>
             entries'[consumer[d].entry] = entries[consumer[d].entry],
         Reading(c)' => \/ Reading(c) /\ r.index = consumer[c].index
                        \/ r.index = headIndex,
         r.pc = "unlink" => At(c, "empty") /\ r.entry = consumer[c].entry
  PROVE  FoundInv'
<1>1. /\ consumer'[c] = r
      /\ \A d \in Consumer : d # c => consumer'[d] = consumer[d]
  BY DEF Step, IInv, ShapeInv, ConsumerInv
<1>2. ASSUME NEW d \in Consumer PROVE FoundOk(d)'
  BY <1>1, OthersFound
<1>3. ASSUME NEW d \in Consumer, d # c, Reading(c)', Reading(d)',
             consumer'[c].index = consumer'[d].index
      PROVE  FALSE
  <2>1. Reading(d) /\ consumer'[d] = consumer[d]
    BY <1>1, <1>3 DEF Reading
  <2>2. consumer[d].index < headIndex /\ consumer[d].index \in Nat
    BY <2>1, Counted
  <2>3. headIndex \in Nat
    BY Counted
  <2>4. Reading(c) /\ consumer[c].index = consumer[d].index
    BY <1>1, <1>3, <2>1, <2>2, <2>3
  <2>. QED
    BY <1>3, <2>1, <2>4 DEF FoundInv
<1>4. ASSUME NEW d \in Consumer, d # c, At(c, "unlink")', At(d, "unlink")',
             consumer'[c].entry = consumer'[d].entry
      PROVE  FALSE
  <2>1. /\ At(d, "unlink") /\ At(c, "empty")
        /\ consumer[c].entry = consumer[d].entry
    BY <1>1, <1>4 DEF At
  <2>. DEFINE i == Number(consumer[c].index)
              j == Number(consumer[d].index)
  <2>2. Holds(consumer[c].entry, i) /\ Holds(consumer[d].entry, j) /\ ~Wanted(j)
    BY <2>1 DEF FoundInv, At
  <2>3. i \in Nat /\ j \in Nat
    BY Counted
  <2>4. i = j
    <3>1. Start(i) = Start(j)
      BY <2>1, <2>2 DEF Holds
    <3>. HIDE DEF i, j
    <3>. QED
      BY <2>3, <3>1, StartInjective
  <2>5. Wanted(i)
    <3>1. Reading(c) /\ consumer[c].index \in Int
      BY <2>1, Counted DEF Reading, At
    <3>2. Open(consumer[c].index)
      BY <3>1 DEF Open
    <3>. QED
      BY <3>1, <3>2, WantedBy
  <2>. QED
    BY <2>2, <2>4, <2>5
<1>5. /\ \A a, d \in Consumer :
           Reading(a)' /\ Reading(d)' /\ consumer'[a].index = consumer'[d].index
           => a = d
      /\ \A a, d \in Consumer :
           /\ At(a, "unlink")' /\ At(d, "unlink")'
           /\ consumer'[a].entry = consumer'[d].entry
           => a = d
  <2>. SUFFICES ASSUME NEW a \in Consumer, NEW d \in Consumer, a # d
       PROVE  /\ ~(Reading(a)' /\ Reading(d)'
                     /\ consumer'[a].index = consumer'[d].index)
              /\ ~(At(a, "unlink")' /\ At(d, "unlink")'
                     /\ consumer'[a].entry = consumer'[d].entry)
    OBVIOUS
  <2>1. CASE a = c
    BY <1>3, <1>4, <2>1
  <2>2. CASE d = c
    BY <1>3, <1>4, <2>2
  <2>3. CASE a # c /\ d # c
    BY <1>1, <2>3 DEF FoundInv, Reading, At
  <2>. QED
    BY <2>1, <2>2, <2>3
<1>. QED
  BY <1>2, <1>5 DEF FoundInv, FoundOk

-----------------------------------------------------------------------------
\* The producer's steps.
LEMMA NotLinked ==
  ASSUME LinkInv, tailIndex \in Nat, NEW e \in DOMAIN entries,
         entries[e].key = Start(Blocks) \/ entries[e].key = InvalidKey
  PROVE  entries[e].value = None
<1>. SUFFICES ASSUME entries[e].value # None PROVE FALSE
  OBVIOUS
<1>1. Blocks \in Nat
  BY BlocksType
<1>2. PICK j \in 0..Blocks-1 : entries[e].key = Start(j)
  BY DEF LinkInv
<1>3. j \in Int /\ Blocks \in Int
  BY <1>1
<1>4. Start(j) # InvalidKey
  BY <1>3, Starts
<1>5. Start(j) = Start(Blocks)
  BY <1>2, <1>4
<1>6. j = Blocks
  BY <1>3, <1>5, StartInjective
<1>. QED
  BY <1>1, <1>2, <1>6

LEMMA IndexKept ==
  ASSUME IInv, IndexPart, headers' = headers, Len(entries') = Len(entries),
         \A e \in DOMAIN entries : entries'[e].key = entries[e].key,
         Newest' = Newest,
         \/ Blocks' = Blocks
         \/ Newest = Blocks /\ Blocks' = Blocks + 1,
         \A e \in DOMAIN entries : entries[e].value = None =>
           entries'[e].value = None \/ Newest = Blocks,
         \A c \in Consumer : consumer'[c].pc \in {"tail", "key"} =>
           consumer'[c] = consumer[c]
  PROVE  IndexPart'
<1>1. PICK off, first : RingInv(off, first)
  BY DEF IndexPart
<1>2. IndexInv /\ ConsumerInv /\ tailIndex \in Nat
  BY DEF IInv, ShapeInv, CounterInv
<1>3. RingInv(off, first)'
  BY <1>1, <1>2, KeysKept
<1>. QED
  BY <1>3 DEF IndexPart

LEMMA ProducerKeeps ==
  ASSUME IInv, BlockInv, phase = "alive", phase' = "alive",
         consumer' = consumer, headIndex' = headIndex,
         LinksKept, Blocks' = Blocks, tailBlock' = tailBlock,
         freeBlocks' = freeBlocks, slots' = slots, emptied' = emptied,
         producer'.block = producer.block, returned' = returned,
         \A i \in 0..tailIndex-1 : items'[i + 1] = items[i + 1],
         \A i \in Nat : Filled(i)' <=> Filled(i),
         \A i \in Nat : Filled(i) => Content(i)' = Content(i),
         ProducerPart', IndexPart'
  PROVE  BlockInv'
<1>1. OpenKept /\ OpenShrinks /\ PresentKept /\ GivenKept
  BY ConsumersSame
<1>2. /\ IndexPart /\ LinkInv /\ OwnerInv /\ SlotInv /\ FoundInv /\ MemoryInv
      /\ ReturnInv
  BY DEF BlockInv, UsedInv
<1>3. LinksStay
  BY DEF LinksStay, LinksKept
<1>4. tailIndex \in Nat /\ headIndex \in Nat /\ headIndex <= tailIndex
  BY Counted
<1>5. None \notin Block
  BY SizesAssumption
<1>6. LinkInv'
  <2>1. \A c \in Consumer : At(c, "unlink") =>
          At(c, "unlink")' /\ consumer'[c].entry = consumer[c].entry
    BY DEF At
  <2>. QED
    BY <1>1, <1>2, <1>4, <2>1, LinkKept
<1>7. OwnerInv'
  BY <1>1, <1>2, <1>5, OwnerKept
<1>8. SlotInv'
  <2>1. ShownKept
    BY <1>1, ShownFrom
  <2>. QED
    BY <1>2, <1>5, <2>1, SlotKept
<1>9. FoundInv'
  BY <1>1, <1>2, <1>3, FoundKept
<1>10. ReturnInv'
  <2>1. \A i \in 0..headIndex-1 : items'[i + 1] = items[i + 1]
    BY <1>4
  <2>. QED
    BY <1>1, <1>2, <1>4, <2>1, ReturnKept
<1>11. MemoryInv'
  BY <1>2 DEF MemoryInv
<1>. QED
  BY <1>6, <1>7, <1>8, <1>9, <1>10, <1>11 DEF BlockInv, UsedInv

\* Which blocks were linked does not depend on all of producer.
LEMMA SameBlocks ==
  ASSUME tailIndex' = tailIndex,
         \/ producer'.pc \in {"construct", "publish"}
              /\ producer.pc \in {"construct", "publish"}
         \/ producer'.pc \notin {"construct", "publish"}
              /\ producer.pc \notin {"construct", "publish"}
         \/ Offset(tailIndex) # 0
  PROVE  Blocks' = Blocks
BY DEF Blocks, Number, Offset

LEMMA SameFilled ==
  ASSUME tailIndex' = tailIndex, items' = items,
         producer'.pc # "publish", producer.pc # "publish"
  PROVE  /\ \A i \in Nat : Filled(i)' <=> Filled(i)
         /\ \A i \in Nat : Filled(i) => Content(i)' = Content(i)
BY DEF Filled, Content

LEMMA EnqueueBlocks ==
  ASSUME IInv, BlockInv, Enqueue, phase' = "alive"
  PROVE  BlockInv'
<1>1. /\ phase = "alive" /\ consumer' = consumer /\ headIndex' = headIndex
      /\ entries' = entries /\ headers' = headers /\ tailBlock' = tailBlock
      /\ freeBlocks' = freeBlocks /\ slots' = slots /\ emptied' = emptied
      /\ returned' = returned /\ items' = items /\ tailIndex' = tailIndex
  BY DEF Enqueue, counters, index, memory, history
<1>2. producer \in ProducerType
  BY DEF IInv, ShapeInv, ProducerInv
<1>3. /\ producer.pc = "idle" /\ producer'.block = producer.block
      /\ \/ producer'.pc = "insert" /\ Offset(tailIndex) = 0
         \/ producer'.pc = "construct" /\ Offset(tailIndex) # 0
  BY <1>2 DEF Enqueue, ProducerType
<1>4. Blocks' = Blocks
  BY <1>1, <1>3, SameBlocks
<1>5. Newest' = Newest
  BY <1>3, <1>4 DEF Newest
<1>6. LinksKept
  BY <1>1 DEF LinksKept
<1>7. IndexPart'
  <2>1. IndexPart
    BY <1>1 DEF BlockInv, UsedInv
  <2>. QED
    BY <1>1, <1>4, <1>5, <2>1, IndexKept
<1>8. ProducerPart'
  BY <1>1, <1>3 DEF BlockInv, ProducerPart, Offset
<1>9. /\ \A i \in Nat : Filled(i)' <=> Filled(i)
      /\ \A i \in Nat : Filled(i) => Content(i)' = Content(i)
  BY <1>1, <1>3, SameFilled
<1>. QED
  BY <1>1, <1>3, <1>4, <1>6, <1>7, <1>8, <1>9, ProducerKeeps

LEMMA InsertFailsBlocks ==
  ASSUME IInv, BlockInv, InsertFails, phase = "alive", phase' = "alive"
  PROVE  BlockInv'
<1>1. /\ consumer' = consumer /\ headIndex' = headIndex
      /\ entries' = entries /\ headers' = headers /\ tailBlock' = tailBlock
      /\ freeBlocks' = freeBlocks /\ slots' = slots /\ emptied' = emptied
      /\ returned' = returned /\ items' = items /\ tailIndex' = tailIndex
  BY DEF InsertFails, counters, index, memory, history
<1>2. producer \in ProducerType
  BY DEF IInv, ShapeInv, ProducerInv
<1>3. /\ producer.pc = "insert" /\ producer'.block = producer.block
      /\ producer'.pc = "idle"
  BY <1>2 DEF InsertFails, ProducerType
<1>4. Blocks' = Blocks
  BY <1>1, <1>3, SameBlocks
<1>5. Newest' = Newest
  BY <1>3, <1>4 DEF Newest
<1>6. LinksKept
  BY <1>1 DEF LinksKept
<1>7. IndexPart'
  <2>1. IndexPart
    BY DEF BlockInv, UsedInv
  <2>. QED
    BY <1>1, <1>4, <1>5, <2>1, IndexKept
<1>8. ProducerPart'
  BY <1>1, <1>3 DEF BlockInv, ProducerPart, Offset
<1>9. /\ \A i \in Nat : Filled(i)' <=> Filled(i)
      /\ \A i \in Nat : Filled(i) => Content(i)' = Content(i)
  BY <1>1, <1>3, SameFilled
<1>. QED
  BY <1>1, <1>3, <1>4, <1>6, <1>7, <1>8, <1>9, ProducerKeeps

LEMMA InsertKeyBlocks ==
  ASSUME IInv, BlockInv, InsertKey, phase = "alive", phase' = "alive"
  PROVE  BlockInv'
<1>. DEFINE e == NextEntry(Current)
<1>1. /\ consumer' = consumer /\ headIndex' = headIndex
      /\ headers' = headers /\ tailBlock' = tailBlock
      /\ freeBlocks' = freeBlocks /\ slots' = slots /\ emptied' = emptied
      /\ returned' = returned /\ items' = items /\ tailIndex' = tailIndex
      /\ headers # <<>> /\ Reusable(e)
      /\ entries' = [entries EXCEPT ![e].key = tailIndex]
  BY DEF InsertKey, counters, memory, history
<1>2. /\ producer \in ProducerType /\ IndexInv /\ ConsumerInv
      /\ tailIndex \in Nat /\ IndexPart /\ LinkInv /\ ProducerPart
  BY DEF IInv, ShapeInv, ProducerInv, CounterInv, BlockInv, UsedInv
<1>3. /\ producer.pc = "insert" /\ producer'.block = producer.block
      /\ producer'.pc = "advance" /\ producer'.entry = e
  BY <1>2 DEF InsertKey, ProducerType
<1>4. Blocks' = Blocks
  BY <1>1, <1>3, SameBlocks
<1>5. Offset(tailIndex) = 0 /\ tailIndex = Start(Blocks)
  <2>1. Offset(tailIndex) = 0
    BY <1>2, <1>3 DEF ProducerPart
  <2>. QED
    BY <1>2, <1>3, <2>1, AtInsert
<1>6. e \in DOMAIN entries
  <2>1. PICK off, first : RingInv(off, first)
    BY <1>2 DEF IndexPart
  <2>. QED
    BY <1>1, <1>2, <2>1, NextIs
<1>. HIDE DEF e
<1>7. \A f \in DOMAIN entries :
        entries[f].key = InvalidKey => entries[f].value = None
  BY <1>2, NotLinked
<1>8. /\ DOMAIN entries' = DOMAIN entries
      /\ entries'[e].key = tailIndex /\ entries'[e].value = entries[e].value
      /\ \A f \in DOMAIN entries : f # e => entries'[f] = entries[f]
  <2>1. entries \in Seq(EntryType)
    BY <1>2 DEF IndexInv
  <2>2. entries[e] \in [key : Nat \cup {InvalidKey}, value : Block \cup {None}]
    <3>1. entries[e] \in EntryType
      BY <1>6, <2>1
    <3>. QED
      BY <3>1 DEF EntryType
  <2>. QED
    BY <1>1, <1>6, <2>1, <2>2
<1>9. entries[e].value = None
  BY <1>1, <1>6, <1>7 DEF Reusable
<1>10. LinksKept
  BY <1>8, <1>9 DEF LinksKept
<1>11. ASSUME NEW c \in Consumer, consumer[c].pc \in {"tail", "key"},
              NEW off, NEW first, RingInv(off, first)
       PROVE  entries[EntryOf(off, consumer[c].header,
                              Number(consumer[c].index))].value # None
  <2>. DEFINE j == Number(consumer[c].index)
              f == EntryOf(off, consumer[c].header, j)
  <2>1. Reading(c)
    BY <1>11 DEF Reading
  <2>2. PICK g \in DOMAIN entries : Holds(g, j)
    BY <1>2, <2>1, ReadingLinked
  <2>3. off \in [DOMAIN headers -> Int]
    BY <1>11 DEF RingInv
  <2>4. f \in DOMAIN entries /\ j \in Int
    BY <1>2, <1>11, <2>3, LookupEntries
  <2>5. entries[f].key = Start(j)
    BY <1>11 DEF RingInv, LookupInv
  <2>6. entries[g].key = Start(j) /\ entries[g].value # None
    BY <2>2 DEF Holds
  <2>. HIDE DEF f, j
  <2>7. f = EntryOf(off, Len(headers), j) /\ g = EntryOf(off, Len(headers), j)
    BY <1>1, <1>2, <1>11, <2>4, <2>5, <2>6, KeyPlace
  <2>. QED
    BY <2>6, <2>7 DEF f, j
<1>12. IndexPart'
  <2>1. PICK off, first : RingInv(off, first)
    BY <1>2 DEF IndexPart
  <2>2. RingInv(off, first)'
    BY <1>2, <1>5, <1>7, <1>11, <2>1, KeyWritten
  <2>. QED
    BY <2>2 DEF IndexPart
<1>13. ProducerPart'
  BY <1>1, <1>2, <1>3, <1>4, <1>5, <1>8 DEF ProducerPart, Offset, Start
<1>14. /\ \A i \in Nat : Filled(i)' <=> Filled(i)
       /\ \A i \in Nat : Filled(i) => Content(i)' = Content(i)
  BY <1>1, <1>3, SameFilled
<1>. QED
  BY <1>1, <1>3, <1>4, <1>10, <1>12, <1>13, <1>14, ProducerKeeps

\* The entry that enqueue writes has the new block's key.
LEMMA ProducerEntry ==
  ASSUME IInv, BlockInv, phase = "alive",
         producer.pc \in {"advance", "requisition", "clear", "link"}
  PROVE  /\ producer.entry \in DOMAIN entries
         /\ entries[producer.entry].key = Start(Blocks)
         /\ entries[producer.entry].value = None
         /\ headers # <<>> /\ producer \in ProducerType
         /\ tailIndex \in Nat /\ IndexInv /\ ConsumerInv
         /\ Offset(tailIndex) = 0
<1>1. /\ producer.entry \in DOMAIN entries
      /\ headers # <<>> /\ producer \in ProducerType
      /\ tailIndex \in Nat /\ IndexInv /\ ConsumerInv
  BY DEF IInv, ShapeInv, ProducerInv, CounterInv
<1>2. /\ entries[producer.entry].key = Start(Blocks)
      /\ LinkInv /\ Offset(tailIndex) = 0
  BY DEF BlockInv, UsedInv, ProducerPart
<1>. QED
  BY <1>1, <1>2, NotLinked

LEMMA AdvanceTailBlocks ==
  ASSUME IInv, BlockInv, AdvanceTail, phase = "alive", phase' = "alive"
  PROVE  BlockInv'
<1>1. /\ consumer' = consumer /\ headIndex' = headIndex
      /\ entries' = entries /\ tailBlock' = tailBlock
      /\ freeBlocks' = freeBlocks /\ slots' = slots /\ emptied' = emptied
      /\ returned' = returned /\ items' = items /\ tailIndex' = tailIndex
      /\ producer.pc = "advance"
  BY DEF AdvanceTail, counters, memory, history
<1>2. /\ producer.entry \in DOMAIN entries
      /\ entries[producer.entry].key = Start(Blocks)
      /\ headers # <<>> /\ producer \in ProducerType
      /\ tailIndex \in Nat /\ IndexInv /\ ConsumerInv
  BY <1>1, ProducerEntry
<1>3. /\ producer'.block = producer.block /\ producer'.pc = "requisition"
      /\ producer'.entry = producer.entry
  BY <1>2 DEF AdvanceTail, ProducerType
<1>4. Blocks' = Blocks
  BY <1>1, <1>3, SameBlocks
<1>5. LinksKept
  BY <1>1 DEF LinksKept
<1>6. IndexPart'
  <2>1. PICK off, first : RingInv(off, first)
    BY DEF BlockInv, UsedInv, IndexPart
  <2>2. RingInv(off, first)'
    BY <1>2, <2>1, TailAdvanced
  <2>. QED
    BY <2>2 DEF IndexPart
<1>7. ProducerPart'
  BY <1>1, <1>3, <1>4 DEF BlockInv, ProducerPart, Offset, Start
<1>8. /\ \A i \in Nat : Filled(i)' <=> Filled(i)
      /\ \A i \in Nat : Filled(i) => Content(i)' = Content(i)
  BY <1>1, <1>3, SameFilled
<1>. QED
  BY <1>1, <1>3, <1>4, <1>5, <1>6, <1>7, <1>8, ProducerKeeps

LEMMA RequisitionFailsBlocks ==
  ASSUME IInv, BlockInv, RequisitionFails, phase = "alive", phase' = "alive"
  PROVE  BlockInv'
<1>1. /\ consumer' = consumer /\ headIndex' = headIndex
      /\ entries' = entries /\ tailBlock' = tailBlock
      /\ freeBlocks' = freeBlocks /\ slots' = slots /\ emptied' = emptied
      /\ returned' = returned /\ items' = items /\ tailIndex' = tailIndex
      /\ producer.pc = "requisition"
  BY DEF RequisitionFails, counters, memory, history
<1>2. /\ producer.entry \in DOMAIN entries
      /\ entries[producer.entry].key = Start(Blocks)
      /\ entries[producer.entry].value = None
      /\ headers # <<>> /\ producer \in ProducerType
      /\ tailIndex \in Nat /\ IndexInv /\ ConsumerInv
  BY <1>1, ProducerEntry
<1>3. /\ producer'.block = producer.block /\ producer'.pc = "clear"
      /\ producer'.entry = producer.entry
  BY <1>2 DEF RequisitionFails, ProducerType
<1>4. Blocks' = Blocks
  BY <1>1, <1>3, SameBlocks
<1>5. LinksKept
  BY <1>1 DEF LinksKept
<1>6. IndexPart'
  <2>1. PICK off, first : RingInv(off, first)
    BY DEF BlockInv, UsedInv, IndexPart
  <2>2. RingInv(off, first)'
    BY <1>2, <2>1, TailRewound
  <2>. QED
    BY <2>2 DEF IndexPart
<1>7. ProducerPart'
  BY <1>1, <1>3, <1>4 DEF BlockInv, ProducerPart, Offset, Start
<1>8. /\ \A i \in Nat : Filled(i)' <=> Filled(i)
      /\ \A i \in Nat : Filled(i) => Content(i)' = Content(i)
  BY <1>1, <1>3, SameFilled
<1>. QED
  BY <1>1, <1>3, <1>4, <1>5, <1>6, <1>7, <1>8, ProducerKeeps

LEMMA GrowIndexBlocks ==
  ASSUME IInv, BlockInv, GrowIndex, phase = "alive", phase' = "alive"
  PROVE  BlockInv'
<1>1. /\ consumer' = consumer /\ headIndex' = headIndex
      /\ tailBlock' = tailBlock
      /\ freeBlocks' = freeBlocks /\ slots' = slots /\ emptied' = emptied
      /\ returned' = returned /\ items' = items /\ tailIndex' = tailIndex
      /\ producer' = producer /\ producer.pc = "insert"
      /\ headers # <<>>
      /\ entries' = entries \o FreshEntries(Capacity(Current))
      /\ headers' = Append(headers, NextHeader(Current))
  BY DEF GrowIndex, counters, memory, history
<1>2. /\ tailIndex \in Nat /\ IndexInv /\ ConsumerInv
  BY DEF IInv, ShapeInv, CounterInv
<1>3. Blocks' = Blocks
  BY <1>1, SameBlocks
<1>4. LinksKept
  <2>1. PICK n \in Nat \ {0} :
          /\ Len(entries') = Len(entries) + n
          /\ entries' \in Seq(EntryType)
          /\ \A e \in 1..Len(entries) : entries'[e] = entries[e]
          /\ \A e \in Len(entries)+1..Len(entries)+n :
               entries'[e] = [key |-> InvalidKey, value |-> None]
    BY <1>1, <1>2, Grows
  <2>2. /\ DOMAIN entries = 1..Len(entries) /\ Len(entries) \in Nat
        /\ DOMAIN entries' = 1..Len(entries')
    BY <1>2, <2>1 DEF IndexInv
  <2>3. ASSUME NEW e \in DOMAIN entries', entries'[e].value # None
        PROVE  e \in DOMAIN entries /\ entries'[e] = entries[e]
    <3>1. e \in 1..Len(entries) \/ e \in Len(entries)+1..Len(entries)+n
      BY <2>1, <2>2
    <3>. QED
      BY <2>1, <2>2, <2>3, <3>1
  <2>4. DOMAIN entries \subseteq DOMAIN entries'
    BY <2>1, <2>2
  <2>. QED
    BY <2>1, <2>2, <2>3, <2>4 DEF LinksKept
<1>5. IndexPart'
  <2>1. PICK off, first : RingInv(off, first)
    BY DEF BlockInv, UsedInv, IndexPart
  <2>2. \E off2, first2 : RingInv(off2, first2)'
    BY <1>2, <2>1, IndexGrown
  <2>. QED
    BY <2>2 DEF IndexPart
<1>6. ProducerPart'
  BY <1>1 DEF BlockInv, ProducerPart, Offset
<1>7. /\ \A i \in Nat : Filled(i)' <=> Filled(i)
      /\ \A i \in Nat : Filled(i) => Content(i)' = Content(i)
  BY <1>1, SameFilled
<1>. QED
  BY <1>1, <1>3, <1>4, <1>5, <1>6, <1>7, ProducerKeeps

LEMMA ClearEntryBlocks ==
  ASSUME IInv, BlockInv, ClearEntry, phase = "alive", phase' = "alive"
  PROVE  BlockInv'
<1>1. /\ consumer' = consumer /\ headIndex' = headIndex
      /\ entries' = [entries EXCEPT ![producer.entry].value = None]
      /\ headers' = headers /\ tailBlock' = tailBlock
      /\ freeBlocks' = freeBlocks /\ slots' = slots /\ emptied' = emptied
      /\ returned' = returned /\ items' = items /\ tailIndex' = tailIndex
      /\ producer.pc = "clear"
  BY DEF ClearEntry, counters, memory, history
<1>2. /\ producer.entry \in DOMAIN entries
      /\ entries[producer.entry].value = None
      /\ producer \in ProducerType /\ IndexInv
      /\ Offset(tailIndex) = 0
  BY <1>1, ProducerEntry
<1>3. entries' = entries
  <2>1. entries \in Seq(EntryType)
    BY <1>2 DEF IndexInv
  <2>2. entries[producer.entry]
          \in [key : Nat \cup {InvalidKey}, value : Block \cup {None}]
    <3>1. entries[producer.entry] \in EntryType
      BY <1>2, <2>1
    <3>. QED
      BY <3>1 DEF EntryType
  <2>. QED
    BY <1>1, <1>2, <2>1, <2>2
<1>4. producer'.block = producer.block /\ producer'.pc = "idle"
  BY <1>2 DEF ClearEntry, ProducerType
<1>5. Blocks' = Blocks
  BY <1>1, <1>4, SameBlocks
<1>6. Newest' = Newest
  BY <1>1, <1>4, <1>5 DEF Newest
<1>7. LinksKept
  BY <1>3 DEF LinksKept
<1>8. IndexPart'
  <2>1. IndexPart
    BY DEF BlockInv, UsedInv
  <2>. QED
    BY <1>1, <1>3, <1>5, <1>6, <2>1, IndexKept
<1>9. ProducerPart'
  BY <1>1, <1>4 DEF BlockInv, ProducerPart, Offset
<1>10. /\ \A i \in Nat : Filled(i)' <=> Filled(i)
       /\ \A i \in Nat : Filled(i) => Content(i)' = Content(i)
  BY <1>1, <1>4, SameFilled
<1>. QED
  BY <1>1, <1>4, <1>5, <1>7, <1>8, <1>9, <1>10, ProducerKeeps

LEMMA EntryIs ==
  ASSUME IndexInv, NEW e \in DOMAIN entries
  PROVE  /\ entries[e] \in [key : Nat \cup {InvalidKey},
                           value : Block \cup {None}]
         /\ entries[e].value \in Block \cup {None}
         /\ entries \in Seq(EntryType)
<1>1. entries \in Seq(EntryType)
  BY DEF IndexInv
<1>2. entries[e] \in EntryType
  BY <1>1
<1>. QED
  BY <1>1, <1>2 DEF EntryType

LEMMA StartNumber ==
  ASSUME NEW j \in Int
  PROVE  Number(Start(j)) = j /\ Offset(Start(j)) = 0
<1>1. Start(j) \in Elements(j) /\ Start(j) \in Int
  BY ElementsOf, Starts
<1>2. Number(Start(j)) = j
  BY <1>1, ElementOf
<1>3. Offset(Start(j)) = Start(j) - Start(Number(Start(j)))
  BY <1>1, NumberOf
<1>. QED
  BY <1>1, <1>2, <1>3

LEMMA PublishBlocks ==
  ASSUME IInv, BlockInv, Publish, phase = "alive", phase' = "alive"
  PROVE  BlockInv'
<1>1. /\ consumer' = consumer /\ headIndex' = headIndex
      /\ entries' = entries /\ headers' = headers /\ tailBlock' = tailBlock
      /\ freeBlocks' = freeBlocks /\ slots' = slots /\ emptied' = emptied
      /\ returned' = returned /\ tailIndex' = tailIndex + 1
      /\ items' = Append(items, producer.item)
      /\ producer.pc = "publish"
  BY DEF Publish, index, memory
<1>2. /\ producer \in ProducerType /\ ProducerPart
      /\ tailIndex \in Nat /\ items \in Seq(Item) /\ Len(items) = tailIndex
  BY DEF IInv, ShapeInv, ProducerInv, CounterInv, BlockInv
<1>3. /\ producer'.block = producer.block /\ producer'.pc = "idle"
      /\ producer'.item = producer.item
  BY <1>2 DEF Publish, ProducerType
<1>4. Blocks' = Blocks
  <2>. DEFINE b == Blocks
              t == tailIndex
  <2>1. b \in Nat /\ Number(t) = b - 1
    BY <1>1, <1>2, Numbers
  <2>2. t \in Elements(b - 1) /\ b - 1 \in Int
    <3>1. t \in Elements(Number(t))
      BY <1>2, NumberOf
    <3>. HIDE DEF b
    <3>. QED
      BY <2>1, <3>1
  <2>. HIDE DEF b
  <2>3. /\ Start(b - 1) \in Int /\ Start((b - 1) + 1) = Start(b - 1) + BlockSize
        /\ (b - 1) + 1 = b
    BY <2>1, <2>2, Starts
  <2>4. CASE t + 1 = Start(b)
    <3>1. Number(t + 1) = b /\ Offset(t + 1) = 0
      BY <2>1, <2>4, StartNumber
    <3>. QED
      BY <1>1, <1>3, <3>1 DEF Blocks, Offset, Number, b
  <2>5. CASE t + 1 # Start(b)
    <3>1. t + 1 \in Elements(b - 1)
      BY <1>2, <2>2, <2>3, <2>5, Sizes DEF Elements
    <3>2. Number(t + 1) = b - 1
      BY <2>2, <3>1, ElementOf
    <3>3. Offset(t + 1) = (t + 1) - Start(b - 1)
      <4>1. t + 1 \in Int
        BY <1>2
      <4>2. Offset(t + 1) = (t + 1) - Start(Number(t + 1))
        BY <4>1, NumberOf
      <4>. QED
        BY <1>2, <2>3, <3>2, <4>2
    <3>4. Offset(t + 1) # 0
      BY <2>2, <2>3, <3>3, Sizes DEF Elements
    <3>5. Offset(tailIndex)' = Offset(t + 1) /\ Number(tailIndex)' = Number(t + 1)
      BY <1>1 DEF Offset, Number
    <3>6. Blocks' = Number(t + 1) + 1
      BY <1>3, <3>4, <3>5 DEF Blocks
    <3>. QED
      BY <2>1, <3>2, <3>6 DEF b
  <2>. QED
    BY <2>4, <2>5
<1>5. Newest' = Newest
  BY <1>1, <1>3, <1>4 DEF Newest
<1>6. LinksKept
  BY <1>1 DEF LinksKept
<1>7. IndexPart'
  <2>1. IndexPart
    BY DEF BlockInv, UsedInv
  <2>. QED
    BY <1>1, <1>4, <1>5, <2>1, IndexKept
<1>8. ProducerPart'
  BY <1>1, <1>2, <1>3 DEF ProducerPart
<1>9. /\ \A i \in 1..tailIndex : items'[i] = items[i]
      /\ items'[tailIndex + 1] = producer.item
  BY <1>1, <1>2
<1>10. \A i \in 0..tailIndex-1 : items'[i + 1] = items[i + 1]
  <2>1. \A i \in 0..tailIndex-1 : i + 1 \in 1..tailIndex
    BY <1>2
  <2>. QED
    BY <1>9, <2>1
<1>11. \A i \in Nat : Filled(i)' <=> Filled(i)
  BY <1>1, <1>2, <1>3 DEF Filled
<1>12. ASSUME NEW i \in Nat, Filled(i) PROVE Content(i)' = Content(i)
  <2>1. CASE i < tailIndex
    <3>1. i \in 0..tailIndex-1 /\ i < tailIndex + 1
      BY <1>2, <2>1
    <3>. QED
      BY <1>1, <1>10, <2>1, <3>1 DEF Content
  <2>2. CASE i = tailIndex
    BY <1>1, <1>2, <1>9, <2>2 DEF Content
  <2>. QED
    BY <1>12, <2>1, <2>2 DEF Filled
<1>. QED
  BY <1>1, <1>3, <1>4, <1>6, <1>7, <1>8, <1>10, <1>11, <1>12, ProducerKeeps

LEMMA RequisitionBlocks ==
  ASSUME IInv, BlockInv, NEW b \in Block, Requisition(b), phase = "alive",
         phase' = "alive"
  PROVE  BlockInv'
<1>1. /\ consumer' = consumer /\ headIndex' = headIndex
      /\ entries' = entries /\ headers' = headers /\ tailBlock' = tailBlock
      /\ slots' = slots /\ returned' = returned /\ items' = items
      /\ tailIndex' = tailIndex
      /\ b \in freeBlocks /\ freeBlocks' = freeBlocks \ {b}
      /\ emptied' = [emptied EXCEPT ![b] = 0]
      /\ producer.pc = "requisition"
  BY DEF Requisition, ResetEmpty, counters, index, history
<1>2. /\ IndexPart /\ LinkInv /\ OwnerInv /\ SlotInv /\ FoundInv /\ MemoryInv
      /\ ReturnInv /\ ProducerPart
  BY DEF BlockInv, UsedInv
<1>3. /\ producer \in ProducerType /\ tailIndex \in Nat /\ headIndex \in Nat
      /\ headIndex <= tailIndex /\ None \notin Block
  BY Counted, SizesAssumption DEF IInv, ShapeInv, ProducerInv
<1>4. /\ producer'.block = b /\ producer'.pc = "link"
      /\ producer'.entry = producer.entry
      /\ producer.block = None
  BY <1>1, <1>2, <1>3 DEF Requisition, ProducerType, ProducerPart
<1>5. Blocks' = Blocks
  BY <1>1, <1>4, SameBlocks
<1>6. Newest' = Newest
  BY <1>1, <1>4, <1>5 DEF Newest
<1>7. LinksKept /\ LinksStay
  BY <1>1 DEF LinksKept, LinksStay
<1>8. OpenKept /\ OpenShrinks /\ PresentKept /\ GivenKept
  BY <1>1, ConsumersSame
<1>9. emptied \in [Block -> 0..BlockSize]
  BY <1>2 DEF MemoryInv
<1>10. \A d \in Block : d # b => emptied'[d] = emptied[d]
  BY <1>1, <1>9
<1>11. emptied'[b] = 0
  BY <1>1, <1>9
<1>12. ~Linked(b) /\ ~Given(b)
  BY <1>1, <1>2 DEF OwnerInv
<1>13. LinkInv'
  <2>1. ASSUME NEW e \in DOMAIN entries, entries[e].value # None
        PROVE  emptied'[entries[e].value] = emptied[entries[e].value]
    <3>1. entries[e].value # b
      BY <1>12 DEF Linked
    <3>2. entries[e].value \in Block
      BY <2>1, EntryIs DEF IInv, ShapeInv
    <3>. QED
      BY <1>10, <3>1, <3>2
  <2>2. \A c \in Consumer : At(c, "unlink") =>
          At(c, "unlink")' /\ consumer'[c].entry = consumer[c].entry
    BY <1>1 DEF At
  <2>. QED
    BY <1>1, <1>2, <1>3, <1>5, <1>7, <1>8, <2>1, <2>2, LinkKept
<1>14. OwnerInv'
  <2>1. \A d \in Block : (Linked(d)' <=> Linked(d)) /\ (Given(d)' <=> Given(d))
    BY <1>1 DEF Linked, Given, At
  <2>2. \A d \in Block :
         /\ d \in freeBlocks' \/ Linked(d)' \/ Given(d)' \/ producer'.block = d
         /\ d \in freeBlocks' => ~Linked(d)' /\ ~Given(d)' /\ producer'.block # d
         /\ Linked(d)' => ~Given(d)' /\ producer'.block # d
         /\ Given(d)' => producer'.block # d
    <3>. SUFFICES ASSUME NEW d \in Block
         PROVE /\ d \in freeBlocks' \/ Linked(d)' \/ Given(d)' \/ producer'.block = d
               /\ d \in freeBlocks' => ~Linked(d)' /\ ~Given(d)' /\ producer'.block # d
               /\ Linked(d)' => ~Given(d)' /\ producer'.block # d
               /\ Given(d)' => producer'.block # d
      OBVIOUS
    <3>1. /\ d \in freeBlocks \/ Linked(d) \/ Given(d) \/ producer.block = d
          /\ d \in freeBlocks => ~Linked(d) /\ ~Given(d) /\ producer.block # d
          /\ Linked(d) => ~Given(d) /\ producer.block # d
      BY <1>2 DEF OwnerInv
    <3>2. producer.block # d
      BY <1>3, <1>4
    <3>3. d = b => ~Linked(d) /\ ~Given(d)
      BY <1>12
    <3>4. d \in freeBlocks' <=> d \in freeBlocks /\ d # b
      BY <1>1
    <3>. QED
      BY <1>4, <2>1, <3>1, <3>2, <3>3, <3>4
  <2>3. /\ freeBlocks' \subseteq Block
        /\ \A e, f \in DOMAIN entries' :
             entries'[e].value = entries'[f].value /\ entries'[e].value # None
               => e = f
        /\ \A c, d \in Consumer :
             /\ At(c, "recycle")' /\ At(d, "recycle")'
             /\ consumer'[c].block = consumer'[d].block
             => c = d
    BY <1>1, <1>2 DEF OwnerInv, At
  <2>. QED
    BY <2>2, <2>3 DEF OwnerInv
<1>15. SlotInv'
  <2>1. ShownKept
    BY <1>1, <1>4, <1>8, SameFilled, ShownFrom
  <2>. QED
    BY <1>1, <1>2, <1>3, <1>7, <2>1, SlotKept
<1>16. FoundInv'
  BY <1>1, <1>2, <1>7, <1>8, FoundKept
<1>17. ReturnInv'
  BY <1>1, <1>2, <1>3, <1>8, ReturnKept
<1>18. MemoryInv'
  <2>1. emptied' \in [Block -> 0..BlockSize]
    BY <1>1, <1>9, Sizes
  <2>. QED
    BY <1>1, <1>2, <2>1 DEF MemoryInv
<1>19. ProducerPart'
  BY <1>1, <1>2, <1>4, <1>5, <1>11 DEF ProducerPart, Offset, Start
<1>20. IndexPart'
  BY <1>1, <1>2, <1>5, <1>6, IndexKept
<1>. QED
  BY <1>13, <1>14, <1>15, <1>16, <1>17, <1>18, <1>19, <1>20 DEF BlockInv, UsedInv

LEMMA LinkBlocks ==
  ASSUME IInv, BlockInv, Link, phase = "alive", phase' = "alive"
  PROVE  BlockInv'
<1>0. PICK e, b, n : e = producer.entry /\ b = producer.block /\ n = Blocks
  OBVIOUS
<1>1. /\ consumer' = consumer /\ headIndex' = headIndex
      /\ headers' = headers /\ tailBlock' = b
      /\ slots' = slots /\ returned' = returned /\ items' = items
      /\ tailIndex' = tailIndex /\ freeBlocks' = freeBlocks
      /\ emptied' = emptied
      /\ entries' = [entries EXCEPT ![e].value = b]
      /\ producer.pc = "link"
  BY <1>0 DEF Link, counters, memory, history
<1>2. /\ IndexPart /\ LinkInv /\ OwnerInv /\ SlotInv /\ FoundInv /\ MemoryInv
      /\ ReturnInv /\ ProducerPart
  BY DEF BlockInv, UsedInv
<1>3. /\ tailIndex \in Nat /\ headIndex \in Nat
      /\ headIndex <= tailIndex /\ None \notin Block /\ IndexInv
  BY Counted, SizesAssumption DEF IInv, ShapeInv
<1>4. /\ e \in DOMAIN entries /\ entries[e].key = Start(n)
      /\ entries[e].value = None /\ producer \in ProducerType
      /\ Offset(tailIndex) = 0
  BY <1>0, <1>1, ProducerEntry
<1>5. /\ b \in Block /\ emptied[b] = 0
      /\ b \notin freeBlocks /\ ~Linked(b) /\ ~Given(b)
  <2>1. b \in Block
    BY <1>0, <1>1 DEF IInv, ShapeInv, ProducerInv
  <2>. QED
    BY <1>0, <1>1, <1>2, <2>1 DEF ProducerPart, OwnerInv
<1>6. producer'.block = None /\ producer'.pc = "construct"
  BY <1>4 DEF Link, ProducerType
<1>7. n \in Nat /\ tailIndex = Start(n) /\ Start(n) \in Int
  BY <1>0, <1>1, <1>2, <1>3, Numbers
<1>8. Blocks' = n + 1 /\ Newest' = n /\ Newest = n
  <2>1. n = Number(tailIndex)
    BY <1>0, <1>1, <1>3, <1>4, AtInsert
  <2>2. Blocks' = n + 1
    BY <1>1, <1>6, <2>1 DEF Blocks, Number
  <2>. QED
    BY <1>0, <1>1, <1>6, <1>7, <2>2 DEF Newest
<1>9. /\ DOMAIN entries' = DOMAIN entries /\ Len(entries') = Len(entries)
      /\ entries'[e].key = Start(n) /\ entries'[e].value = b
      /\ \A f \in DOMAIN entries : f # e => entries'[f] = entries[f]
      /\ \A f \in DOMAIN entries : entries'[f].key = entries[f].key
  <2>1. /\ entries[e] \in [key : Nat \cup {InvalidKey}, value : Block \cup {None}]
        /\ entries \in Seq(EntryType)
    BY <1>3, <1>4, EntryIs
  <2>2. /\ DOMAIN entries' = DOMAIN entries /\ Len(entries') = Len(entries)
        /\ entries'[e].key = entries[e].key /\ entries'[e].value = b
        /\ \A f \in DOMAIN entries : f # e => entries'[f] = entries[f]
    BY <1>1, <1>4, <2>1
  <2>. QED
    BY <1>4, <2>2
<1>10. LinksStay
  BY <1>4, <1>9 DEF LinksStay
<1>11. OpenKept /\ OpenShrinks /\ PresentKept /\ GivenKept
  BY <1>1, ConsumersSame
<1>12. ShownKept
  BY <1>1, <1>6, <1>11, SameFilled, ShownFrom
\* Nothing is in the new block yet.
<1>13. \A i \in Elements(n) : /\ i \in Nat /\ i >= tailIndex /\ Open(i)
                              /\ ~Filled(i)
  <2>. SUFFICES ASSUME NEW i \in Elements(n)
       PROVE  i \in Nat /\ i >= tailIndex /\ Open(i) /\ ~Filled(i)
    OBVIOUS
  <2>1. i \in Nat
    BY <1>7, ElementOf
  <2>2. i >= tailIndex
    BY <1>3, <1>7, <2>1 DEF Elements
  <2>3. i >= headIndex
    BY <1>3, <2>1, <2>2
  <2>. QED
    BY <1>1, <1>3, <2>1, <2>2, <2>3 DEF Open, Filled
<1>14. Wanted(n) /\ Cardinality(Spent(n)) = 0
  <2>1. Start(n) \in Elements(n)
    BY <1>7, ElementsOf
  <2>2. Spent(n) = {}
    BY <1>13 DEF Spent
  <2>. QED
    BY <1>13, <2>1, <2>2, FS_EmptySet DEF Wanted
<1>15. \A j \in Int : (Wanted(j)' <=> Wanted(j)) /\ Spent(j)' = Spent(j)
  BY <1>11, SameWanted
<1>16. \A f \in DOMAIN entries :
         /\ f # e => \A j \in Int : Holds(f, j)' <=> Holds(f, j)
         /\ \A j \in Int : Holds(e, j)' <=> j = n
  <2>1. \A f \in DOMAIN entries : f # e => \A j \in Int : Holds(f, j)' <=> Holds(f, j)
    BY <1>9 DEF Holds, Start
  <2>2. ASSUME NEW j \in Int PROVE Holds(e, j)' <=> j = n
    <3>1. Start(j)' = Start(j)
      BY DEF Start
    <3>2. Start(n) = Start(j) => n = j
      BY <1>7, StartInjective
    <3>3. b # None
      BY <1>3, <1>5
    <3>. QED
      BY <1>9, <3>1, <3>2, <3>3 DEF Holds
  <2>. QED
    BY <2>1, <2>2
<1>17. LinkInv'
  <2>1. ASSUME NEW f \in DOMAIN entries, entries'[f].value # None
        PROVE  \E j \in 0..n :
                 /\ entries'[f].key = Start(j)
                 /\ \/ Wanted(j)'
                    \/ \E c \in Consumer : At(c, "unlink")' /\ consumer'[c].entry = f
    <3>1. CASE f = e
      <4>1. n \in 0..n /\ Wanted(n)'
        BY <1>7, <1>14, <1>15
      <4>. QED
        BY <1>9, <3>1, <4>1
    <3>2. CASE f # e
      <4>1. PICK j \in 0..n-1 :
               /\ entries[f].key = Start(j)
               /\ \/ Wanted(j)
                  \/ \E c \in Consumer : At(c, "unlink") /\ consumer[c].entry = f
        BY <1>0, <1>2, <1>9, <2>1, <3>2 DEF LinkInv
      <4>2. j \in 0..n /\ j \in Int
        BY <1>7, <4>1
      <4>. QED
        BY <1>1, <1>9, <1>15, <4>1, <4>2 DEF At
    <3>. QED
      BY <3>1, <3>2
  <2>2. ASSUME NEW j \in 0..n, Wanted(j)'
        PROVE  \E f \in DOMAIN entries : Holds(f, j)'
    <3>0. j \in Int
      OBVIOUS
    <3>1. CASE j = n
      BY <1>4, <1>16, <3>0, <3>1
    <3>2. CASE j # n
      <4>1. j \in 0..n-1 /\ Wanted(j)
        BY <1>7, <1>15, <2>2, <3>2
      <4>2. PICK f \in DOMAIN entries : Holds(f, j)
        BY <1>0, <1>2, <4>1 DEF LinkInv
      <4>3. f # e
        BY <1>4, <4>2 DEF Holds
      <4>. QED
        BY <1>16, <3>0, <4>2, <4>3
    <3>. QED
      BY <3>1, <3>2
  <2>3. ASSUME NEW f \in DOMAIN entries, NEW j \in Nat, Holds(f, j)'
        PROVE  emptied'[entries'[f].value] = Cardinality(Spent(j)')
    <3>0. j \in Int
      OBVIOUS
    <3>1. CASE f = e
      <4>1. j = n
        BY <1>16, <2>3, <3>0, <3>1
      <4>2. Spent(j)' = Spent(j)
        BY <1>15, <3>0
      <4>. QED
        BY <1>1, <1>5, <1>9, <1>14, <3>1, <4>1, <4>2
    <3>2. CASE f # e
      <4>1. Holds(f, j)
        BY <1>16, <2>3, <3>0, <3>2
      <4>2. emptied[entries[f].value] = Cardinality(Spent(j))
        BY <1>2, <4>1 DEF LinkInv
      <4>3. Spent(j)' = Spent(j)
        BY <1>15, <3>0
      <4>. QED
        BY <1>1, <1>9, <3>2, <4>2, <4>3
    <3>. QED
      BY <3>1, <3>2
  <2>4. ASSUME NEW f \in DOMAIN entries, Holds(f, n)'
        PROVE  tailBlock' = entries'[f].value
    <3>1. CASE f = e
      BY <1>1, <1>9, <3>1
    <3>2. CASE f # e
      <4>1. Holds(f, n)
        <5>1. n \in Int
          BY <1>7
        <5>. QED
          BY <1>16, <2>4, <3>2, <5>1
      <4>2. entries[f].key = Start(Blocks) /\ entries[f].value # None
        BY <1>0, <4>1 DEF Holds
      <4>. QED
        BY <1>2, <1>3, <4>2, NotLinked
    <3>. QED
      BY <3>1, <3>2
  <2>5. (n + 1) - 1 = n
    BY <1>7
  <2>6. \A f \in DOMAIN entries' :
          Holds(f, Blocks - 1)' => tailBlock' = entries'[f].value
    BY <1>8, <1>9, <2>4, <2>5 DEF Holds, Start
  <2>7. \A f \in DOMAIN entries' :
          entries'[f].value # None =>
            \E j \in 0..Blocks'-1 :
              /\ entries'[f].key = Start(j)
              /\ \/ Wanted(j)'
                 \/ \E c \in Consumer : At(c, "unlink")' /\ consumer'[c].entry = f
    BY <1>8, <1>9, <2>1, <2>5
  <2>8. \A j \in 0..Blocks'-1 :
          Wanted(j)' => \E f \in DOMAIN entries' : Holds(f, j)'
    BY <1>8, <1>9, <2>2, <2>5
  <2>. QED
    BY <1>9, <2>3, <2>6, <2>7, <2>8 DEF LinkInv, Start
<1>18. \A d \in Block : /\ Linked(d)' <=> Linked(d) \/ d = b
                        /\ Given(d)' <=> Given(d)
  <2>1. \A d \in Block : Given(d)' <=> Given(d)
    BY <1>1 DEF Given, At
  <2>2. ASSUME NEW d \in Block PROVE Linked(d)' <=> Linked(d) \/ d = b
    <3>1. Linked(d)' => Linked(d) \/ d = b
      BY <1>9 DEF Linked
    <3>2. Linked(d) => Linked(d)'
      BY <1>3, <1>4, <1>9 DEF Linked
    <3>3. d = b => Linked(d)'
      BY <1>4, <1>9 DEF Linked
    <3>. QED
      BY <3>1, <3>2, <3>3
  <2>. QED
    BY <2>1, <2>2
<1>19. OwnerInv'
  <2>1. ASSUME NEW d \in Block
        PROVE /\ d \in freeBlocks' \/ Linked(d)' \/ Given(d)' \/ producer'.block = d
              /\ d \in freeBlocks' => ~Linked(d)' /\ ~Given(d)' /\ producer'.block # d
              /\ Linked(d)' => ~Given(d)' /\ producer'.block # d
              /\ Given(d)' => producer'.block # d
    <3>1. /\ d \in freeBlocks \/ Linked(d) \/ Given(d) \/ b = d
          /\ d \in freeBlocks => ~Linked(d) /\ ~Given(d) /\ b # d
          /\ Linked(d) => ~Given(d)
      BY <1>0, <1>2 DEF OwnerInv
    <3>2. producer'.block # d
      BY <1>3, <1>6
    <3>3. (Linked(d)' <=> Linked(d) \/ d = b) /\ (Given(d)' <=> Given(d))
      BY <1>18
    <3>. QED
      BY <1>1, <1>5, <3>1, <3>2, <3>3
  <2>2. ASSUME NEW f \in DOMAIN entries', NEW g \in DOMAIN entries',
               entries'[f].value = entries'[g].value, entries'[f].value # None
        PROVE  f = g
    <3>1. \A x \in DOMAIN entries : entries[x].value # b
      BY <1>5 DEF Linked
    <3>. QED
      BY <1>2, <1>9, <2>2, <3>1 DEF OwnerInv
  <2>3. /\ freeBlocks' \subseteq Block
        /\ \A c, d \in Consumer :
             /\ At(c, "recycle")' /\ At(d, "recycle")'
             /\ consumer'[c].block = consumer'[d].block
             => c = d
    BY <1>1, <1>2 DEF OwnerInv, At
  <2>. QED
    BY <2>1, <2>2, <2>3 DEF OwnerInv
<1>20. SlotInv'
  <2>1. ASSUME NEW f \in DOMAIN entries, NEW j \in Nat, Holds(f, j)',
               NEW i \in Elements(j)
        PROVE  slots'[entries'[f].value][i - Start(j)] = Shown(i)'
    <3>0. j \in Int /\ i \in Nat /\ Shown(i)' = Shown(i)
      BY <1>12, ElementOf DEF ShownKept
    <3>1. CASE f = e
      <4>1. j = n
        BY <1>16, <2>1, <3>0, <3>1
      <4>2. Shown(i) = None
        BY <1>13, <4>1 DEF Shown
      <4>3. i - Start(j) \in 0..BlockSize-1
        BY <3>0, ElementOf
      <4>4. slots[b][i - Start(j)] = None
        BY <1>2, <1>5, <4>3 DEF SlotInv
      <4>. QED
        BY <1>1, <1>9, <3>0, <3>1, <4>2, <4>4
    <3>2. CASE f # e
      <4>1. Holds(f, j)
        BY <1>16, <2>1, <3>0, <3>2
      <4>2. slots[entries[f].value][i - Start(j)] = Shown(i)
        BY <1>2, <4>1 DEF SlotInv
      <4>. QED
        BY <1>1, <1>9, <3>0, <3>2, <4>2
    <3>. QED
      BY <3>1, <3>2
  <2>2. \A d \in Block, o \in 0..BlockSize-1 : ~Linked(d)' => slots'[d][o] = None
    BY <1>1, <1>2, <1>18 DEF SlotInv
  <2>. QED
    BY <1>9, <2>1, <2>2 DEF SlotInv, Elements, Start
<1>21. FoundInv'
  BY <1>1, <1>2, <1>10, <1>11, FoundKept
<1>22. ReturnInv'
  BY <1>1, <1>2, <1>3, <1>11, ReturnKept
<1>23. MemoryInv'
  BY <1>1, <1>2, <1>5 DEF MemoryInv
<1>24. ProducerPart'
  BY <1>6 DEF ProducerPart
<1>25. IndexPart'
  BY <1>0, <1>1, <1>2, <1>8, <1>9, IndexKept
<1>. QED
  BY <1>17, <1>19, <1>20, <1>21, <1>22, <1>23, <1>24, <1>25 DEF BlockInv, UsedInv

\* The block that is being filled.
LEMMA TailBlockIs ==
  ASSUME IInv, LinkInv, ProducerPart,
         producer.pc \in {"construct", "publish"}
  PROVE  /\ Blocks - 1 \in Nat /\ Number(tailIndex) = Blocks - 1
         /\ \E e \in DOMAIN entries :
              Holds(e, Blocks - 1) /\ tailBlock = entries[e].value
<1>1. tailIndex \in Nat /\ headIndex \in Nat /\ headIndex <= tailIndex
  BY Counted
<1>2. Blocks \in Nat /\ Number(tailIndex) = Blocks - 1 /\ Number(tailIndex) \in Nat
  BY <1>1, Numbers, NumberOf
<1>3. Wanted(Number(tailIndex))
  <2>1. Open(tailIndex)
    BY <1>1 DEF Open
  <2>. QED
    BY <1>1, <2>1, WantedBy
<1>4. Blocks - 1 \in 0..Blocks-1
  BY <1>2
<1>. QED
  BY <1>2, <1>3, <1>4 DEF LinkInv

LEMMA ConstructBlocks ==
  ASSUME IInv, BlockInv, Construct, phase = "alive", phase' = "alive"
  PROVE  BlockInv'
<1>0. PICK b, n, t : b = tailBlock /\ n = Blocks - 1 /\ t = tailIndex
  OBVIOUS
<1>1. /\ consumer' = consumer /\ headIndex' = headIndex
      /\ entries' = entries /\ headers' = headers /\ tailBlock' = tailBlock
      /\ returned' = returned /\ items' = items
      /\ tailIndex' = tailIndex /\ freeBlocks' = freeBlocks
      /\ emptied' = emptied
      /\ slots' = [slots EXCEPT ![b][Offset(t)] = producer.item]
      /\ producer.pc = "construct"
  BY <1>0 DEF Construct, counters, index, history
<1>2. /\ IndexPart /\ LinkInv /\ OwnerInv /\ SlotInv /\ FoundInv /\ MemoryInv
      /\ ReturnInv /\ ProducerPart
  BY DEF BlockInv, UsedInv
<1>3. /\ tailIndex \in Nat /\ headIndex \in Nat /\ t \in Nat
      /\ headIndex <= tailIndex /\ None \notin Block
      /\ IndexInv /\ producer \in ProducerType
  BY <1>0, Counted, SizesAssumption DEF IInv, ShapeInv, ProducerInv
<1>4. /\ producer'.block = producer.block /\ producer'.pc = "publish"
      /\ producer'.item = producer.item
  BY <1>3 DEF Construct, ProducerType
<1>5. Blocks' = Blocks
  BY <1>1, <1>4, SameBlocks
<1>6. Newest' = Newest
  BY <1>1, <1>4, <1>5 DEF Newest
<1>7. LinksKept /\ LinksStay
  BY <1>1 DEF LinksKept, LinksStay
<1>8. OpenKept /\ OpenShrinks /\ PresentKept /\ GivenKept
  BY <1>1, ConsumersSame
<1>9. /\ n \in Nat /\ Number(t) = n
      /\ \E e \in DOMAIN entries : Holds(e, n) /\ b = entries[e].value
  BY <1>0, <1>1, <1>2, TailBlockIs
<1>10. PICK e \in DOMAIN entries : Holds(e, n) /\ b = entries[e].value
  BY <1>9
<1>11. b \in Block /\ Linked(b)
  BY <1>3, <1>10, EntryIs DEF Holds, Linked
<1>12. /\ Offset(t) = t - Start(n) /\ Offset(t) \in 0..BlockSize-1
       /\ Start(n) \in Int
  BY <1>3, <1>9, NumberOf, Starts
<1>13. /\ slots'[b][Offset(t)] = producer.item
       /\ \A o \in 0..BlockSize-1 : o # Offset(t) => slots'[b][o] = slots[b][o]
       /\ \A d \in Block : d # b => slots'[d] = slots[d]
  <2>1. slots \in [Block -> [0..BlockSize-1 -> Item \cup {None}]]
    BY <1>3 DEF IndexInv
  <2>. QED
    BY <1>1, <1>11, <1>12, <2>1
<1>14. ASSUME NEW i \in Nat
       PROVE  Shown(i)' = IF i = t THEN producer.item ELSE Shown(i)
  <2>1. Present(i)' <=> Present(i)
    BY <1>8 DEF PresentKept
  <2>2. CASE i = t
    <3>1. Filled(i)' /\ Present(i)
      BY <1>0, <1>1, <1>3, <1>4, <2>2 DEF Filled, Present
    <3>2. Content(i)' = producer.item
      BY <1>0, <1>1, <1>3, <1>4, <2>2 DEF Content
    <3>. QED
      BY <2>1, <2>2, <3>1, <3>2 DEF Shown
  <2>3. CASE i # t
    <3>1. Filled(i)' <=> Filled(i)
      BY <1>0, <1>1, <2>3 DEF Filled
    <3>2. Content(i)' = Content(i)
      BY <1>1, <1>4 DEF Content
    <3>. QED
      BY <2>1, <2>3, <3>1, <3>2 DEF Shown
  <2>. QED
    BY <2>2, <2>3
<1>15. SlotInv'
  <2>1. ASSUME NEW f \in DOMAIN entries, NEW j \in Nat, Holds(f, j),
               NEW i \in Elements(j)
        PROVE  slots'[entries[f].value][i - Start(j)] = Shown(i)'
    <3>0. /\ j \in Int /\ i \in Nat /\ Number(i) = j
          /\ i - Start(j) \in 0..BlockSize-1
      BY ElementOf
    <3>1. slots[entries[f].value][i - Start(j)] = Shown(i)
      BY <1>2, <2>1 DEF SlotInv
    <3>2. entries[f].value \in Block
      BY <1>3, <2>1, EntryIs DEF Holds
    <3>3. CASE f = e
      <4>1. j = n
        <5>1. Start(j) = Start(n) /\ n \in Int
          BY <1>9, <1>10, <2>1, <3>3 DEF Holds
        <5>. QED
          BY <3>0, <5>1, StartInjective
      <4>2. CASE i = t
        BY <1>10, <1>12, <1>13, <1>14, <3>0, <3>3, <4>1, <4>2
      <4>3. CASE i # t
        <5>1. i - Start(j) # Offset(t)
          BY <1>3, <1>12, <3>0, <4>1, <4>3
        <5>2. slots'[b][i - Start(j)] = slots[b][i - Start(j)]
          BY <1>13, <3>0, <5>1
        <5>. QED
          BY <1>10, <1>14, <3>0, <3>1, <3>3, <4>3, <5>2
      <4>. QED
        BY <4>2, <4>3
    <3>4. CASE f # e
      <4>1. entries[f].value # b
        BY <1>2, <1>10, <2>1, <3>4 DEF OwnerInv, Holds
      <4>2. i # t
        <5>1. SUFFICES ASSUME i = t PROVE FALSE
          OBVIOUS
        <5>2. j = Blocks - 1
          BY <1>0, <1>9, <3>0, <5>1
        <5>3. tailBlock = entries[f].value
          BY <1>2, <2>1, <5>2 DEF LinkInv
        <5>. QED
          BY <1>0, <4>1, <5>3
      <4>. QED
        BY <1>13, <1>14, <3>0, <3>1, <3>2, <4>1, <4>2
    <3>. QED
      BY <3>3, <3>4
  <2>2. \A d \in Block, o \in 0..BlockSize-1 : ~Linked(d) => slots'[d][o] = None
    BY <1>2, <1>11, <1>13 DEF SlotInv
  <2>3. \A d \in Block : Linked(d)' <=> Linked(d)
    BY <1>1 DEF Linked
  <2>4. \A f \in DOMAIN entries, j \in Nat : Holds(f, j)' <=> Holds(f, j)
    BY <1>1 DEF Holds, Start
  <2>. QED
    BY <1>1, <2>1, <2>2, <2>3, <2>4 DEF SlotInv, Elements, Start
<1>16. LinkInv'
  <2>1. \A c \in Consumer : At(c, "unlink") =>
          At(c, "unlink")' /\ consumer'[c].entry = consumer[c].entry
    BY <1>1 DEF At
  <2>. QED
    BY <1>1, <1>2, <1>3, <1>5, <1>7, <1>8, <2>1, LinkKept
<1>17. OwnerInv'
  BY <1>1, <1>2, <1>3, <1>4, <1>7, <1>8, OwnerKept
<1>18. FoundInv'
  BY <1>1, <1>2, <1>7, <1>8, FoundKept
<1>19. ReturnInv'
  BY <1>1, <1>2, <1>3, <1>8, ReturnKept
<1>20. MemoryInv'
  BY <1>1, <1>2 DEF MemoryInv
<1>21. ProducerPart'
  BY <1>1, <1>2, <1>4 DEF ProducerPart
<1>22. IndexPart'
  BY <1>1, <1>2, <1>5, <1>6, IndexKept
<1>. QED
  BY <1>15, <1>16, <1>17, <1>18, <1>19, <1>20, <1>21, <1>22 DEF BlockInv, UsedInv

-----------------------------------------------------------------------------
\* The consumers' steps.
LEMMA LooseFound ==
  ASSUME consumer \in [Consumer -> ConsumerType],
         NEW c \in Consumer, NEW r, Step(c, r), r.block = None,
         r.pc \notin {"block", "move", "empty", "unlink", "recycle"}
  PROVE  FoundOk(c)'
<1>1. consumer'[c] = r
  BY DEF Step
<1>. QED
  BY <1>1 DEF FoundOk, At

LEMMA ConsumerSteps ==
  ASSUME IInv, BlockInv, phase = "alive", phase' = "alive",
         NEW c \in Consumer, NEW r, Step(c, r),
         entries' = entries, headers' = headers, tailBlock' = tailBlock,
         freeBlocks' = freeBlocks, slots' = slots, emptied' = emptied,
         producer' = producer, items' = items, tailIndex' = tailIndex,
         OpenKept, OpenShrinks, PresentKept,
         consumer[c].pc \notin {"unlink", "recycle"},
         r.pc \notin {"unlink", "recycle"}, FoundOk(c)',
         Reading(c)' => \/ Reading(c) /\ r.index = consumer[c].index
                        \/ r.index = headIndex,
         ReturnInv', IndexPart'
  PROVE  BlockInv'
<1>1. /\ LinkInv /\ OwnerInv /\ SlotInv /\ FoundInv /\ MemoryInv
      /\ ProducerPart
  BY DEF BlockInv, UsedInv
<1>2. tailIndex \in Nat /\ None \notin Block
  BY Counted, SizesAssumption
<1>3. consumer \in [Consumer -> ConsumerType]
  BY DEF IInv, ShapeInv, ConsumerInv
<1>4. /\ consumer'[c] = r
      /\ \A d \in Consumer : d # c => consumer'[d] = consumer[d]
  BY <1>3 DEF Step
<1>5. LinksKept
  BY DEF LinksKept
<1>6. GivenKept
  BY <1>3, GivenByOthers DEF At
<1>7. Blocks' = Blocks
  BY DEF Blocks, Number, Offset
<1>8. LinkInv'
  <2>1. \A d \in Consumer : At(d, "unlink") =>
          At(d, "unlink")' /\ consumer'[d].entry = consumer[d].entry
    BY <1>4 DEF At
  <2>. QED
    BY <1>1, <1>2, <1>5, <1>7, <2>1, LinkKept
<1>9. OwnerInv'
  BY <1>1, <1>2, <1>5, <1>6, OwnerKept
<1>10. SlotInv'
  <2>1. ShownKept
    <3>1. \A i \in Nat : Filled(i)' <=> Filled(i)
      BY DEF Filled
    <3>2. \A i \in Nat : Filled(i) => Content(i)' = Content(i)
      BY DEF Content
    <3>. QED
      BY <3>1, <3>2, ShownFrom
  <2>. QED
    BY <1>1, <1>2, <1>5, <2>1, SlotKept
<1>11. FoundInv'
  <2>1. \A d \in Consumer \ {c} :
           consumer[d].pc \in {"block", "move", "empty", "unlink"} =>
             entries'[consumer[d].entry] = entries[consumer[d].entry]
    OBVIOUS
  <2>. QED
    BY <1>1, <2>1, FoundStep
<1>12. MemoryInv'
  BY <1>1 DEF MemoryInv
<1>13. ProducerPart'
  BY <1>1, <1>7 DEF ProducerPart, Offset, Start
<1>. QED
  BY <1>8, <1>9, <1>10, <1>11, <1>12, <1>13 DEF BlockInv, UsedInv

\* Those that do not look at the index, and do not claim anything.
LEMMA ConsumerAside ==
  ASSUME IInv, BlockInv, phase = "alive", phase' = "alive",
         NEW c \in Consumer, NEW r, Step(c, r),
         entries' = entries, headers' = headers, tailBlock' = tailBlock,
         freeBlocks' = freeBlocks, slots' = slots, emptied' = emptied,
         producer' = producer, items' = items, tailIndex' = tailIndex,
         headIndex' = headIndex, returned' = returned,
         consumer[c].pc \in {"idle", "count", "claim"},
         r.pc \in {"idle", "count", "claim"}, r.block = None
  PROVE  BlockInv'
<1>1. consumer \in [Consumer -> ConsumerType]
  BY DEF IInv, ShapeInv, ConsumerInv
<1>2. consumer'[c] = r
  BY <1>1 DEF Step
<1>3. ~Reading(c)' /\ ~Reading(c) /\ ~Holding(c)' /\ ~Holding(c)
  BY <1>2 DEF Reading, Holding
<1>4. OpenKept /\ OpenShrinks
  BY <1>1, <1>3, ConsumerKeeps
<1>5. PresentKept
  BY <1>1, <1>3, ConsumerHolds
<1>6. FoundOk(c)'
  BY <1>1, LooseFound
<1>7. ReturnInv'
  BY <1>5, Counted, ReturnKept DEF BlockInv
<1>8. IndexPart'
  <2>1. IndexPart
    BY DEF BlockInv, UsedInv
  <2>2. Blocks' = Blocks /\ Newest' = Newest
    BY DEF Blocks, Newest, Number, Offset
  <2>3. \A d \in Consumer : consumer'[d].pc \in {"tail", "key"} =>
          consumer'[d] = consumer[d]
    BY <1>1, <1>2 DEF Step
  <2>. QED
    BY <2>1, <2>2, <2>3, IndexKept
<1>. QED
  BY <1>3, <1>4, <1>5, <1>6, <1>7, <1>8, ConsumerSteps

LEMMA AsideBlocks ==
  ASSUME IInv, BlockInv, phase = "alive", phase' = "alive",
         NEW c \in Consumer, Look(c) \/ Count(c) \/ Overcommit(c)
  PROVE  BlockInv'
<1>1. consumer[c] \in ConsumerType
  BY DEF IInv, ShapeInv, ConsumerInv
<1>2. consumer[c].pc \in {"idle", "count", "claim"}
  BY DEF Look, Count, Overcommit, At
<1>3. consumer[c].block = None
  BY <1>2 DEF BlockInv, FoundInv
<1>4. /\ entries' = entries /\ headers' = headers /\ tailBlock' = tailBlock
      /\ freeBlocks' = freeBlocks /\ slots' = slots /\ emptied' = emptied
      /\ producer' = producer /\ items' = items /\ tailIndex' = tailIndex
      /\ headIndex' = headIndex /\ returned' = returned
  BY DEF Look, Count, Overcommit, counters, index, memory, history
<1>5. PICK r : /\ Step(c, r)
               /\ r.pc \in {"idle", "count", "claim"} /\ r.block = None
  <2>1. CASE Look(c)
    <3>1. PICK over :
             Step(c, [consumer[c] EXCEPT !.pc = "count", !.over = over])
      BY <2>1 DEF Look
    <3>2. PICK r : r = [consumer[c] EXCEPT !.pc = "count", !.over = over]
      OBVIOUS
    <3>3. r.pc = "count" /\ r.block = consumer[c].block
      BY <1>1, <3>2 DEF ConsumerType
    <3>. QED
      BY <1>3, <3>1, <3>2, <3>3
  <2>2. CASE Count(c)
    <3>1. Step(c, [consumer[c] EXCEPT !.pc = "claim", !.count = optimistic])
      BY <2>2 DEF Count
    <3>2. PICK r : r = [consumer[c] EXCEPT !.pc = "claim", !.count = optimistic]
      OBVIOUS
    <3>3. r.pc = "claim" /\ r.block = consumer[c].block
      BY <1>1, <3>2 DEF ConsumerType
    <3>. QED
      BY <1>3, <3>1, <3>2, <3>3
  <2>3. CASE Overcommit(c)
    BY <2>3 DEF Overcommit, Idle
  <2>. QED
    BY <2>1, <2>2, <2>3
<1>. QED
  BY <1>2, <1>4, <1>5, ConsumerAside

LEMMA ClaimBlocks ==
  ASSUME IInv, BlockInv, phase = "alive", phase' = "alive",
         NEW c \in Consumer, Claim(c)
  PROVE  BlockInv'
<1>0. PICK r : r = [consumer[c] EXCEPT !.pc = "header", !.index = headIndex]
  OBVIOUS
<1>1. /\ consumer \in [Consumer -> ConsumerType]
      /\ consumer[c] \in ConsumerType
  BY DEF IInv, ShapeInv, ConsumerInv
<1>2. /\ consumer[c].pc = "claim" /\ Step(c, r) /\ headIndex' = headIndex + 1
      /\ entries' = entries /\ headers' = headers /\ tailBlock' = tailBlock
      /\ freeBlocks' = freeBlocks /\ slots' = slots /\ emptied' = emptied
      /\ producer' = producer /\ items' = items /\ tailIndex' = tailIndex
      /\ returned' = returned
  BY <1>0 DEF Claim, At, index, memory, history
<1>3. r.pc = "header" /\ r.index = headIndex /\ r.block = consumer[c].block
  BY <1>0, <1>1 DEF ConsumerType
<1>4. consumer[c].block = None /\ ReturnInv
  BY <1>2 DEF BlockInv, FoundInv
<1>5. /\ consumer'[c] = r
      /\ \A d \in Consumer : d # c => consumer'[d] = consumer[d]
  BY <1>1, <1>2 DEF Step
<1>6. /\ Reading(c)' /\ Holding(c)' /\ ~Reading(c) /\ ~Holding(c)
      /\ \A d \in Consumer : d # c => /\ Reading(d)' <=> Reading(d)
                                      /\ Holding(d)' <=> Holding(d)
  BY <1>2, <1>3, <1>5 DEF Reading, Holding, At
<1>7. headIndex \in Nat
  BY Counted
<1>8. \A i \in Int : i >= headIndex + 1 \/ i = headIndex <=> i >= headIndex
  BY <1>7
<1>9. ASSUME NEW i \in Int
      PROVE  (Open(i)' <=> Open(i)) /\ (Present(i)' <=> Present(i))
  <2>1. (\E d \in Consumer : Reading(d)' /\ consumer'[d].index = i)
          <=> i = headIndex
                \/ \E d \in Consumer : Reading(d) /\ consumer[d].index = i
    BY <1>3, <1>5, <1>6
  <2>2. (\E d \in Consumer : Holding(d)' /\ consumer'[d].index = i)
          <=> i = headIndex
                \/ \E d \in Consumer : Holding(d) /\ consumer[d].index = i
    BY <1>3, <1>5, <1>6
  <2>3. i >= headIndex' \/ i = headIndex <=> i >= headIndex
    BY <1>2, <1>8
  <2>. QED
    BY <2>1, <2>2, <2>3 DEF Open, Present
<1>10. OpenKept /\ OpenShrinks /\ PresentKept
  BY <1>9 DEF OpenKept, OpenShrinks, PresentKept
<1>11. FoundOk(c)'
  BY <1>1, <1>2, <1>3, <1>4, LooseFound
<1>12. ReturnInv'
  <2>1. Gone' = Gone
    <3>1. ASSUME NEW i \in Int PROVE i \in Gone' <=> i \in Gone
      <4>1. i \in 0..headIndex /\ ~Present(i) => i \in 0..headIndex-1
        BY <1>7 DEF Present
      <4>2. i \in 0..headIndex-1 => i \in 0..headIndex
        BY <1>7
      <4>3. 0..headIndex'-1 = 0..headIndex
        BY <1>2, <1>7
      <4>. QED
        BY <1>9, <4>1, <4>2, <4>3 DEF Gone
    <3>2. Gone \subseteq Int /\ Gone' \subseteq Int
      BY DEF Gone
    <3>. QED
      BY <3>1, <3>2
  <2>. QED
    BY <1>2, <1>4, <2>1 DEF ReturnInv
<1>13. IndexPart'
  <2>1. IndexPart
    BY DEF BlockInv, UsedInv
  <2>2. Blocks' = Blocks /\ Newest' = Newest
    BY <1>2 DEF Blocks, Newest, Number, Offset
  <2>3. \A d \in Consumer : consumer'[d].pc \in {"tail", "key"} =>
          consumer'[d] = consumer[d]
    BY <1>3, <1>5
  <2>. QED
    BY <1>2, <2>1, <2>2, <2>3, IndexKept
<1>14. /\ consumer[c].pc \notin {"unlink", "recycle"}
       /\ r.pc \notin {"unlink", "recycle"}
  BY <1>2, <1>3
<1>. QED
  BY <1>2, <1>3, <1>10, <1>11, <1>12, <1>13, <1>14, ConsumerSteps

\* The consumer looks for its element.
LEMMA RingSame ==
  ASSUME NEW off, NEW first, RingInv(off, first),
         entries' = entries, headers' = headers, producer' = producer,
         tailIndex' = tailIndex, LookupInv(off)'
  PROVE  RingInv(off, first)'
<1>1. Blocks' = Blocks /\ Newest' = Newest /\ Current' = Current
  BY DEF Blocks, Newest, Number, Offset, Current
<1>2. CongruentInv(off)'
  <2>1. CongruentInv(off)
    BY DEF RingInv
  <2>. QED
    BY <2>1 DEF CongruentInv, Start, Place, Size, Capacity
<1>3. (headers # <<>> => CurrentInv(off, first))'
  <2>1. ASSUME headers # <<>> PROVE CurrentInv(off, first)'
    <3>1. CurrentInv(off, first)
      BY <2>1 DEF RingInv
    <3>. QED
      BY <1>1, <3>1 DEF CurrentInv, EntryOf, Place, Size, Capacity, Start
  <2>. QED
    BY <2>1
<1>. QED
  BY <1>2, <1>3 DEF RingInv

LEMMA LookupLinked ==
  ASSUME IInv, BlockInv, phase = "alive", NEW off, NEW first,
         RingInv(off, first), NEW c \in Consumer,
         consumer[c].pc \in {"tail", "key"}
  PROVE  Holds(EntryOf(off, consumer[c].header, Number(consumer[c].index)),
               Number(consumer[c].index))
<1>1. IndexInv /\ ConsumerInv /\ ProducerPart /\ LinkInv
  BY DEF IInv, ShapeInv, BlockInv, UsedInv
<1>2. PICK j : j = Number(consumer[c].index)
  OBVIOUS
<1>3. PICK f : f = EntryOf(off, consumer[c].header, j)
  OBVIOUS
<1>4. PICK g \in DOMAIN entries : Holds(g, j)
  <2>1. Reading(c)
    BY DEF Reading
  <2>. QED
    BY <1>1, <1>2, <2>1, ReadingLinked
<1>5. headers # <<>>
  <2>1. Reading(c)
    BY DEF Reading
  <2>. QED
    BY <1>1, <2>1, ReadingLinked
<1>6. f \in DOMAIN entries /\ j \in Int
  <2>1. off \in [DOMAIN headers -> Int]
    BY DEF RingInv
  <2>. QED
    BY <1>1, <1>2, <1>3, <2>1, LookupEntries
<1>7. entries[f].key = Start(j)
  BY <1>2, <1>3 DEF RingInv, LookupInv
<1>8. entries[g].key = Start(j) /\ entries[g].value # None
  BY <1>4 DEF Holds
<1>9. f = EntryOf(off, Len(headers), j) /\ g = EntryOf(off, Len(headers), j)
  BY <1>1, <1>5, <1>6, <1>7, <1>8, <1>4, KeyPlace
<1>. QED
  BY <1>2, <1>3, <1>7, <1>8, <1>9 DEF Holds

LEMMA LoadBlocks ==
  ASSUME IInv, BlockInv, phase = "alive", phase' = "alive",
         NEW c \in Consumer, NEW r, Step(c, r),
         UNCHANGED <<counters, tailBlock, index, memory, producer, history>>,
         consumer[c].pc \in {"header", "tail", "key", "block"},
         r.pc \in {"tail", "key", "block", "move"},
         r.index = consumer[c].index, FoundOk(c)',
         \A off, first : RingInv(off, first) =>
           /\ r.pc \in {"tail", "key"} =>
                entries[EntryOf(off, r.header, Number(r.index))].key
                  = Start(Number(r.index))
           /\ r.pc = "key" =>
                entries[headers[r.header].index[r.tail]].key # InvalidKey
  PROVE  BlockInv'
<1>1. /\ consumer \in [Consumer -> ConsumerType] /\ headIndex \in Nat
  BY Counted DEF IInv, ShapeInv, ConsumerInv
<1>2. /\ entries' = entries /\ headers' = headers /\ tailBlock' = tailBlock
      /\ freeBlocks' = freeBlocks /\ slots' = slots /\ emptied' = emptied
      /\ producer' = producer /\ items' = items /\ tailIndex' = tailIndex
      /\ headIndex' = headIndex /\ returned' = returned
  BY DEF counters, index, memory, history
<1>3. /\ consumer'[c] = r
      /\ \A d \in Consumer : d # c => consumer'[d] = consumer[d]
  BY <1>1 DEF Step
<1>4. Reading(c) /\ Reading(c)' /\ Holding(c) /\ Holding(c)'
  BY <1>3 DEF Reading, Holding, At
<1>5. OpenKept /\ OpenShrinks
  BY <1>1, <1>2, <1>4, ConsumerKeeps
<1>6. PresentKept
  BY <1>1, <1>2, <1>4, ConsumerHolds
<1>7. ReturnInv'
  BY <1>1, <1>2, <1>6, ReturnKept DEF BlockInv
<1>8. IndexPart'
  <2>1. PICK off, first : RingInv(off, first)
    BY DEF BlockInv, UsedInv, IndexPart
  <2>2. LookupInv(off)'
    <3>1. \A k, j : EntryOf(off, k, j)' = EntryOf(off, k, j)
      BY <1>2 DEF EntryOf, Place, Size, Capacity
    <3>2. ASSUME NEW d \in Consumer
          PROVE  /\ consumer'[d].pc \in {"tail", "key"} =>
                      entries[EntryOf(off, consumer'[d].header,
                                      Number(consumer'[d].index))].key
                        = Start(Number(consumer'[d].index))
                 /\ consumer'[d].pc = "key" =>
                      entries[headers[consumer'[d].header].index[
                        consumer'[d].tail]].key # InvalidKey
      <4>1. CASE d = c
        BY <1>3, <2>1, <4>1
      <4>2. CASE d # c
        <5>1. LookupInv(off)
          BY <2>1 DEF RingInv
        <5>. QED
          BY <1>3, <4>2, <5>1 DEF LookupInv, At, TailKey
      <4>. QED
        BY <4>1, <4>2
    <3>. QED
      BY <1>2, <3>1, <3>2 DEF LookupInv, At, TailKey, Start, Number
  <2>3. RingInv(off, first)'
    BY <1>2, <2>1, <2>2, RingSame
  <2>. QED
    BY <2>3 DEF IndexPart
<1>. QED
  BY <1>2, <1>4, <1>5, <1>6, <1>7, <1>8, ConsumerSteps

LEMMA LoadHeaderBlocks ==
  ASSUME IInv, BlockInv, phase = "alive", phase' = "alive",
         NEW c \in Consumer, LoadHeader(c)
  PROVE  BlockInv'
<1>0. PICK r : r = [consumer[c] EXCEPT !.pc = "tail", !.header = Len(headers)]
  OBVIOUS
<1>1. /\ consumer \in [Consumer -> ConsumerType]
      /\ consumer[c] \in ConsumerType
      /\ IndexInv /\ ProducerPart /\ LinkInv
  BY DEF IInv, ShapeInv, ConsumerInv, BlockInv, UsedInv
<1>2. /\ consumer[c].pc = "header" /\ Step(c, r)
      /\ UNCHANGED <<counters, tailBlock, index, memory, producer, history>>
  BY <1>0 DEF LoadHeader, At
<1>3. /\ r.pc = "tail" /\ r.index = consumer[c].index
      /\ r.header = Len(headers) /\ r.block = consumer[c].block
  BY <1>0, <1>1 DEF ConsumerType
<1>4. consumer[c].block = None
  BY <1>2 DEF BlockInv, FoundInv
<1>5. FoundOk(c)'
  BY <1>1, <1>2, <1>3, <1>4, LooseFound
<1>6. ASSUME NEW off, NEW first, RingInv(off, first)
      PROVE  entries[EntryOf(off, r.header, Number(r.index))].key
               = Start(Number(r.index))
  <2>1. Reading(c)
    BY <1>2 DEF Reading
  <2>2. PICK j : j = Number(r.index)
    OBVIOUS
  <2>3. /\ headers # <<>>
        /\ \E g \in DOMAIN entries : Holds(g, j)
    BY <1>1, <1>3, <2>1, <2>2, ReadingLinked
  <2>4. PICK g \in DOMAIN entries : Holds(g, j)
    BY <2>3
  <2>5. j \in Int /\ entries[g].key = Start(j)
    BY <1>3, <2>2, <2>4, Counted DEF Holds
  <2>6. g = EntryOf(off, Len(headers), j)
    BY <1>1, <1>6, <2>3, <2>5, KeyPlace
  <2>. QED
    BY <1>3, <2>2, <2>5, <2>6
<1>. QED
  BY <1>2, <1>3, <1>5, <1>6, LoadBlocks

LEMMA LoadTailBlocks ==
  ASSUME IInv, BlockInv, phase = "alive", phase' = "alive",
         NEW c \in Consumer, LoadTail(c)
  PROVE  BlockInv'
<1>0. PICK r : r = [consumer[c] EXCEPT !.pc = "key",
                                       !.tail = headers[consumer[c].header].tail]
  OBVIOUS
<1>1. /\ consumer \in [Consumer -> ConsumerType]
      /\ consumer[c] \in ConsumerType /\ tailIndex \in Nat
      /\ IndexInv /\ ConsumerInv /\ ProducerPart /\ LinkInv
  BY Counted DEF IInv, ShapeInv, ConsumerInv, BlockInv, UsedInv
<1>2. /\ consumer[c].pc = "tail" /\ Step(c, r)
      /\ UNCHANGED <<counters, tailBlock, index, memory, producer, history>>
  BY <1>0 DEF LoadTail, At
<1>3. /\ r.pc = "key" /\ r.index = consumer[c].index
      /\ r.header = consumer[c].header /\ r.block = consumer[c].block
      /\ r.tail = headers[consumer[c].header].tail
  BY <1>0, <1>1 DEF ConsumerType
<1>4. consumer[c].block = None
  BY <1>2 DEF BlockInv, FoundInv
<1>5. FoundOk(c)'
  BY <1>1, <1>2, <1>3, <1>4, LooseFound
<1>6. ASSUME NEW off, NEW first, RingInv(off, first)
      PROVE  /\ entries[EntryOf(off, r.header, Number(r.index))].key
                  = Start(Number(r.index))
             /\ entries[headers[r.header].index[r.tail]].key # InvalidKey
  <2>1. Reading(c)
    BY <1>2 DEF Reading
  <2>2. Blocks > 0
    <3>1. Number(consumer[c].index) \in 0..Blocks-1
      BY <1>1, <2>1, ReadingLinked
    <3>2. Blocks \in Nat
      BY <1>1, Numbers
    <3>. QED
      BY <3>1, <3>2
  <2>3. consumer[c].header \in DOMAIN headers
    BY <1>1, <1>2 DEF ConsumerInv
  <2>4. entries[headers[r.header].index[r.tail]].key # InvalidKey
    BY <1>1, <1>3, <1>6, <2>2, <2>3, TailHasKey
  <2>. QED
    BY <1>2, <1>3, <1>6, <2>4 DEF RingInv, LookupInv
<1>. QED
  BY <1>2, <1>3, <1>5, <1>6, LoadBlocks

LEMMA LoadKeyBlocks ==
  ASSUME IInv, BlockInv, phase = "alive", phase' = "alive",
         NEW c \in Consumer, LoadKey(c)
  PROVE  BlockInv'
<1>0. PICK h, e, r :
        /\ h = headers[consumer[c].header]
        /\ e = h.index[Position(h, consumer[c].tail, TailKey(c),
                                consumer[c].index)]
        /\ r = [consumer[c] EXCEPT !.pc = "block", !.entry = e]
  OBVIOUS
<1>1. /\ consumer \in [Consumer -> ConsumerType]
      /\ consumer[c] \in ConsumerType /\ consumer[c].index \in Nat
      /\ IndexInv /\ ConsumerInv
  BY Counted DEF IInv, ShapeInv, ConsumerInv
<1>2. /\ consumer[c].pc = "key" /\ Step(c, r)
      /\ UNCHANGED <<counters, tailBlock, index, memory, producer, history>>
  BY <1>0 DEF LoadKey, At
<1>3. /\ r.pc = "block" /\ r.index = consumer[c].index
      /\ r.entry = e /\ r.block = consumer[c].block
  BY <1>0, <1>1 DEF ConsumerType
<1>4. consumer[c].block = None
  BY <1>2 DEF BlockInv, FoundInv
<1>5. Holds(e, Number(consumer[c].index))
  <2>1. PICK off, first : RingInv(off, first)
    BY DEF BlockInv, UsedInv, IndexPart
  <2>2. /\ off \in [DOMAIN headers -> Int] /\ CongruentInv(off)
        /\ entries[headers[consumer[c].header].index[consumer[c].tail]].key
             # InvalidKey
    BY <1>2, <2>1 DEF RingInv, LookupInv, TailKey, At
  <2>3. /\ consumer[c].header \in DOMAIN headers
        /\ consumer[c].tail \in DOMAIN headers[consumer[c].header].index
    BY <1>1, <1>2 DEF ConsumerInv, At
  <2>4. Position(headers[consumer[c].header], consumer[c].tail,
                 entries[headers[consumer[c].header].index[consumer[c].tail]].key,
                 consumer[c].index)
          = Place(off, consumer[c].header, Number(consumer[c].index))
    BY <1>1, <2>2, <2>3, PositionIs
  <2>5. e = EntryOf(off, consumer[c].header, Number(consumer[c].index))
    BY <1>0, <2>4 DEF TailKey, EntryOf
  <2>. QED
    BY <1>2, <2>1, <2>5, LookupLinked
<1>6. entries' = entries
  BY <1>2 DEF index
<1>7. FoundOk(c)'
  <2>1. consumer'[c] = r
    BY <1>1, <1>2 DEF Step
  <2>. QED
    BY <1>3, <1>4, <1>5, <1>6, <2>1 DEF FoundOk, At, Holds, Start, Number
<1>. QED
  BY <1>2, <1>3, <1>7, LoadBlocks

LEMMA LoadBlockBlocks ==
  ASSUME IInv, BlockInv, phase = "alive", phase' = "alive",
         NEW c \in Consumer, LoadBlock(c)
  PROVE  BlockInv'
<1>0. PICK r : r = [consumer[c] EXCEPT !.pc = "move",
                                  !.block = entries[consumer[c].entry].value]
  OBVIOUS
<1>1. /\ consumer \in [Consumer -> ConsumerType]
      /\ consumer[c] \in ConsumerType
  BY DEF IInv, ShapeInv, ConsumerInv
<1>2. /\ consumer[c].pc = "block" /\ Step(c, r)
      /\ UNCHANGED <<counters, tailBlock, index, memory, producer, history>>
  BY <1>0 DEF LoadBlock, At
<1>3. /\ r.pc = "move" /\ r.index = consumer[c].index
      /\ r.entry = consumer[c].entry
      /\ r.block = entries[consumer[c].entry].value
  BY <1>0, <1>1 DEF ConsumerType
<1>4. Holds(consumer[c].entry, Number(consumer[c].index))
  BY <1>2 DEF BlockInv, FoundInv
<1>5. entries' = entries
  BY <1>2 DEF index
<1>6. FoundOk(c)'
  <2>1. consumer'[c] = r
    BY <1>1, <1>2 DEF Step
  <2>. QED
    BY <1>3, <1>4, <1>5, <2>1 DEF FoundOk, At, Holds, Start, Number
<1>. QED
  BY <1>2, <1>3, <1>6, LoadBlocks

\* Who holds what is known from its number.
LEMMA HoldsOne ==
  ASSUME IInv, BlockInv, phase # "destroyed", NEW e \in DOMAIN entries,
         NEW f \in DOMAIN entries, NEW j \in Int, Holds(e, j), Holds(f, j)
  PROVE  e = f
<1>1. PICK off, first : RingInv(off, first)
  BY DEF BlockInv, UsedInv, IndexPart
<1>2. IndexInv /\ headers # <<>>
  <2>1. IndexInv /\ ProducerPart /\ LinkInv /\ tailIndex \in Nat
    BY Counted DEF IInv, ShapeInv, BlockInv, UsedInv
  <2>2. Blocks > 0
    <3>1. Blocks \in Nat
      BY <2>1, Numbers
    <3>2. PICK k \in 0..Blocks-1 : TRUE
      BY <2>1 DEF LinkInv, Holds
    <3>. QED
      BY <3>1, <3>2
  <2>3. tailIndex # 0 \/ producer.pc \notin {"idle", "insert"}
    <3>1. SUFFICES ASSUME tailIndex = 0 PROVE producer.pc \in {"construct", "publish"}
      OBVIOUS
    <3>2. Offset(tailIndex) = 0 /\ Number(tailIndex) = 0
      <4>1. Start(0) = 0
        BY Starts
      <4>. QED
        BY <3>1, <4>1, StartNumber
    <3>. QED
      BY <2>2, <3>2 DEF Blocks
  <2>. QED
    BY <2>1, <2>3 DEF IInv, ShapeInv, ProducerInv
<1>3. entries[e].key = Start(j) /\ entries[f].key = Start(j)
  BY DEF Holds
<1>4. e = EntryOf(off, Len(headers), j) /\ f = EntryOf(off, Len(headers), j)
  BY <1>1, <1>2, <1>3, KeyPlace
<1>. QED
  BY <1>4

\* What a consumer that has found its block knows.
LEMMA FoundBlock ==
  ASSUME IInv, BlockInv, phase = "alive", NEW c \in Consumer,
         consumer[c].pc \in {"move", "empty", "unlink"}
  PROVE  /\ consumer[c].index \in Nat /\ consumer[c].index < headIndex
         /\ headIndex \in Nat /\ headIndex <= tailIndex /\ tailIndex \in Nat
         /\ Number(consumer[c].index) \in Nat
         /\ consumer[c].index \in Elements(Number(consumer[c].index))
         /\ Offset(consumer[c].index)
              = consumer[c].index - Start(Number(consumer[c].index))
         /\ Offset(consumer[c].index) \in 0..BlockSize-1
         /\ consumer[c].entry \in DOMAIN entries
         /\ Holds(consumer[c].entry, Number(consumer[c].index))
         /\ consumer[c].block \in Block
         /\ entries[consumer[c].entry].value = consumer[c].block
<1>1. Claimed(c)
  BY DEF Claimed
<1>2. /\ consumer[c].index \in Nat /\ consumer[c].index < headIndex
      /\ headIndex \in Nat /\ headIndex <= tailIndex /\ tailIndex \in Nat
  BY <1>1, Counted
<1>3. /\ consumer[c].entry \in DOMAIN entries
      /\ IndexInv
  BY DEF IInv, ShapeInv, ConsumerInv
<1>4. /\ Holds(consumer[c].entry, Number(consumer[c].index))
      /\ consumer[c].block # None
      /\ entries[consumer[c].entry].value = consumer[c].block
  BY DEF BlockInv, FoundInv
<1>5. consumer[c].block \in Block
  BY <1>3, <1>4, EntryIs
<1>6. /\ Number(consumer[c].index) \in Nat
      /\ consumer[c].index \in Elements(Number(consumer[c].index))
      /\ Offset(consumer[c].index)
           = consumer[c].index - Start(Number(consumer[c].index))
      /\ Offset(consumer[c].index) \in 0..BlockSize-1
  BY <1>2, NumberOf
<1>. QED
  BY <1>2, <1>3, <1>4, <1>5, <1>6

\* The element's slot holds the element until it is moved out.
LEMMA SlotHolds ==
  ASSUME IInv, BlockInv, phase = "alive", NEW c \in Consumer, At(c, "move")
  PROVE  slots[consumer[c].block][Offset(consumer[c].index)]
           = items[consumer[c].index + 1]
<1>0. PICK i, j : i = consumer[c].index /\ j = Number(consumer[c].index)
  OBVIOUS
<1>1. consumer[c].pc = "move"
  BY DEF At
<1>2. /\ i \in Nat /\ i < headIndex /\ headIndex <= tailIndex
      /\ headIndex \in Nat /\ tailIndex \in Nat
      /\ i \in Elements(j) /\ j \in Nat /\ Offset(i) = i - Start(j)
      /\ consumer[c].entry \in DOMAIN entries
      /\ Holds(consumer[c].entry, j)
      /\ entries[consumer[c].entry].value = consumer[c].block
  BY <1>0, <1>1, FoundBlock
<1>3. slots[consumer[c].block][Offset(i)] = Shown(i)
  <2>1. SlotInv
    BY DEF BlockInv, UsedInv
  <2>2. slots[entries[consumer[c].entry].value][i - Start(j)] = Shown(i)
    BY <1>2, <2>1 DEF SlotInv
  <2>. QED
    BY <1>2, <2>2
<1>4. i < tailIndex
  BY <1>2
<1>5. Filled(i) /\ Content(i) = items[i + 1]
  BY <1>4 DEF Filled, Content
<1>6. Present(i)
  BY <1>0, <1>1 DEF Present, Holding, Reading, At
<1>. QED
  BY <1>0, <1>3, <1>5, <1>6 DEF Shown

\* The element is moved out.
LEMMA MoveBlocks ==
  ASSUME IInv, BlockInv, phase = "alive", phase' = "alive",
         NEW c \in Consumer, Move(c)
  PROVE  BlockInv'
<1>0. PICK i, j, b, o, e, r :
        /\ i = consumer[c].index /\ j = Number(i) /\ b = consumer[c].block
        /\ o = Offset(i) /\ e = consumer[c].entry
        /\ r = [consumer[c] EXCEPT !.pc = "empty", !.item = slots[b][o]]
  OBVIOUS
<1>1. /\ consumer \in [Consumer -> ConsumerType]
      /\ consumer[c] \in ConsumerType /\ IndexInv
      /\ LinkInv /\ OwnerInv /\ SlotInv /\ FoundInv /\ MemoryInv
      /\ ProducerPart /\ ReturnInv /\ IndexPart
  BY DEF IInv, ShapeInv, ConsumerInv, BlockInv, UsedInv
<1>2. /\ consumer[c].pc = "move" /\ Step(c, r)
      /\ slots' = [slots EXCEPT ![b][o] = None]
      /\ returned' = returned \cup {slots[b][o]}
      /\ headIndex' = headIndex /\ tailIndex' = tailIndex
      /\ entries' = entries /\ headers' = headers /\ tailBlock' = tailBlock
      /\ freeBlocks' = freeBlocks /\ emptied' = emptied
      /\ producer' = producer /\ items' = items
  BY <1>0 DEF Move, At, counters, index
<1>3. /\ r.pc = "empty" /\ r.index = i /\ r.entry = e /\ r.block = b
      /\ r.item = slots[b][o]
  BY <1>0, <1>1 DEF ConsumerType
<1>4. /\ i \in Nat /\ i < headIndex /\ headIndex <= tailIndex
      /\ headIndex \in Nat /\ tailIndex \in Nat
      /\ i \in Elements(j) /\ j \in Nat /\ o = i - Start(j)
      /\ o \in 0..BlockSize-1
      /\ e \in DOMAIN entries /\ Holds(e, j)
      /\ entries[e].value = b /\ b \in Block
  BY <1>0, <1>2, FoundBlock
<1>5. slots[b][o] = items[i + 1]
  BY <1>0, <1>2, SlotHolds DEF At
<1>6. /\ consumer'[c] = r
      /\ \A d \in Consumer : d # c => consumer'[d] = consumer[d]
  BY <1>1, <1>2 DEF Step
<1>7. Reading(c) /\ Reading(c)' /\ Holding(c) /\ ~Holding(c)'
  BY <1>2, <1>3, <1>6 DEF Reading, Holding, At
<1>8. OpenKept /\ OpenShrinks
  BY <1>0, <1>1, <1>2, <1>3, <1>7, ConsumerKeeps
<1>9. ASSUME NEW k \in Int
      PROVE  Present(k)' <=> Present(k) /\ k # i
  <2>1. \A d \in Consumer : d # c => (Holding(d)' <=> Holding(d))
    BY <1>6 DEF Holding, Reading, At
  <2>2. \A d \in Consumer :
          Holding(d) /\ consumer[d].index = i => d = c
    <3>1. \A d \in Consumer : Holding(d) => Reading(d)
      BY DEF Holding
    <3>. QED
      BY <1>0, <1>1, <1>7, <3>1 DEF FoundInv
  <2>3. ~(i >= headIndex)
    BY <1>4
  <2>4. (\E d \in Consumer : Holding(d)' /\ consumer'[d].index = k)
          <=> (\E d \in Consumer : Holding(d) /\ consumer[d].index = k) /\ k # i
    BY <1>0, <1>6, <1>7, <2>1, <2>2
  <2>. QED
    BY <1>2, <2>3, <2>4 DEF Present
<1>10. LinksKept
  BY <1>2 DEF LinksKept
<1>11. Blocks' = Blocks /\ Newest' = Newest
  BY <1>2 DEF Blocks, Newest, Number, Offset
<1>12. LinkInv'
  <2>1. \A d \in Consumer : At(d, "unlink") =>
          At(d, "unlink")' /\ consumer'[d].entry = consumer[d].entry
    BY <1>2, <1>6 DEF At
  <2>. QED
    BY <1>1, <1>2, <1>4, <1>8, <1>10, <1>11, <2>1, LinkKept
<1>13. OwnerInv'
  <2>1. GivenKept
    BY <1>1, <1>2, <1>3, GivenByOthers DEF At
  <2>. QED
    BY <1>1, <1>2, <1>10, <2>1, OwnerKept, Sizes
<1>14. SlotInv'
  <2>0. slots \in [Block -> [0..BlockSize-1 -> Item \cup {None}]]
    BY <1>1 DEF IndexInv
  <2>1. ASSUME NEW f \in DOMAIN entries, NEW k \in Nat, Holds(f, k),
               NEW m \in Elements(k)
        PROVE  slots'[entries[f].value][m - Start(k)] = Shown(m)'
    <3>1. /\ m \in Nat /\ Number(m) = k /\ m - Start(k) \in 0..BlockSize-1
          /\ k \in Int
      BY ElementOf
    <3>2. entries[f].value \in Block
      <4>1. entries[f].value # None
        BY <2>1 DEF Holds
      <4>. QED
        BY <1>1, <4>1, EntryIs
    <3>3. slots[entries[f].value][m - Start(k)] = Shown(m)
      BY <1>1, <2>1 DEF SlotInv
    <3>4. CASE m = i
      <4>1. k = j
        BY <1>0, <3>1, <3>4
      <4>2. f = e
        BY <1>4, <2>1, <3>1, <4>1, HoldsOne
      <4>3. slots'[b][o] = None
        BY <1>2, <1>4, <2>0
      <4>4. ~Present(m)'
        BY <1>4, <1>9, <3>4
      <4>5. Shown(m)' = None
        BY <4>4 DEF Shown
      <4>. QED
        BY <1>4, <3>4, <4>1, <4>2, <4>3, <4>5
    <3>5. CASE m # i
      <4>1. Shown(m)' = Shown(m)
        <5>1. Present(m)' <=> Present(m)
          BY <1>9, <3>1, <3>5
        <5>. QED
          BY <1>2, <5>1 DEF Shown, Filled, Content
      <4>2. entries[f].value # b \/ m - Start(k) # o
        <5>1. SUFFICES ASSUME entries[f].value = b PROVE m - Start(k) # o
          OBVIOUS
        <5>2. f = e
          BY <1>1, <1>4, <5>1, Sizes DEF OwnerInv
        <5>3. k = j
          <6>1. Start(k) = Start(j)
            BY <1>4, <2>1, <5>2 DEF Holds
          <6>. QED
            BY <1>4, <3>1, <6>1, StartInjective
        <5>4. Start(j) \in Int
          BY <1>4, Starts
        <5>. QED
          BY <1>4, <3>1, <3>5, <5>3, <5>4
      <4>3. slots'[entries[f].value][m - Start(k)]
              = slots[entries[f].value][m - Start(k)]
        BY <1>2, <1>4, <2>0, <3>1, <3>2, <4>2
      <4>. QED
        BY <3>3, <4>1, <4>3
    <3>. QED
      BY <3>4, <3>5
  <2>2. ASSUME NEW d \in Block, NEW p \in 0..BlockSize-1, ~Linked(d)
        PROVE  slots'[d][p] = None
    <3>1. d # b
      BY <1>4, <2>2 DEF Linked
    <3>2. slots'[d][p] = slots[d][p]
      BY <1>2, <1>4, <2>0, <3>1
    <3>. QED
      BY <1>1, <2>2, <3>2 DEF SlotInv
  <2>3. /\ \A f : \A k : Holds(f, k)' <=> Holds(f, k)
        /\ \A d : Linked(d)' <=> Linked(d)
    BY <1>2 DEF Holds, Linked, Start
  <2>. QED
    BY <1>2, <2>1, <2>2, <2>3 DEF SlotInv, Elements, Start
<1>15. FoundInv'
  <2>1. FoundOk(c)'
    BY <1>0, <1>2, <1>3, <1>4, <1>5, <1>6, Sizes
    DEF FoundOk, At, Holds, Start, Number
  <2>. QED
    BY <1>0, <1>1, <1>2, <1>3, <1>7, <1>8, <2>1, FoundStep
<1>16. ReturnInv'
  <2>1. Gone' = Gone \cup {i}
    <3>1. ASSUME NEW k \in Int PROVE k \in Gone' <=> k \in Gone \/ k = i
      BY <1>2, <1>4, <1>9 DEF Gone
    <3>2. Gone \subseteq Int /\ Gone' \subseteq Int /\ i \in Int
      BY <1>4 DEF Gone
    <3>. QED
      BY <3>1, <3>2
  <2>. QED
    BY <1>1, <1>2, <1>5, <2>1 DEF ReturnInv
<1>17. IndexPart'
  <2>1. \A d \in Consumer : consumer'[d].pc \in {"tail", "key"} =>
          consumer'[d] = consumer[d]
    BY <1>3, <1>6
  <2>. QED
    BY <1>1, <1>2, <1>11, <2>1, IndexKept
<1>18. MemoryInv' /\ ProducerPart'
  BY <1>1, <1>2, <1>11 DEF MemoryInv, ProducerPart, Offset, Start
<1>. QED
  BY <1>12, <1>13, <1>14, <1>15, <1>16, <1>17, <1>18 DEF BlockInv, UsedInv

\* A block's elements are all spent when its counter says so.
LEMMA SpentAll ==
  ASSUME NEW j \in Int
  PROVE  /\ IsFiniteSet(Spent(j)) /\ Cardinality(Spent(j)) \in 0..BlockSize
         /\ Cardinality(Spent(j)) = BlockSize <=> ~Wanted(j)
<1>1. /\ IsFiniteSet(Elements(j)) /\ Cardinality(Elements(j)) = BlockSize
      /\ Spent(j) \subseteq Elements(j)
  BY ElementsOf DEF Spent
<1>2. /\ IsFiniteSet(Spent(j)) /\ Cardinality(Spent(j)) <= BlockSize
      /\ Cardinality(Spent(j)) = BlockSize => Spent(j) = Elements(j)
  BY <1>1, FS_Subset
<1>3. Cardinality(Spent(j)) \in Nat
  BY <1>2, FS_CardinalityType
<1>4. Spent(j) = Elements(j) <=> ~Wanted(j)
  BY DEF Spent, Wanted
<1>. QED
  BY <1>1, <1>2, <1>3, <1>4, Sizes

\* set_empty counts the element.
LEMMA SetEmptyBlocks ==
  ASSUME IInv, BlockInv, phase = "alive", phase' = "alive",
         NEW c \in Consumer, SetEmpty(c)
  PROVE  BlockInv'
<1>0. PICK i, j, b, e, r :
        /\ i = consumer[c].index /\ j = Number(i) /\ b = consumer[c].block
        /\ e = consumer[c].entry
        /\ r = IF BlockEmpty(b)
               THEN [consumer[c] EXCEPT !.pc = "unlink"] ELSE Idle
  OBVIOUS
<1>1. /\ consumer \in [Consumer -> ConsumerType]
      /\ consumer[c] \in ConsumerType /\ IndexInv
      /\ LinkInv /\ OwnerInv /\ SlotInv /\ FoundInv /\ MemoryInv
      /\ ProducerPart /\ ReturnInv /\ IndexPart
  BY DEF IInv, ShapeInv, ConsumerInv, BlockInv, UsedInv
<1>2. /\ consumer[c].pc = "empty" /\ Step(c, r)
      /\ emptied' = [emptied EXCEPT ![b] = @ + 1]
      /\ headIndex' = headIndex /\ tailIndex' = tailIndex
      /\ entries' = entries /\ headers' = headers /\ tailBlock' = tailBlock
      /\ freeBlocks' = freeBlocks /\ slots' = slots
      /\ producer' = producer /\ items' = items /\ returned' = returned
  BY <1>0 DEF SetEmpty, At, counters, index, history
<1>3. /\ BlockEmpty(b) => /\ r.pc = "unlink" /\ r.index = i /\ r.entry = e
                          /\ r.block = b
      /\ ~BlockEmpty(b) => r.pc = "idle" /\ r.block = None
  BY <1>0, <1>1 DEF ConsumerType, Idle
<1>4. /\ i \in Nat /\ i < headIndex /\ headIndex <= tailIndex
      /\ headIndex \in Nat /\ tailIndex \in Nat
      /\ i \in Elements(j) /\ j \in Nat
      /\ e \in DOMAIN entries /\ Holds(e, j)
      /\ entries[e].value = b /\ b \in Block
  BY <1>0, <1>2, FoundBlock
<1>5. /\ consumer'[c] = r
      /\ \A d \in Consumer : d # c => consumer'[d] = consumer[d]
  BY <1>1, <1>2 DEF Step
<1>6. Reading(c) /\ ~Reading(c)' /\ ~Holding(c) /\ ~Holding(c)'
  BY <1>2, <1>3, <1>5 DEF Reading, Holding, At
<1>7. ASSUME NEW k \in Int
      PROVE  Open(k)' <=> Open(k) /\ k # i
  <2>1. \A d \in Consumer : d # c => (Reading(d)' <=> Reading(d))
    BY <1>5 DEF Reading
  <2>2. \A d \in Consumer :
          Reading(d) /\ consumer[d].index = i => d = c
    BY <1>0, <1>1, <1>6 DEF FoundInv
  <2>3. ~(i >= headIndex)
    BY <1>4
  <2>4. (\E d \in Consumer : Reading(d)' /\ consumer'[d].index = k)
          <=> (\E d \in Consumer : Reading(d) /\ consumer[d].index = k) /\ k # i
    BY <1>0, <1>5, <1>6, <2>1, <2>2
  <2>. QED
    BY <1>2, <2>3, <2>4 DEF Open
<1>8. Open(i) /\ OpenShrinks
  BY <1>0, <1>6, <1>7 DEF Open, OpenShrinks
<1>9. PresentKept
  BY <1>1, <1>2, <1>6, ConsumerHolds
<1>10. Blocks' = Blocks /\ Newest' = Newest /\ Blocks \in Nat
  BY <1>1, <1>2, <1>4, Numbers DEF Blocks, Newest, Number, Offset
<1>11. ASSUME NEW k \in Int
       PROVE  /\ Elements(k)' = Elements(k)
              /\ Wanted(k)' => Wanted(k)
              /\ k # j => /\ Wanted(k)' <=> Wanted(k)
                          /\ Spent(k)' = Spent(k)
  <2>1. Elements(k)' = Elements(k)
    BY DEF Elements, Start
  <2>2. \A m \in Elements(k) : m \in Int /\ (k # j => m # i)
    BY <1>0, ElementOf
  <2>. QED
    BY <1>7, <2>1, <2>2 DEF Wanted, Spent
<1>12. /\ Spent(j)' = Spent(j) \cup {i} /\ i \notin Spent(j)
       /\ Cardinality(Spent(j)') = Cardinality(Spent(j)) + 1
  <2>1. \A m \in Elements(j) : m \in Int
    BY <1>4, ElementOf
  <2>2. Spent(j)' = Spent(j) \cup {i} /\ i \notin Spent(j)
    BY <1>4, <1>7, <1>8, <1>11, <2>1 DEF Spent
  <2>3. IsFiniteSet(Spent(j))
    BY <1>4, SpentAll
  <2>. QED
    BY <2>2, <2>3, FS_AddElement
<1>13. /\ emptied \in [Block -> 0..BlockSize]
       /\ emptied[b] = Cardinality(Spent(j))
       /\ emptied'[b] = Cardinality(Spent(j)')
       /\ \A d \in Block : d # b => emptied'[d] = emptied[d]
  <2>1. emptied \in [Block -> 0..BlockSize]
    BY <1>1 DEF MemoryInv
  <2>2. emptied[b] = Cardinality(Spent(j))
    BY <1>1, <1>4 DEF LinkInv
  <2>. QED
    BY <1>2, <1>4, <1>12, <2>1, <2>2
<1>14. Cardinality(Spent(j)') \in 0..BlockSize
  <2>1. (Cardinality(Spent(j)) = BlockSize) => ~Wanted(j)
    BY <1>4, SpentAll
  <2>2. Wanted(j)
    BY <1>4, <1>8 DEF Wanted
  <2>3. Cardinality(Spent(j)) \in 0..BlockSize
    BY <1>4, SpentAll
  <2>. QED
    BY <1>12, <2>1, <2>2, <2>3, Sizes
<1>15. BlockEmpty(b) <=> ~Wanted(j)'
  <2>1. BlockEmpty(b) <=> Cardinality(Spent(j)') = BlockSize
    BY <1>12, <1>13, <1>14, Sizes, <1>4, SpentAll DEF BlockEmpty
  <2>2. Spent(j)' \subseteq Elements(j)
    BY <1>4, <1>12 DEF Spent
  <2>3. /\ IsFiniteSet(Elements(j)) /\ Cardinality(Elements(j)) = BlockSize
    BY <1>4, ElementsOf
  <2>4. Cardinality(Spent(j)') = BlockSize <=> Spent(j)' = Elements(j)
    BY <2>2, <2>3, FS_Subset
  <2>5. Spent(j)' = Elements(j) <=> ~Wanted(j)'
    BY <1>4, <1>11 DEF Spent, Wanted
  <2>. QED
    BY <2>1, <2>4, <2>5
<1>16. \A f \in DOMAIN entries : entries[f].value = b => f = e
  BY <1>1, <1>4, Sizes DEF OwnerInv
<1>17. \A f \in DOMAIN entries : \A k \in Int :
         Holds(f, k) /\ f # e => k # j
  BY <1>4, HoldsOne
<1>18. LinkInv'
  <2>1. ASSUME NEW f \in DOMAIN entries, entries[f].value # None
        PROVE  \E k \in 0..Blocks-1 :
                 /\ entries[f].key = Start(k)
                 /\ \/ Wanted(k)'
                    \/ \E d \in Consumer :
                         At(d, "unlink")' /\ consumer'[d].entry = f
    <3>1. PICK k \in 0..Blocks-1 :
            /\ entries[f].key = Start(k)
            /\ \/ Wanted(k)
               \/ \E d \in Consumer : At(d, "unlink") /\ consumer[d].entry = f
      BY <1>1, <2>1 DEF LinkInv
    <3>2. k \in Int /\ Holds(f, k)
      BY <1>10, <2>1, <3>1 DEF Holds
    <3>3. CASE f = e /\ BlockEmpty(b)
      BY <1>3, <1>5, <3>1, <3>3 DEF At
    <3>4. CASE f = e /\ ~BlockEmpty(b)
      <4>1. k = j
        <5>1. Start(k) = Start(j)
          BY <1>4, <3>1, <3>4 DEF Holds
        <5>. QED
          BY <1>4, <3>2, <5>1, StartInjective
      <4>. QED
        BY <1>15, <3>1, <3>4, <4>1
    <3>5. CASE f # e
      <4>1. Wanted(k)' <=> Wanted(k)
        BY <1>11, <1>17, <3>2, <3>5
      <4>2. \A d \in Consumer : At(d, "unlink") =>
              At(d, "unlink")' /\ consumer'[d].entry = consumer[d].entry
        BY <1>2, <1>5 DEF At
      <4>. QED
        BY <3>1, <4>1, <4>2
    <3>. QED
      BY <3>3, <3>4, <3>5
  <2>2. \A k \in 0..Blocks-1 : Wanted(k)' => \E f \in DOMAIN entries : Holds(f, k)
    <3>1. \A k \in 0..Blocks-1 : k \in Int
      BY <1>10
    <3>. QED
      BY <1>1, <1>11, <3>1 DEF LinkInv
  <2>3. ASSUME NEW f \in DOMAIN entries, NEW k \in Nat, Holds(f, k)
        PROVE  emptied'[entries[f].value] = Cardinality(Spent(k)')
    <3>1. CASE f = e
      <4>1. k = j
        <5>1. Start(k) = Start(j)
          BY <1>4, <2>3, <3>1 DEF Holds
        <5>. QED
          BY <1>4, <5>1, StartInjective
      <4>. QED
        BY <1>4, <1>13, <3>1, <4>1
    <3>2. CASE f # e
      <4>1. entries[f].value \in Block /\ entries[f].value # b
        <5>1. entries[f].value # None
          BY <2>3 DEF Holds
        <5>. QED
          BY <1>1, <1>16, <3>2, <5>1, EntryIs
      <4>2. Spent(k)' = Spent(k)
        BY <1>11, <1>17, <2>3, <3>2
      <4>3. emptied[entries[f].value] = Cardinality(Spent(k))
        BY <1>1, <2>3 DEF LinkInv
      <4>. QED
        BY <1>13, <4>1, <4>2, <4>3
    <3>. QED
      BY <3>1, <3>2
  <2>4. \A f : \A k : Holds(f, k)' <=> Holds(f, k)
    BY <1>2 DEF Holds, Start
  <2>5. \A k : Start(k)' = Start(k)
    BY DEF Start
  <2>6. \A f \in DOMAIN entries :
          Holds(f, Blocks - 1) => tailBlock = entries[f].value
    BY <1>1 DEF LinkInv
  <2>. QED
    BY <1>2, <1>10, <2>1, <2>2, <2>3, <2>4, <2>5, <2>6 DEF LinkInv
<1>19. LinksKept
  BY <1>2 DEF LinksKept
<1>20. OwnerInv'
  <2>1. GivenKept
    BY <1>1, <1>2, <1>3, GivenByOthers DEF At
  <2>. QED
    BY <1>1, <1>2, <1>19, <2>1, OwnerKept, Sizes
<1>21. SlotInv'
  <2>1. ShownKept
    <3>1. \A k \in Nat : Filled(k)' <=> Filled(k)
      BY <1>2 DEF Filled
    <3>2. \A k \in Nat : Filled(k) => Content(k)' = Content(k)
      BY <1>2 DEF Content
    <3>. QED
      BY <1>9, <3>1, <3>2, ShownFrom
  <2>. QED
    BY <1>1, <1>2, <1>19, <2>1, SlotKept, Sizes
<1>22. FoundInv'
  <2>1. FoundOk(c)'
    <3>1. CASE BlockEmpty(b)
      <4>1. ~Wanted(j)'
        BY <1>15, <3>1
      <4>2. Holds(e, j)'
        BY <1>2, <1>4 DEF Holds, Start
      <4>3. r.pc = "unlink" /\ r.index = i /\ r.entry = e /\ r.block = b
        BY <1>3, <3>1
      <4>4. Number(i)' = j
        BY <1>0 DEF Number
      <4>. QED
        BY <1>2, <1>4, <1>5, <4>1, <4>2, <4>3, <1>0, Sizes DEF FoundOk, At
    <3>2. CASE ~BlockEmpty(b)
      BY <1>1, <1>2, <1>3, <3>2, LooseFound
    <3>. QED
      BY <3>1, <3>2
  <2>2. r.pc = "unlink" => At(c, "empty") /\ r.entry = consumer[c].entry
    BY <1>0, <1>2, <1>3 DEF At
  <2>. QED
    BY <1>1, <1>2, <1>6, <1>8, <2>1, <2>2, FoundStep
<1>23. ReturnInv'
  <2>1. \A k \in 0..headIndex-1 : items'[k + 1] = items[k + 1]
    BY <1>2
  <2>. QED
    BY <1>1, <1>2, <1>4, <1>9, <2>1, ReturnKept
<1>24. IndexPart'
  <2>1. \A d \in Consumer : consumer'[d].pc \in {"tail", "key"} =>
          consumer'[d] = consumer[d]
    BY <1>3, <1>5
  <2>. QED
    BY <1>1, <1>2, <1>10, <2>1, IndexKept
<1>25. MemoryInv'
  <2>1. emptied' \in [Block -> 0..BlockSize]
    BY <1>2, <1>4, <1>13, <1>14
  <2>. QED
    BY <1>1, <1>2, <2>1 DEF MemoryInv
<1>26. ProducerPart'
  <2>1. producer.pc = "link" => producer.block # b
    BY <1>1, <1>4 DEF OwnerInv, Linked
  <2>2. producer.pc = "link" => producer.block \in Block
    BY DEF IInv, ShapeInv, ProducerInv
  <2>3. producer.pc = "link" => emptied'[producer.block] = emptied[producer.block]
    BY <1>13, <2>1, <2>2
  <2>. QED
    BY <1>1, <1>2, <1>10, <2>3 DEF ProducerPart, Offset, Start
<1>. QED
  BY <1>18, <1>20, <1>21, <1>22, <1>23, <1>24, <1>25, <1>26
  DEF BlockInv, UsedInv

\* The empty block's entry is cleared.
LEMMA UnlinkBlocks ==
  ASSUME IInv, BlockInv, phase = "alive", phase' = "alive",
         NEW c \in Consumer, Unlink(c)
  PROVE  BlockInv'
<1>0. PICK i, j, b, e, r :
        /\ i = consumer[c].index /\ j = Number(i) /\ b = consumer[c].block
        /\ e = consumer[c].entry
        /\ r = [consumer[c] EXCEPT !.pc = "recycle"]
  OBVIOUS
<1>1. /\ consumer \in [Consumer -> ConsumerType]
      /\ consumer[c] \in ConsumerType /\ IndexInv
      /\ LinkInv /\ OwnerInv /\ SlotInv /\ FoundInv /\ MemoryInv
      /\ ProducerPart /\ ReturnInv /\ IndexPart
  BY DEF IInv, ShapeInv, ConsumerInv, BlockInv, UsedInv
<1>2. /\ consumer[c].pc = "unlink" /\ Step(c, r)
      /\ entries' = [entries EXCEPT ![e].value = None]
      /\ headIndex' = headIndex /\ tailIndex' = tailIndex
      /\ headers' = headers /\ tailBlock' = tailBlock
      /\ freeBlocks' = freeBlocks /\ slots' = slots /\ emptied' = emptied
      /\ producer' = producer /\ items' = items /\ returned' = returned
  BY <1>0 DEF Unlink, Unlinked, At, counters, memory, history
<1>3. r.pc = "recycle" /\ r.block = b
  BY <1>0, <1>1 DEF ConsumerType
<1>4. /\ i \in Nat /\ i < headIndex
      /\ headIndex \in Nat /\ tailIndex \in Nat
      /\ i \in Elements(j) /\ j \in Nat
      /\ e \in DOMAIN entries /\ Holds(e, j)
      /\ entries[e].value = b /\ b \in Block
  BY <1>0, <1>2, FoundBlock
<1>5. /\ consumer'[c] = r
      /\ \A d \in Consumer : d # c => consumer'[d] = consumer[d]
  BY <1>1, <1>2 DEF Step
<1>6. ~Reading(c) /\ ~Reading(c)' /\ ~Holding(c) /\ ~Holding(c)'
  BY <1>2, <1>3, <1>5 DEF Reading, Holding, At
<1>7. OpenKept /\ OpenShrinks
  BY <1>1, <1>2, <1>6, ConsumerKeeps
<1>8. PresentKept
  BY <1>1, <1>2, <1>6, ConsumerHolds
<1>9. Blocks' = Blocks /\ Newest' = Newest /\ Blocks \in Nat
  BY <1>1, <1>2, <1>4, Numbers DEF Blocks, Newest, Number, Offset
<1>10. /\ DOMAIN entries' = DOMAIN entries /\ Len(entries') = Len(entries)
       /\ entries'[e].key = entries[e].key /\ entries'[e].value = None
       /\ \A f \in DOMAIN entries : f # e => entries'[f] = entries[f]
  <2>1. entries \in Seq(EntryType)
    BY <1>1 DEF IndexInv
  <2>2. entries[e] \in [key : Nat \cup {InvalidKey}, value : Block \cup {None}]
    BY <1>1, <1>4, EntryIs
  <2>. QED
    BY <1>2, <1>4, <2>1, <2>2
<1>11. ~Wanted(j)
  BY <1>0, <1>1, <1>2 DEF FoundInv, At
<1>12. \A f \in DOMAIN entries : entries[f].value = b => f = e
  BY <1>1, <1>4, Sizes DEF OwnerInv
<1>13. \A f \in DOMAIN entries : entries'[f].value # None =>
         f # e /\ entries'[f] = entries[f]
  BY <1>10
<1>14. \A k : \A f \in DOMAIN entries :
         Holds(f, k)' => f # e /\ Holds(f, k) /\ entries'[f] = entries[f]
  BY <1>13 DEF Holds, Start
<1>15. \A k : \A f \in DOMAIN entries : f # e /\ Holds(f, k) => Holds(f, k)'
  BY <1>10 DEF Holds, Start
<1>16. ASSUME NEW k \in Int
       PROVE  /\ Wanted(k)' <=> Wanted(k)
              /\ Spent(k)' = Spent(k)
              /\ Holds(e, k) => ~Wanted(k)
  <2>1. Holds(e, k) => k = j
    <3>1. Holds(e, k) => Start(k) = Start(j)
      BY <1>4 DEF Holds
    <3>. QED
      BY <1>4, <3>1, StartInjective
  <2>. QED
    BY <1>7, <1>11, <2>1, SameWanted
<1>17. LinkInv'
  <2>1. ASSUME NEW f \in DOMAIN entries, entries'[f].value # None
        PROVE  \E k \in 0..Blocks-1 :
                 /\ entries'[f].key = Start(k)
                 /\ \/ Wanted(k)'
                    \/ \E d \in Consumer :
                         At(d, "unlink")' /\ consumer'[d].entry = f
    <3>1. f # e /\ entries'[f] = entries[f]
      BY <1>13, <2>1
    <3>2. PICK k \in 0..Blocks-1 :
            /\ entries[f].key = Start(k)
            /\ \/ Wanted(k)
               \/ \E d \in Consumer : At(d, "unlink") /\ consumer[d].entry = f
      BY <1>1, <2>1, <3>1 DEF LinkInv
    <3>3. k \in Int
      BY <1>9
    <3>4. \A d \in Consumer : At(d, "unlink") /\ consumer[d].entry = f =>
            At(d, "unlink")' /\ consumer'[d].entry = f
      BY <1>0, <1>5, <3>1 DEF At
    <3>. QED
      BY <1>16, <3>1, <3>2, <3>3, <3>4
  <2>2. ASSUME NEW k \in 0..Blocks-1, Wanted(k)'
        PROVE  \E f \in DOMAIN entries : Holds(f, k)'
    <3>1. k \in Int
      BY <1>9
    <3>2. PICK f \in DOMAIN entries : Holds(f, k)
      BY <1>1, <1>16, <2>2, <3>1 DEF LinkInv
    <3>3. f # e
      BY <1>16, <2>2, <3>1, <3>2
    <3>. QED
      BY <1>15, <3>2, <3>3
  <2>3. ASSUME NEW f \in DOMAIN entries, NEW k \in Nat, Holds(f, k)'
        PROVE  emptied'[entries'[f].value] = Cardinality(Spent(k)')
    BY <1>1, <1>2, <1>14, <1>16, <2>3 DEF LinkInv
  <2>4. ASSUME NEW f \in DOMAIN entries, Holds(f, Blocks - 1)'
        PROVE  tailBlock' = entries'[f].value
    <3>1. entries'[f] = entries[f] /\ Holds(f, Blocks - 1)
      BY <1>9, <1>14, <2>4 DEF Holds, Start
    <3>. QED
      BY <1>1, <1>2, <3>1 DEF LinkInv
  <2>5. \A k : Start(k)' = Start(k)
    BY DEF Start
  <2>. QED
    BY <1>9, <1>10, <2>1, <2>2, <2>3, <2>4, <2>5 DEF LinkInv
<1>18. /\ Linked(b) /\ ~Linked(b)'
       /\ \A d : d # b /\ d # None => (Linked(d)' <=> Linked(d))
  <2>1. Linked(b)
    BY <1>4 DEF Linked
  <2>2. ~Linked(b)'
    <3>1. ASSUME NEW f \in DOMAIN entries, entries'[f].value = b PROVE FALSE
      BY <1>4, <1>12, <1>13, <3>1, Sizes
    <3>. QED
      BY <1>10, <3>1 DEF Linked
  <2>3. ASSUME NEW d, d # b, d # None PROVE Linked(d)' <=> Linked(d)
    BY <1>4, <1>10, <2>3 DEF Linked
  <2>. QED
    BY <2>1, <2>2, <2>3
<1>19. /\ Given(b)'
       /\ \A d : d # b => (Given(d)' <=> Given(d))
       /\ \A d \in Consumer : At(d, "recycle") => d # c /\ consumer[d].block # b
  <2>1. Given(b)'
    BY <1>3, <1>5 DEF Given, At
  <2>2. \A d \in Consumer : At(d, "recycle") => d # c
    BY <1>2 DEF At
  <2>3. \A d : d # b => (Given(d)' <=> Given(d))
    BY <1>3, <1>5, <2>2 DEF Given, At
  <2>4. ~Given(b)
    BY <1>1, <1>4, <1>18 DEF OwnerInv
  <2>. QED
    BY <2>1, <2>2, <2>3, <2>4 DEF Given
<1>20. OwnerInv'
  <2>1. ASSUME NEW d \in Block
        PROVE  /\ d \in freeBlocks' \/ Linked(d)' \/ Given(d)'
                    \/ producer'.block = d
               /\ d \in freeBlocks' =>
                    ~Linked(d)' /\ ~Given(d)' /\ producer'.block # d
               /\ Linked(d)' => ~Given(d)' /\ producer'.block # d
               /\ Given(d)' => producer'.block # d
    <3>1. /\ d \in freeBlocks \/ Linked(d) \/ Given(d) \/ producer.block = d
          /\ d \in freeBlocks => ~Linked(d) /\ ~Given(d) /\ producer.block # d
          /\ Linked(d) => ~Given(d) /\ producer.block # d
          /\ Given(d) => producer.block # d
      BY <1>1 DEF OwnerInv
    <3>2. d # None
      BY Sizes
    <3>3. CASE d = b
      BY <1>2, <1>18, <1>19, <3>1, <3>3
    <3>4. CASE d # b
      BY <1>2, <1>18, <1>19, <3>1, <3>2, <3>4
    <3>. QED
      BY <3>3, <3>4
  <2>2. \A f, g \in DOMAIN entries :
          entries'[f].value = entries'[g].value /\ entries'[f].value # None
            => f = g
    BY <1>1, <1>13 DEF OwnerInv
  <2>3. ASSUME NEW d \in Consumer, NEW f \in Consumer,
               At(d, "recycle")', At(f, "recycle")',
               consumer'[d].block = consumer'[f].block
        PROVE  d = f
    <3>1. \A g \in Consumer : g # c /\ At(g, "recycle")' =>
            At(g, "recycle") /\ consumer'[g].block = consumer[g].block
                             /\ consumer[g].block # b
      BY <1>5, <1>19 DEF At
    <3>2. consumer'[c].block = b
      BY <1>3, <1>5
    <3>3. CASE d = c \/ f = c
      BY <2>3, <3>1, <3>2, <3>3
    <3>4. CASE d # c /\ f # c
      BY <1>1, <2>3, <3>1, <3>4 DEF OwnerInv
    <3>. QED
      BY <3>3, <3>4
  <2>4. freeBlocks' \subseteq Block
    BY <1>1, <1>2 DEF OwnerInv
  <2>. QED
    BY <1>10, <2>1, <2>2, <2>3, <2>4 DEF OwnerInv
<1>21. SlotInv'
  <2>1. \A k \in Nat : Shown(k)' = Shown(k)
    <3>1. \A k \in Nat : Filled(k)' <=> Filled(k)
      BY <1>2 DEF Filled
    <3>2. \A k \in Nat : Filled(k) => Content(k)' = Content(k)
      BY <1>2 DEF Content
    <3>. QED
      BY <1>8, <3>1, <3>2, ShownFrom DEF ShownKept
  <2>2. ASSUME NEW f \in DOMAIN entries, NEW k \in Nat, Holds(f, k)',
               NEW m \in Elements(k)
        PROVE  slots'[entries'[f].value][m - Start(k)] = Shown(m)'
    <3>1. Holds(f, k) /\ entries'[f] = entries[f]
      BY <1>14, <2>2
    <3>2. m \in Nat
      BY ElementOf
    <3>3. slots[entries[f].value][m - Start(k)] = Shown(m)
      BY <1>1, <3>1 DEF SlotInv
    <3>. QED
      BY <1>2, <2>1, <3>1, <3>2, <3>3
  <2>3. ASSUME NEW d \in Block, NEW p \in 0..BlockSize-1, ~Linked(d)'
        PROVE  slots'[d][p] = None
    <3>1. CASE d = b
      <4>1. PICK m : m = Start(j) + p
        OBVIOUS
      <4>2. Start(j) \in Int
        BY <1>4, Starts
      <4>3. m \in Elements(j) /\ m - Start(j) = p
        BY <4>1, <4>2, Sizes DEF Elements
      <4>4. slots[b][p] = Shown(m)
        BY <1>1, <1>4, <4>3 DEF SlotInv
      <4>5. ~Present(m)
        BY <1>11, <4>3 DEF Wanted, Open, Present, Holding
      <4>. QED
        BY <1>2, <3>1, <4>4, <4>5 DEF Shown
    <3>2. CASE d # b
      <4>1. ~Linked(d)
        BY <1>18, <2>3, <3>2, Sizes
      <4>. QED
        BY <1>1, <1>2, <4>1 DEF SlotInv
    <3>. QED
      BY <3>1, <3>2
  <2>4. \A k : Start(k)' = Start(k) /\ Elements(k)' = Elements(k)
    BY DEF Start, Elements
  <2>. QED
    BY <1>10, <2>2, <2>3, <2>4 DEF SlotInv
<1>22. FoundInv'
  <2>1. FoundOk(c)'
    BY <1>3, <1>5 DEF FoundOk, At
  <2>2. ASSUME NEW d \in Consumer \ {c},
               consumer[d].pc \in {"block", "move", "empty", "unlink"}
        PROVE  entries'[consumer[d].entry] = entries[consumer[d].entry]
    <3>1. consumer[d].entry \in DOMAIN entries
      BY <2>2 DEF IInv, ShapeInv, ConsumerInv
    <3>2. consumer[d].entry # e
      <4>1. CASE consumer[d].pc = "unlink"
        BY <1>0, <1>1, <1>2, <4>1 DEF FoundInv, At
      <4>2. CASE consumer[d].pc # "unlink"
        <5>1. Reading(d)
          BY <2>2, <4>2 DEF Reading
        <5>2. LinkInv /\ ProducerPart
          BY <1>1
        <5>3. Wanted(Number(consumer[d].index))
          BY <5>1, <5>2, ReadingLinked
        <5>4. Holds(consumer[d].entry, Number(consumer[d].index))
          BY <1>1, <2>2 DEF FoundInv
        <5>5. Number(consumer[d].index) \in Int
          BY Counted
        <5>. QED
          BY <1>16, <5>3, <5>4, <5>5
      <4>. QED
        BY <4>1, <4>2
    <3>. QED
      BY <1>10, <3>1, <3>2
  <2>. QED
    BY <1>1, <1>2, <1>3, <1>6, <1>7, <2>1, <2>2, FoundStep
<1>23. ReturnInv'
  <2>1. \A k \in 0..headIndex-1 : items'[k + 1] = items[k + 1]
    BY <1>2
  <2>. QED
    BY <1>1, <1>2, <1>4, <1>8, <2>1, ReturnKept
<1>24. IndexPart'
  <2>1. \A d \in Consumer : consumer'[d].pc \in {"tail", "key"} =>
          consumer'[d] = consumer[d]
    BY <1>3, <1>5
  <2>2. \A f \in DOMAIN entries :
          /\ entries'[f].key = entries[f].key
          /\ entries[f].value = None => entries'[f].value = None
    BY <1>10
  <2>. QED
    BY <1>1, <1>2, <1>9, <1>10, <2>1, <2>2, IndexKept
<1>25. MemoryInv'
  BY <1>1, <1>2 DEF MemoryInv
<1>26. ProducerPart'
  <2>1. producer.pc \in {"advance", "requisition", "clear", "link"} =>
          entries'[producer.entry].key = entries[producer.entry].key
    BY <1>10 DEF IInv, ShapeInv, ProducerInv
  <2>. QED
    BY <1>1, <1>2, <1>9, <2>1 DEF ProducerPart, Offset, Start
<1>. QED
  BY <1>17, <1>20, <1>21, <1>22, <1>23, <1>24, <1>25, <1>26
  DEF BlockInv, UsedInv

\* The block is given back.
LEMMA RecycleBlocks ==
  ASSUME IInv, BlockInv, phase = "alive", phase' = "alive",
         NEW c \in Consumer, Recycle(c)
  PROVE  BlockInv'
<1>0. PICK b : b = consumer[c].block
  OBVIOUS
<1>1. /\ consumer \in [Consumer -> ConsumerType]
      /\ IndexInv /\ tailIndex \in Nat /\ headIndex \in Nat
      /\ LinkInv /\ OwnerInv /\ SlotInv /\ FoundInv /\ MemoryInv
      /\ ProducerPart /\ ReturnInv /\ IndexPart
  BY Counted DEF IInv, ShapeInv, ConsumerInv, BlockInv, UsedInv
<1>2. /\ consumer[c].pc = "recycle" /\ Step(c, Idle)
      /\ freeBlocks' = freeBlocks \cup {b}
      /\ headIndex' = headIndex /\ tailIndex' = tailIndex
      /\ entries' = entries /\ headers' = headers /\ tailBlock' = tailBlock
      /\ slots' = slots /\ emptied' = emptied
      /\ producer' = producer /\ items' = items /\ returned' = returned
  BY <1>0 DEF Recycle, At, counters, index, history
<1>3. Idle.pc = "idle" /\ Idle.block = None
  BY DEF Idle
<1>4. b \in Block /\ Given(b)
  BY <1>0, <1>2 DEF IInv, ShapeInv, ConsumerInv, Given, At
<1>5. /\ consumer'[c] = Idle
      /\ \A d \in Consumer : d # c => consumer'[d] = consumer[d]
  BY <1>1, <1>2 DEF Step
<1>6. ~Reading(c) /\ ~Reading(c)' /\ ~Holding(c) /\ ~Holding(c)'
  BY <1>2, <1>3, <1>5 DEF Reading, Holding, At
<1>7. OpenKept /\ OpenShrinks
  BY <1>1, <1>2, <1>6, ConsumerKeeps
<1>8. PresentKept
  BY <1>1, <1>2, <1>6, ConsumerHolds
<1>9. Blocks' = Blocks /\ Newest' = Newest
  BY <1>2 DEF Blocks, Newest, Number, Offset
<1>10. LinksKept
  BY <1>2 DEF LinksKept
<1>11. LinkInv'
  <2>1. \A d \in Consumer : At(d, "unlink") =>
          At(d, "unlink")' /\ consumer'[d].entry = consumer[d].entry
    BY <1>2, <1>5 DEF At
  <2>. QED
    BY <1>1, <1>2, <1>7, <1>9, <1>10, <2>1, LinkKept
<1>12. OwnerInv'
  <2>1. ASSUME NEW d \in Block
        PROVE  Given(d)' <=> Given(d) /\ d # b
    <3>1. \A f \in Consumer : f # c => (At(f, "recycle")' <=> At(f, "recycle"))
      BY <1>5 DEF At
    <3>2. ~At(c, "recycle")' /\ At(c, "recycle")
      BY <1>2, <1>3, <1>5 DEF At
    <3>3. \A f \in Consumer :
            At(f, "recycle") /\ consumer[f].block = b => f = c
      BY <1>0, <1>1, <3>2 DEF OwnerInv
    <3>. QED
      BY <1>0, <1>5, <3>1, <3>2, <3>3 DEF Given
  <2>2. \A d : Linked(d)' <=> Linked(d)
    BY <1>2 DEF Linked
  <2>3. ASSUME NEW d \in Block
        PROVE  /\ d \in freeBlocks' \/ Linked(d)' \/ Given(d)'
                    \/ producer'.block = d
               /\ d \in freeBlocks' =>
                    ~Linked(d)' /\ ~Given(d)' /\ producer'.block # d
               /\ Linked(d)' => ~Given(d)' /\ producer'.block # d
               /\ Given(d)' => producer'.block # d
    <3>1. /\ d \in freeBlocks \/ Linked(d) \/ Given(d) \/ producer.block = d
          /\ d \in freeBlocks => ~Linked(d) /\ ~Given(d) /\ producer.block # d
          /\ Linked(d) => ~Given(d) /\ producer.block # d
          /\ Given(d) => producer.block # d
      BY <1>1 DEF OwnerInv
    <3>. QED
      BY <1>2, <1>4, <2>1, <2>2, <3>1
  <2>4. \A d, f \in Consumer :
          /\ At(d, "recycle")' /\ At(f, "recycle")'
          /\ consumer'[d].block = consumer'[f].block
          => d = f
    <3>1. \A f \in Consumer : At(f, "recycle")' =>
            At(f, "recycle") /\ consumer'[f] = consumer[f]
      BY <1>3, <1>5 DEF At
    <3>. QED
      BY <1>1, <3>1 DEF OwnerInv
  <2>5. freeBlocks' \subseteq Block
    BY <1>1, <1>2, <1>4 DEF OwnerInv
  <2>. QED
    BY <1>1, <1>2, <2>3, <2>4, <2>5 DEF OwnerInv
<1>13. SlotInv'
  <2>1. ShownKept
    <3>1. \A k \in Nat : Filled(k)' <=> Filled(k)
      BY <1>2 DEF Filled
    <3>2. \A k \in Nat : Filled(k) => Content(k)' = Content(k)
      BY <1>2 DEF Content
    <3>. QED
      BY <1>8, <3>1, <3>2, ShownFrom
  <2>. QED
    BY <1>1, <1>2, <1>10, <2>1, SlotKept, Sizes
<1>14. FoundInv'
  <2>1. FoundOk(c)'
    BY <1>1, <1>2, <1>3, LooseFound
  <2>. QED
    BY <1>1, <1>2, <1>3, <1>6, <1>7, <2>1, FoundStep
<1>15. ReturnInv'
  <2>1. \A k \in 0..headIndex-1 : items'[k + 1] = items[k + 1]
    BY <1>2
  <2>. QED
    BY <1>1, <1>2, <1>8, <2>1, ReturnKept
<1>16. IndexPart'
  <2>1. \A d \in Consumer : consumer'[d].pc \in {"tail", "key"} =>
          consumer'[d] = consumer[d]
    BY <1>3, <1>5
  <2>. QED
    BY <1>1, <1>2, <1>9, <2>1, IndexKept
<1>17. MemoryInv' /\ ProducerPart'
  BY <1>1, <1>2, <1>9 DEF MemoryInv, ProducerPart, Offset, Start
<1>. QED
  BY <1>11, <1>12, <1>13, <1>14, <1>15, <1>16, <1>17 DEF BlockInv, UsedInv

\* When nobody is using the queue.
LEMMA WhenQuiet ==
  ASSUME IInv, BlockInv, Quiet
  PROVE  /\ \A k \in Int : /\ Open(k) <=> k >= headIndex
                           /\ Present(k) <=> k >= headIndex
                           /\ Filled(k) <=> k < tailIndex
         /\ \A c \in Consumer : /\ consumer[c].pc = "idle"
                                /\ consumer[c].block = None
                                /\ ~Reading(c) /\ ~Holding(c)
         /\ \A b : ~Given(b)
         /\ producer.pc = "idle" /\ producer.block = None
         /\ Left = headIndex..tailIndex-1
<1>1. \A c \in Consumer : consumer[c].pc = "idle"
  BY DEF Quiet, At
<1>2. \A c \in Consumer : consumer[c].block = None
  BY <1>1 DEF BlockInv, FoundInv
<1>3. \A c \in Consumer : ~Reading(c) /\ ~Holding(c)
  BY <1>1 DEF Reading, Holding
<1>4. \A b : ~Given(b)
  BY <1>1 DEF Given, At
<1>5. producer.pc = "idle" /\ producer.block = None
  BY DEF Quiet, BlockInv, ProducerPart
<1>6. \A k \in Int : /\ Open(k) <=> k >= headIndex
                     /\ Present(k) <=> k >= headIndex
  BY <1>3 DEF Open, Present
<1>7. \A k \in Int : Filled(k) <=> k < tailIndex
  BY <1>5 DEF Filled
<1>. QED
  BY <1>1, <1>2, <1>3, <1>4, <1>5, <1>6, <1>7 DEF Left

\* The block of an element that is still to be counted.
LEMMA BlockOfIs ==
  ASSUME IInv, BlockInv, phase # "destroyed", NEW i \in Nat, i < tailIndex,
         Open(i)
  PROVE  \E e \in DOMAIN entries :
           Holds(e, Number(i)) /\ BlockOf(i) = entries[e].value
<1>1. /\ IndexInv /\ LinkInv /\ ProducerPart /\ tailIndex \in Nat
  BY Counted DEF IInv, ShapeInv, BlockInv, UsedInv
<1>2. PICK off, first : RingInv(off, first)
  BY DEF BlockInv, UsedInv, IndexPart
<1>3. PICK j : j = Number(i)
  OBVIOUS
<1>4. j \in 0..Blocks-1 /\ Blocks \in Nat /\ j \in Int /\ Blocks > 0
  BY <1>1, <1>3, Numbers
<1>5. PICK e \in DOMAIN entries : Holds(e, j)
  <2>1. Wanted(j)
    BY <1>3, WantedBy
  <2>. QED
    BY <1>1, <1>4, <2>1 DEF LinkInv
<1>6. headers # <<>> /\ Len(headers) \in DOMAIN headers
      /\ Current = headers[Len(headers)]
  <2>1. headers # <<>>
    BY <1>1 DEF IInv, ShapeInv, ProducerInv
  <2>. QED
    BY <1>1, <2>1, Headers
<1>7. e = EntryOf(off, Len(headers), j)
  <2>1. entries[e].key = Start(j)
    BY <1>5 DEF Holds
  <2>. QED
    BY <1>1, <1>2, <1>4, <1>6, <2>1, KeyPlace
<1>8. PICK k, t : k = Len(headers) /\ t = headers[k].tail
  OBVIOUS
<1>9. /\ t \in DOMAIN headers[k].index
      /\ entries[headers[k].index[t]].key # InvalidKey
  BY <1>1, <1>2, <1>4, <1>6, <1>8, TailHasKey
<1>10. off \in [DOMAIN headers -> Int] /\ CongruentInv(off)
  BY <1>2 DEF RingInv
<1>11. Position(headers[k], t, entries[headers[k].index[t]].key, i)
         = Place(off, k, Number(i))
  BY <1>1, <1>6, <1>8, <1>9, <1>10, PositionIs
<1>12. BlockOf(i) = entries[EntryOf(off, k, j)].value
  BY <1>3, <1>6, <1>8, <1>11 DEF BlockOf, EntryOf
<1>. QED
  BY <1>3, <1>5, <1>7, <1>8, <1>12

\* The elements that are left when nobody is using the queue.
LEMMA LeftElement ==
  ASSUME IInv, BlockInv, phase # "destroyed", Quiet,
         NEW i \in headIndex..tailIndex-1
  PROVE  /\ i \in Nat /\ i < tailIndex /\ i >= headIndex
         /\ \E e \in DOMAIN entries :
              Holds(e, Number(i)) /\ BlockOf(i) = entries[e].value
         /\ BlockOf(i) \in Block
         /\ slots[BlockOf(i)][Offset(i)] = items[i + 1]
<1>1. /\ IndexInv /\ SlotInv /\ headIndex \in Nat /\ tailIndex \in Nat
  BY Counted DEF IInv, ShapeInv, BlockInv, UsedInv
<1>2. i \in Nat /\ i < tailIndex /\ i >= headIndex /\ i \in Int
  BY <1>1
<1>3. Open(i) /\ Present(i) /\ Filled(i)
  BY <1>2, WhenQuiet
<1>4. PICK e \in DOMAIN entries :
        Holds(e, Number(i)) /\ BlockOf(i) = entries[e].value
  BY <1>2, <1>3, BlockOfIs
<1>5. BlockOf(i) \in Block
  <2>1. entries[e].value # None
    BY <1>4 DEF Holds
  <2>. QED
    BY <1>1, <1>4, <2>1, EntryIs
<1>6. slots[BlockOf(i)][Offset(i)] = Shown(i)
  <2>1. /\ Number(i) \in Nat /\ i \in Elements(Number(i))
        /\ Offset(i) = i - Start(Number(i))
    BY <1>2, NumberOf
  <2>. QED
    BY <1>1, <1>4, <2>1 DEF SlotInv
<1>7. Shown(i) = items[i + 1]
  BY <1>2, <1>3 DEF Shown, Content
<1>. QED
  BY <1>2, <1>4, <1>5, <1>6, <1>7

\* Elements of a block that is in the index.
LEMMA LeftIn ==
  ASSUME IInv, BlockInv, phase # "destroyed", Quiet,
         NEW i \in headIndex..tailIndex-1,
         NEW e \in DOMAIN entries, NEW j \in Nat, Holds(e, j)
  PROVE  BlockOf(i) = entries[e].value <=> Number(i) = j
<1>1. /\ i \in Nat
      /\ \E f \in DOMAIN entries :
           Holds(f, Number(i)) /\ BlockOf(i) = entries[f].value
  BY LeftElement
<1>2. PICK f \in DOMAIN entries :
        Holds(f, Number(i)) /\ BlockOf(i) = entries[f].value
  BY <1>1
<1>3. Number(i) \in Int
  BY <1>1, NumberOf
<1>4. ASSUME Number(i) = j PROVE BlockOf(i) = entries[e].value
  BY <1>2, <1>4, HoldsOne
<1>5. ASSUME BlockOf(i) = entries[e].value PROVE Number(i) = j
  <2>1. entries[e].value # None /\ OwnerInv
    BY DEF Holds, BlockInv, UsedInv
  <2>2. f = e
    BY <1>2, <1>5, <2>1 DEF OwnerInv
  <2>3. Start(Number(i)) = Start(j)
    BY <1>2, <2>2 DEF Holds
  <2>. QED
    BY <1>3, <2>3, StartInjective
<1>. QED
  BY <1>4, <1>5

\* What is in the slots are the elements that are left.
LEMMA LeftSlots ==
  ASSUME IInv, BlockInv, phase # "destroyed", Quiet,
         NEW b \in Block, NEW o \in 0..BlockSize-1, slots[b][o] # None
  PROVE  \E i \in headIndex..tailIndex-1 : BlockOf(i) = b /\ Offset(i) = o
<1>1. /\ SlotInv /\ LinkInv /\ headIndex \in Nat /\ tailIndex \in Nat
      /\ ProducerPart
  BY Counted DEF BlockInv, UsedInv
<1>2. PICK e \in DOMAIN entries : entries[e].value = b
  BY <1>1 DEF SlotInv, Linked
<1>3. PICK j \in 0..Blocks-1 : Holds(e, j)
  BY <1>1, <1>2, Sizes DEF LinkInv, Holds
<1>4. j \in Nat /\ j \in Int
  <2>1. Blocks \in Nat
    BY <1>1, Numbers
  <2>. QED
    BY <2>1
<1>5. PICK i : i = Start(j) + o
  OBVIOUS
<1>6. Start(j) \in Nat
  BY <1>4, Starts
<1>7. i \in Elements(j) /\ i - Start(j) = o /\ i \in Nat
  BY <1>5, <1>6, Sizes DEF Elements
<1>8. slots[b][o] = Shown(i)
  BY <1>1, <1>2, <1>3, <1>4, <1>7 DEF SlotInv
<1>9. i \in headIndex..tailIndex-1
  <2>1. Filled(i) /\ Present(i)
    BY <1>8 DEF Shown
  <2>. QED
    BY <1>1, <1>7, <2>1, WhenQuiet
<1>10. Number(i) = j /\ Offset(i) = o
  BY <1>4, <1>7, ElementOf, NumberOf
<1>. QED
  BY <1>2, <1>3, <1>4, <1>9, <1>10, LeftIn

\* Every block in the index has elements left, or is the one being filled.
LEMMA LinkedLeft ==
  ASSUME IInv, BlockInv, phase # "destroyed", Quiet,
         NEW e \in DOMAIN entries, entries[e].value # None
  PROVE  \E j \in 0..Blocks-1 :
           /\ j \in Nat /\ Blocks \in Nat /\ Holds(e, j) /\ Wanted(j)
           /\ \/ \E i \in headIndex..tailIndex-1 :
                   Number(i) = j /\ BlockOf(i) = entries[e].value
              \/ j = Blocks - 1 /\ Offset(tailIndex) # 0
<1>1. /\ LinkInv /\ headIndex \in Nat /\ tailIndex \in Nat
      /\ ProducerPart
  BY Counted DEF BlockInv, UsedInv
<1>2. PICK j \in 0..Blocks-1 : /\ entries[e].key = Start(j)
                               /\ \/ Wanted(j)
                                  \/ \E c \in Consumer : At(c, "unlink")
  BY <1>1 DEF LinkInv
<1>3. Holds(e, j) /\ Wanted(j)
  <2>1. \A c \in Consumer : ~At(c, "unlink")
    BY WhenQuiet DEF At
  <2>. QED
    BY <1>2, <2>1 DEF Holds
<1>4. /\ Blocks \in Nat /\ j \in Nat /\ j \in Int
      /\ Blocks > 0 /\ Start(Blocks - 1) < tailIndex
  <2>1. Blocks \in Nat
    BY <1>1, Numbers
  <2>2. Blocks > 0 /\ j \in Nat
    BY <2>1
  <2>. QED
    BY <1>1, <2>1, <2>2, Numbers, WhenQuiet
<1>5. PICK k \in Elements(j) : Open(k)
  BY <1>3 DEF Wanted
<1>6. k \in Int /\ Number(k) = j /\ k >= headIndex
  <2>1. k \in Int /\ Number(k) = j
    BY <1>4, ElementOf
  <2>. QED
    BY <1>5, <2>1, WhenQuiet
<1>7. CASE k < tailIndex
  <2>1. k \in headIndex..tailIndex-1
    BY <1>1, <1>6, <1>7
  <2>2. BlockOf(k) = entries[e].value
    BY <1>3, <1>4, <1>6, <2>1, LeftIn
  <2>. QED
    BY <1>3, <1>4, <1>6, <2>1, <2>2
<1>8. CASE k >= tailIndex
  <2>1. Start(j) \in Int /\ Start(Blocks - 1) \in Int /\ Blocks - 1 \in Int
    BY <1>4, Starts
  <2>2. k < Start(j) + BlockSize
    BY <1>6, <2>1, Sizes DEF Elements
  <2>3. j = Blocks - 1
    <3>1. j < Blocks - 1 => Start(j) + BlockSize <= Start(Blocks - 1)
      BY <1>4, <2>1, Starts
    <3>. QED
      BY <1>1, <1>4, <1>6, <1>8, <2>1, <2>2, <3>1, Sizes
  <2>4. Offset(tailIndex) # 0
    <3>1. tailIndex \in Elements(Blocks - 1)
      BY <1>1, <1>4, <1>6, <1>8, <2>1, <2>2, <2>3, Sizes DEF Elements
    <3>2. Number(tailIndex) = Blocks - 1
      BY <2>1, <3>1, ElementOf
    <3>3. Offset(tailIndex) = tailIndex - Start(Blocks - 1)
      BY <1>1, <3>2, NumberOf
    <3>. QED
      BY <1>1, <1>4, <2>1, <3>3
  <2>. QED
    BY <1>3, <1>4, <2>3, <2>4
<1>. QED
  BY <1>1, <1>6, <1>7, <1>8

\* The block that is being filled has not been given back if it is not full or
\* has elements left.
LEMMA LastBlock ==
  ASSUME IInv, BlockInv, phase # "destroyed", Quiet,
         headIndex < tailIndex \/ Offset(tailIndex) # 0
  PROVE  /\ Blocks \in Nat /\ Blocks - 1 \in Nat
         /\ Blocks - 1 = Number(tailIndex - 1)
         /\ \E e \in DOMAIN entries :
              Holds(e, Blocks - 1) /\ tailBlock = entries[e].value
<1>1. /\ LinkInv /\ headIndex \in Nat /\ tailIndex \in Nat
      /\ ProducerPart /\ headIndex <= tailIndex
  BY Counted DEF BlockInv, UsedInv
<1>2. producer.pc = "idle"
  BY WhenQuiet
<1>3. Blocks \in Nat
  BY <1>1, Numbers
<1>4. tailIndex > 0
  <2>1. tailIndex = 0 => Offset(tailIndex) = 0
    <3>1. Start(0) = 0 /\ Offset(Start(0)) = 0
      BY Starts, StartNumber
    <3>. QED
      BY <3>1
  <2>. QED
    BY <1>1, <2>1
<1>5. Number(tailIndex - 1) \in 0..Blocks-1
  <2>1. tailIndex - 1 \in Nat /\ tailIndex - 1 < tailIndex
    BY <1>1, <1>4
  <2>. QED
    BY <1>1, <2>1, Numbers
<1>6. Blocks > 0 /\ Blocks - 1 \in Nat /\ Blocks - 1 \in Int
  BY <1>3, <1>5
<1>7. Start(Blocks - 1) < tailIndex /\ tailIndex <= Start(Blocks)
  BY <1>1, <1>2, <1>6, Numbers
<1>8. /\ Start(Blocks - 1) \in Int
      /\ Start(Blocks) = Start(Blocks - 1) + BlockSize
  <2>1. Start((Blocks - 1) + 1) = Start(Blocks - 1) + BlockSize
    BY <1>6, Starts
  <2>2. (Blocks - 1) + 1 = Blocks
    BY <1>3
  <2>. QED
    BY <1>6, <2>1, <2>2, Starts
<1>9. tailIndex - 1 \in Elements(Blocks - 1)
  BY <1>1, <1>7, <1>8, Sizes DEF Elements
<1>10. Number(tailIndex - 1) = Blocks - 1
  BY <1>6, <1>9, ElementOf
<1>11. Wanted(Blocks - 1)
  <2>1. CASE headIndex < tailIndex
    <3>1. tailIndex - 1 \in Int /\ tailIndex - 1 >= headIndex
      BY <1>1, <2>1
    <3>2. Open(tailIndex - 1)
      BY <3>1, WhenQuiet
    <3>. QED
      BY <1>9, <3>2 DEF Wanted
  <2>2. CASE Offset(tailIndex) # 0
    <3>1. tailIndex # Start(Blocks)
      BY <1>3, <2>2, StartNumber
    <3>2. tailIndex \in Elements(Blocks - 1)
      BY <1>1, <1>7, <1>8, <3>1, Sizes DEF Elements
    <3>3. Open(tailIndex)
      BY <1>1, WhenQuiet
    <3>. QED
      BY <3>2, <3>3 DEF Wanted
  <2>. QED
    BY <2>1, <2>2
<1>12. PICK e \in DOMAIN entries : Holds(e, Blocks - 1)
  BY <1>1, <1>3, <1>6, <1>11 DEF LinkInv
<1>13. tailBlock = entries[e].value
  BY <1>1, <1>12 DEF LinkInv
<1>. QED
  BY <1>3, <1>6, <1>10, <1>12, <1>13

\* ~ThreadPool takes all elements that are left.
LEMMA DrainBlocks ==
  ASSUME IInv, IInv', BlockInv, Drain
  PROVE  BlockInv'
<1>. DEFINE count == [b \in Block |->
              emptied[b] + Cardinality({i \in Left : BlockOf(i) = b})]
            empty == {b \in {BlockOf(i) : i \in Left} : count[b] = BlockSize}
<1>1. /\ IndexInv /\ Quiet /\ phase = "alive" /\ phase' = "drained"
      /\ consumer \in [Consumer -> ConsumerType]
      /\ tailIndex \in Nat /\ headIndex \in Nat /\ headIndex <= tailIndex
      /\ LinkInv /\ OwnerInv /\ SlotInv /\ FoundInv /\ MemoryInv
      /\ ProducerPart /\ ReturnInv /\ IndexPart
  BY Counted
  DEF IInv, ShapeInv, ConsumerInv, BlockInv, UsedInv, Drain
<1>2. /\ \A k \in Int : /\ Open(k) <=> k >= headIndex
                        /\ Present(k) <=> k >= headIndex
      /\ \A c \in Consumer : /\ consumer[c].pc = "idle"
                             /\ consumer[c].block = None
                             /\ ~Reading(c) /\ ~Holding(c)
      /\ \A b : ~Given(b)
      /\ producer.pc = "idle" /\ producer.block = None
      /\ Left = headIndex..tailIndex-1
  BY <1>1, WhenQuiet
<1>3. headIndex' = tailIndex
  BY <1>1, DrainTakesAll DEF IInv
<1>4. PICK n : n = IF BulkAvailable < SizeApprox
                   THEN BulkAvailable ELSE SizeApprox
  OBVIOUS
<1>5. headIndex..headIndex + n - 1 = Left
  <2>1. optimistic - overcommit = headIndex
    BY <1>1, DrainTakesAll DEF IInv
  <2>2. optimistic \in Nat /\ overcommit \in Nat
    BY DEF IInv, ShapeInv, CounterInv
  <2>3. n = tailIndex - headIndex
    BY <1>1, <1>4, <2>1, <2>2 DEF BulkAvailable, SizeApprox
  <2>4. headIndex + n - 1 = tailIndex - 1
    BY <1>1, <2>3
  <2>. QED
    BY <1>2, <2>4
<1>6. /\ returned' = returned \cup {slots[BlockOf(i)][Offset(i)] : i \in Left}
      /\ slots' = [b \in Block |-> [o \in 0..BlockSize-1 |->
                     IF \E i \in Left : BlockOf(i) = b /\ Offset(i) = o
                     THEN None ELSE slots[b][o]]]
      /\ emptied' = count
      /\ entries' = [e \in DOMAIN entries |->
                       IF entries[e].value \in empty
                       THEN [entries[e] EXCEPT !.value = None]
                       ELSE entries[e]]
      /\ freeBlocks' = freeBlocks \cup empty
      /\ tailIndex' = tailIndex /\ tailBlock' = tailBlock
      /\ headers' = headers /\ producer' = producer
      /\ consumer' = consumer /\ items' = items
  BY <1>4, <1>5 DEF Drain
<1>. HIDE DEF count, empty
<1>7. /\ \A k \in Int : /\ Open(k)' <=> k >= tailIndex
                        /\ Present(k)' <=> k >= tailIndex
      /\ \A c \in Consumer : ~Reading(c)' /\ ~Holding(c)'
  <2>1. \A c \in Consumer : ~Reading(c)' /\ ~Holding(c)'
    BY <1>2, <1>6 DEF Reading, Holding
  <2>. QED
    BY <1>3, <2>1 DEF Open, Present
<1>8. /\ Blocks' = Blocks /\ Newest' = Newest /\ Blocks \in Nat
      /\ \A k : Start(k)' = Start(k) /\ Elements(k)' = Elements(k)
  BY <1>1, <1>6, Numbers DEF Blocks, Newest, Number, Offset, Start, Elements
<1>9. ASSUME NEW e \in DOMAIN entries
      PROVE  /\ e \in DOMAIN entries'
             /\ entries'[e].key = entries[e].key
             /\ entries[e].value \in empty => entries'[e].value = None
             /\ entries[e].value \notin empty => entries'[e] = entries[e]
  <2>1. entries[e] \in [key : Nat \cup {InvalidKey}, value : Block \cup {None}]
    BY <1>1, EntryIs
  <2>. QED
    BY <1>6, <2>1
<1>10. DOMAIN entries' = DOMAIN entries /\ Len(entries') = Len(entries)
  <2>1. DOMAIN entries' = DOMAIN entries
    BY <1>6
  <2>2. entries' \in Seq(EntryType) /\ entries \in Seq(EntryType)
    BY <1>1 DEF IInv, ShapeInv, IndexInv, EntryType, InvalidKey
  <2>3. /\ DOMAIN entries' = 1..Len(entries') /\ DOMAIN entries = 1..Len(entries)
        /\ Len(entries') \in Nat /\ Len(entries) \in Nat
    BY <2>2
  <2>4. \A x, y \in Nat : 1..x = 1..y => x = y
    <3>1. \A x, y \in Nat : x < y => y \in 1..y /\ y \notin 1..x
      OBVIOUS
    <3>. QED
      BY <3>1
  <2>. QED
    BY <2>1, <2>3, <2>4
<1>11. \A b \in empty : b \in Block /\ Linked(b)
  <2>1. ASSUME NEW i \in Left PROVE BlockOf(i) \in Block /\ Linked(BlockOf(i))
    BY <1>1, <1>2, LeftElement DEF Linked
  <2>. QED
    BY <2>1 DEF empty
\* The elements each block loses.
<1>12. ASSUME NEW e \in DOMAIN entries, NEW j \in Nat, Holds(e, j)
       PROVE  /\ entries[e].value \in Block
              /\ count[entries[e].value] = Cardinality(Spent(j)')
              /\ entries[e].value \in empty <=> ~Wanted(j)'
  <2>1. entries[e].value \in Block
    <3>1. entries[e].value # None
      BY <1>12 DEF Holds
    <3>. QED
      BY <1>1, <3>1, EntryIs
  <2>2. PICK lost : lost = {i \in Left : BlockOf(i) = entries[e].value}
    OBVIOUS
  <2>3. \A i \in Left : BlockOf(i) = entries[e].value <=> Number(i) = j
    BY <1>1, <1>2, <1>12, LeftIn
  <2>4. \A i \in Int : i \in Elements(j) <=> Number(i) = j
    BY ElementOf, NumberOf
  <2>5. \A i \in Elements(j) : i \in Int
    BY ElementOf
  <2>6. \A i \in Left : i \in Int
    BY <1>1, <1>2
  <2>7. /\ Spent(j)' = Spent(j) \cup lost
        /\ Spent(j) \cap lost = {}
    <3>1. \A i \in Spent(j)' : i \in Elements(j) /\ ~(i >= tailIndex)
      BY <1>7, <1>8, <2>5 DEF Spent
    <3>2. \A i \in Elements(j) : ~(i >= tailIndex) => i \in Spent(j)'
      BY <1>7, <1>8, <2>5 DEF Spent
    <3>3. \A i : i \in Spent(j) <=> i \in Elements(j) /\ ~(i >= headIndex)
      BY <1>2, <2>5 DEF Spent
    <3>4. \A i : i \in lost <=> i \in Elements(j) /\ i >= headIndex
                                                /\ ~(i >= tailIndex)
      <4>1. \A i : i \in lost <=> i \in Left /\ i \in Elements(j)
        BY <2>2, <2>3, <2>4, <2>6
      <4>2. \A i \in Int : i \in Left <=> i >= headIndex /\ ~(i >= tailIndex)
        BY <1>1, <1>2
      <4>. QED
        BY <2>5, <4>1, <4>2
    <3>5. \A i \in Int : i >= tailIndex => i >= headIndex
      BY <1>1
    <3>. QED
      BY <2>5, <3>1, <3>2, <3>3, <3>4, <3>5
  <2>8. /\ IsFiniteSet(Spent(j)) /\ Cardinality(Spent(j)) \in Nat
        /\ IsFiniteSet(lost) /\ Cardinality(lost) \in Nat
    <3>1. j \in Int
      OBVIOUS
    <3>2. IsFiniteSet(Left)
      BY <1>1, <1>2, FS_Interval
    <3>3. lost \subseteq Left
      BY <2>2
    <3>4. IsFiniteSet(lost)
      BY <3>2, <3>3, FS_Subset
    <3>5. IsFiniteSet(Spent(j))
      BY <3>1, SpentAll
    <3>. QED
      BY <3>4, <3>5, FS_CardinalityType
  <2>9. Cardinality(Spent(j)') = Cardinality(Spent(j)) + Cardinality(lost)
    <3>1. Cardinality(Spent(j) \cup lost)
            = Cardinality(Spent(j)) + Cardinality(lost)
                - Cardinality(Spent(j) \cap lost)
      BY <2>8, FS_Union
    <3>2. Cardinality(Spent(j) \cap lost) = 0
      BY <2>7, FS_EmptySet
    <3>. QED
      BY <2>7, <2>8, <3>1, <3>2
  <2>10. count[entries[e].value] = Cardinality(Spent(j)')
    <3>1. emptied[entries[e].value] = Cardinality(Spent(j))
      BY <1>1, <1>12 DEF LinkInv
    <3>2. count[entries[e].value]
            = emptied[entries[e].value] + Cardinality(lost)
      BY <2>1, <2>2 DEF count
    <3>. QED
      BY <2>9, <3>1, <3>2
  <2>11. Cardinality(Spent(j)') = BlockSize <=> ~Wanted(j)'
    <3>1. /\ IsFiniteSet(Elements(j)) /\ Cardinality(Elements(j)) = BlockSize
      BY ElementsOf
    <3>2. Spent(j)' \subseteq Elements(j)
      BY <1>8 DEF Spent
    <3>3. Cardinality(Spent(j)') = BlockSize <=> Spent(j)' = Elements(j)
      BY <3>1, <3>2, FS_Subset
    <3>4. Spent(j)' = Elements(j) <=> ~Wanted(j)'
      BY <1>8 DEF Spent, Wanted
    <3>. QED
      BY <3>3, <3>4
  <2>12. ~Wanted(j)' => \E i \in Left : BlockOf(i) = entries[e].value
    <3>1. SUFFICES ASSUME ~Wanted(j)'
                   PROVE  \E i \in Left : BlockOf(i) = entries[e].value
      OBVIOUS
    <3>2. entries[e].value # None
      BY <1>12 DEF Holds
    <3>3. PICK k \in 0..Blocks-1 :
            /\ k \in Nat /\ Holds(e, k) /\ Wanted(k)
      BY <1>1, <3>2, LinkedLeft
    <3>4. k = j
      <4>1. Start(k) = Start(j)
        BY <1>12, <3>3 DEF Holds
      <4>. QED
        BY <3>3, <4>1, StartInjective
    <3>5. PICK i \in Elements(j) : Open(i)
      BY <3>3, <3>4 DEF Wanted
    <3>6. i \in Int /\ ~Open(i)' /\ i >= headIndex
      BY <1>2, <1>8, <2>5, <3>1, <3>5 DEF Wanted
    <3>7. i \in Left
      BY <1>1, <1>2, <1>7, <3>6
    <3>. QED
      BY <2>3, <2>4, <3>5, <3>6, <3>7
  <2>13. entries[e].value \in empty <=>
           /\ \E i \in Left : BlockOf(i) = entries[e].value
           /\ count[entries[e].value] = BlockSize
    BY DEF empty
  <2>. QED
    BY <2>1, <2>10, <2>11, <2>12, <2>13
<1>13. ASSUME NEW e \in DOMAIN entries
       PROVE  /\ \A j : Holds(e, j)' <=>
                   Holds(e, j) /\ entries[e].value \notin empty
              /\ \A b : b # None => (entries'[e].value = b <=>
                   entries[e].value = b /\ b \notin empty)
              /\ entries'[e].value # None => entries'[e] = entries[e]
                                         /\ entries[e].value \notin empty
  <2>1. None \notin empty
    BY <1>11, Sizes
  <2>. QED
    BY <1>8, <1>9, <2>1 DEF Holds
<1>14. LinkInv'
  <2>1. ASSUME NEW e \in DOMAIN entries, entries'[e].value # None
        PROVE  \E j \in 0..Blocks-1 : entries'[e].key = Start(j) /\ Wanted(j)'
    <3>1. entries'[e] = entries[e] /\ entries[e].value \notin empty
      BY <1>13, <2>1
    <3>2. PICK j \in 0..Blocks-1 : j \in Nat /\ Holds(e, j)
      BY <1>1, <2>1, <3>1, LinkedLeft
    <3>. QED
      BY <1>12, <3>1, <3>2 DEF Holds
  <2>2. ASSUME NEW j \in 0..Blocks-1, Wanted(j)'
        PROVE  \E e \in DOMAIN entries : Holds(e, j)'
    <3>1. j \in Nat
      BY <1>8
    <3>2. \A i \in Elements(j) : i \in Int
      BY <3>1, ElementOf
    <3>3. Wanted(j)
      BY <1>1, <1>2, <1>7, <1>8, <2>2, <3>2 DEF Wanted
    <3>4. PICK e \in DOMAIN entries : Holds(e, j)
      BY <1>1, <3>3 DEF LinkInv
    <3>. QED
      BY <1>12, <1>13, <2>2, <3>1, <3>4
  <2>3. ASSUME NEW e \in DOMAIN entries, NEW j \in Nat, Holds(e, j)'
        PROVE  emptied'[entries'[e].value] = Cardinality(Spent(j)')
    <3>1. Holds(e, j) /\ entries[e].value \notin empty
      BY <1>13, <2>3
    <3>2. entries'[e] = entries[e]
      BY <1>9, <3>1
    <3>. QED
      BY <1>6, <1>12, <3>1, <3>2
  <2>4. ASSUME NEW e \in DOMAIN entries, Holds(e, Blocks - 1)'
        PROVE  tailBlock' = entries'[e].value
    <3>1. Holds(e, Blocks - 1) /\ entries'[e] = entries[e]
      BY <1>8, <1>9, <1>13, <2>4 DEF Holds, Start
    <3>. QED
      BY <1>1, <1>6, <3>1 DEF LinkInv
  <2>. QED
    BY <1>8, <1>10, <2>1, <2>2, <2>3, <2>4 DEF LinkInv
<1>15. OwnerInv'
  <2>1. ASSUME NEW b \in Block
        PROVE  Linked(b)' <=> Linked(b) /\ b \notin empty
    BY <1>10, <1>13, Sizes DEF Linked
  <2>2. \A b : ~Given(b)'
    BY <1>2, <1>6 DEF Given, At
  <2>3. producer'.block = None
    BY <1>2, <1>6
  <2>4. ASSUME NEW b \in Block
        PROVE  /\ b \in freeBlocks' \/ Linked(b)' \/ Given(b)'
                    \/ producer'.block = b
               /\ b \in freeBlocks' =>
                    ~Linked(b)' /\ ~Given(b)' /\ producer'.block # b
               /\ Linked(b)' => ~Given(b)' /\ producer'.block # b
               /\ Given(b)' => producer'.block # b
    <3>1. /\ b \in freeBlocks \/ Linked(b) \/ Given(b) \/ producer.block = b
          /\ b \in freeBlocks => ~Linked(b)
          /\ producer.block # b /\ ~Given(b)
      BY <1>1, <1>2, Sizes DEF OwnerInv
    <3>. QED
      BY <1>6, <2>1, <2>2, <2>3, <3>1, Sizes
  <2>5. \A e, f \in DOMAIN entries :
          entries'[e].value = entries'[f].value /\ entries'[e].value # None
            => e = f
    BY <1>1, <1>13 DEF OwnerInv
  <2>6. \A c \in Consumer : ~At(c, "recycle")'
    BY <1>2, <1>6 DEF At
  <2>7. freeBlocks' \subseteq Block
    BY <1>1, <1>6, <1>11 DEF OwnerInv
  <2>. QED
    BY <1>10, <2>4, <2>5, <2>6, <2>7 DEF OwnerInv
<1>16. \A b \in Block, o \in 0..BlockSize-1 : slots'[b][o] = None
  BY <1>1, <1>2, <1>6, LeftSlots
<1>17. SlotInv'
  <2>1. ASSUME NEW i \in Nat PROVE Shown(i)' = None
    <3>1. ~Filled(i)' \/ ~Present(i)'
      BY <1>1, <1>2, <1>6, <1>7 DEF Filled
    <3>. QED
      BY <3>1 DEF Shown
  <2>2. ASSUME NEW e \in DOMAIN entries, NEW j \in Nat, Holds(e, j)',
               NEW i \in Elements(j)
        PROVE  slots'[entries'[e].value][i - Start(j)] = Shown(i)'
    <3>1. Holds(e, j) /\ entries'[e] = entries[e]
      BY <1>9, <1>13, <2>2
    <3>2. entries[e].value \in Block
      BY <1>12, <3>1
    <3>3. i \in Nat /\ i - Start(j) \in 0..BlockSize-1
      BY ElementOf
    <3>. QED
      BY <1>16, <2>1, <3>1, <3>2, <3>3
  <2>. QED
    BY <1>8, <1>10, <1>16, <2>2 DEF SlotInv
<1>18. FoundInv'
  BY <1>2, <1>6, <1>7 DEF FoundInv, At
<1>19. ReturnInv'
  <2>1. Gone = 0..headIndex-1
    <3>1. \A i \in 0..headIndex-1 : i \in Int /\ ~(i >= headIndex)
      BY <1>1
    <3>. QED
      BY <1>2, <3>1 DEF Gone
  <2>2. Gone' = 0..tailIndex-1
    <3>1. \A i \in 0..tailIndex-1 : i \in Int /\ ~(i >= tailIndex)
      BY <1>1
    <3>. QED
      BY <1>3, <1>7, <3>1 DEF Gone
  <2>3. Gone' = Gone \cup Left
    BY <1>1, <1>2, <2>1, <2>2
  <2>4. \A i \in Left : slots[BlockOf(i)][Offset(i)] = items[i + 1]
    BY <1>1, <1>2, LeftElement
  <2>5. {slots[BlockOf(i)][Offset(i)] : i \in Left} = {items[i + 1] : i \in Left}
    BY <2>4
  <2>6. {items[i + 1] : i \in Gone \cup Left}
          = {items[i + 1] : i \in Gone} \cup {items[i + 1] : i \in Left}
    OBVIOUS
  <2>. QED
    BY <1>1, <1>3, <1>6, <2>3, <2>5, <2>6 DEF ReturnInv
<1>20. IndexPart'
  <2>1. \A c \in Consumer : consumer'[c].pc \in {"tail", "key"} =>
          consumer'[c] = consumer[c]
    BY <1>6
  <2>2. \A e \in DOMAIN entries :
          /\ entries'[e].key = entries[e].key
          /\ entries[e].value = None => entries'[e].value = None
    BY <1>9
  <2>. QED
    BY <1>1, <1>6, <1>8, <1>10, <2>1, <2>2, IndexKept
<1>21. MemoryInv'
  <2>1. ASSUME NEW b \in Block
        PROVE  count[b] \in 0..BlockSize
    <3>1. CASE Linked(b)
      <4>1. PICK e \in DOMAIN entries : entries[e].value = b
        BY <3>1 DEF Linked
      <4>2. PICK j \in 0..Blocks-1 : j \in Nat /\ Holds(e, j)
        BY <1>1, <4>1, LinkedLeft, Sizes
      <4>3. count[b] = Cardinality(Spent(j)')
        BY <1>12, <4>1, <4>2
      <4>4. Cardinality(Spent(j)') \in 0..BlockSize
        <5>1. /\ IsFiniteSet(Elements(j))
              /\ Cardinality(Elements(j)) = BlockSize
          BY <4>2, ElementsOf
        <5>2. Spent(j)' \subseteq Elements(j)
          BY <1>8 DEF Spent
        <5>3. IsFiniteSet(Spent(j)') /\ Cardinality(Spent(j)') <= BlockSize
          BY <5>1, <5>2, FS_Subset
        <5>4. Cardinality(Spent(j)') \in Nat
          BY <5>3, FS_CardinalityType
        <5>. QED
          BY <5>3, <5>4, Sizes
      <4>. QED
        BY <4>3, <4>4
    <3>2. CASE ~Linked(b)
      <4>1. {i \in Left : BlockOf(i) = b} = {}
        BY <1>1, <1>2, <3>2, LeftElement DEF Linked
      <4>2. Cardinality({i \in Left : BlockOf(i) = b}) = 0
        BY <4>1, FS_EmptySet
      <4>3. emptied[b] \in 0..BlockSize
        BY <1>1 DEF MemoryInv
      <4>4. count[b] = emptied[b] + 0
        BY <4>2 DEF count
      <4>. QED
        BY <4>3, <4>4, Sizes
    <3>. QED
      BY <3>1, <3>2
  <2>2. emptied' \in [Block -> 0..BlockSize]
    BY <1>6, <2>1 DEF count
  <2>. QED
    BY <1>1, <1>6, <2>2 DEF MemoryInv
<1>22. ProducerPart'
  BY <1>2, <1>6 DEF ProducerPart
<1>. QED
  BY <1>14, <1>15, <1>17, <1>18, <1>19, <1>20, <1>21, <1>22
  DEF BlockInv, UsedInv

\* What ~ImplicitProducer frees and destroys.
LEMMA FreedIs ==
  ASSUME IInv, BlockInv, Quiet, phase # "destroyed"
  PROVE  /\ FreedBefore \cap FreedLast = {}
         /\ (FreedBefore \cup FreedLast) \cap freeBlocks = {}
         /\ freeBlocks \cup FreedBefore \cup FreedLast = Block
<1>1. /\ LinkInv /\ OwnerInv /\ headIndex \in Nat /\ tailIndex \in Nat
  BY Counted DEF BlockInv, UsedInv
<1>2. /\ Left = headIndex..tailIndex-1 /\ producer.block = None
      /\ \A b : ~Given(b)
  BY WhenQuiet
<1>3. Left # {} => headIndex < tailIndex
  BY <1>1, <1>2
<1>4. ASSUME NEW i \in Left
      PROVE  \E e \in DOMAIN entries :
               /\ Holds(e, Number(i)) /\ BlockOf(i) = entries[e].value
               /\ i \in Nat /\ BlockOf(i) \in Block
  BY <1>2, LeftElement
<1>5. ASSUME NEW b \in FreedLast
      PROVE  /\ b = tailBlock
             /\ Left # {} \/ Offset(tailIndex) # 0
             /\ Blocks - 1 \in Nat /\ Blocks - 1 = Number(tailIndex - 1)
             /\ \E e \in DOMAIN entries :
                  Holds(e, Blocks - 1) /\ tailBlock = entries[e].value
  <2>1. b = tailBlock /\ (Left # {} \/ Offset(tailIndex) # 0)
    BY DEF FreedLast
  <2>2. headIndex < tailIndex \/ Offset(tailIndex) # 0
    BY <1>3, <2>1
  <2>. QED
    BY <2>1, <2>2, LastBlock
<1>6. Base(tailIndex - 1) = Start(Number(tailIndex - 1))
  BY <1>1, NumberOf
<1>7. FreedBefore \cap FreedLast = {}
  <2>1. SUFFICES ASSUME NEW b \in FreedBefore, b \in FreedLast PROVE FALSE
    OBVIOUS
  <2>2. PICK i \in Left : Base(i) # Base(tailIndex - 1) /\ b = BlockOf(i)
    BY <2>1 DEF FreedBefore
  <2>3. PICK e \in DOMAIN entries :
          /\ Holds(e, Number(i)) /\ b = entries[e].value
          /\ i \in Nat /\ b \in Block
    BY <1>4, <2>2
  <2>4. PICK f \in DOMAIN entries :
          Holds(f, Blocks - 1) /\ b = entries[f].value
    BY <1>5, <2>1
  <2>5. e = f
    BY <1>1, <2>3, <2>4, Sizes DEF OwnerInv
  <2>6. Start(Number(i)) = Start(Blocks - 1)
    BY <2>3, <2>4, <2>5 DEF Holds
  <2>7. Base(i) = Start(Number(i))
    BY <2>3, NumberOf
  <2>8. Blocks - 1 = Number(tailIndex - 1)
    BY <1>5, <2>1
  <2>. QED
    BY <1>6, <2>2, <2>6, <2>7, <2>8
<1>8. \A b \in FreedBefore \cup FreedLast : b \in Block /\ Linked(b)
  <2>1. \A b \in FreedBefore : b \in Block /\ Linked(b)
    BY <1>4 DEF FreedBefore, Linked
  <2>2. ASSUME NEW b \in FreedLast PROVE b \in Block /\ Linked(b)
    <3>1. PICK e \in DOMAIN entries :
            Holds(e, Blocks - 1) /\ b = entries[e].value
      BY <1>5
    <3>2. entries[e].value # None /\ IndexInv
      BY <3>1 DEF Holds, IInv, ShapeInv
    <3>3. b \in Block
      BY <3>1, <3>2, EntryIs
    <3>. QED
      BY <3>1, <3>3 DEF Linked
  <2>. QED
    BY <2>1, <2>2
<1>9. (FreedBefore \cup FreedLast) \cap freeBlocks = {}
  BY <1>1, <1>8 DEF OwnerInv
<1>10. ASSUME NEW b \in Block, b \notin freeBlocks
       PROVE  b \in FreedBefore \cup FreedLast
  <2>1. PICK e \in DOMAIN entries : entries[e].value = b
    BY <1>1, <1>2, <1>10, Sizes DEF OwnerInv, Linked
  <2>2. PICK j \in 0..Blocks-1 :
          /\ j \in Nat /\ Blocks \in Nat /\ Holds(e, j)
          /\ \/ \E i \in headIndex..tailIndex-1 :
                  Number(i) = j /\ BlockOf(i) = entries[e].value
             \/ j = Blocks - 1 /\ Offset(tailIndex) # 0
    BY <2>1, LinkedLeft, Sizes
  <2>3. ASSUME j = Blocks - 1, Left # {} \/ Offset(tailIndex) # 0
        PROVE  b \in FreedLast
    <3>1. tailBlock = b
      <4>1. Holds(e, Blocks - 1)
        BY <2>2, <2>3
      <4>. QED
        BY <1>1, <2>1, <4>1 DEF LinkInv
    <3>. QED
      BY <2>3, <3>1, Sizes DEF FreedLast
  <2>4. CASE j = Blocks - 1 /\ Offset(tailIndex) # 0
    BY <2>3, <2>4
  <2>5. ASSUME NEW i \in headIndex..tailIndex-1,
               Number(i) = j, BlockOf(i) = entries[e].value
        PROVE  b \in FreedBefore \cup FreedLast
    <3>1. i \in Left /\ i \in Int
      BY <1>1, <1>2
    <3>2. CASE Base(i) # Base(tailIndex - 1)
      BY <2>1, <2>5, <3>1, <3>2 DEF FreedBefore
    <3>3. CASE Base(i) = Base(tailIndex - 1)
      <4>1. Start(j) = Start(Number(tailIndex - 1))
        BY <1>6, <2>5, <3>1, <3>3, NumberOf
      <4>2. Number(tailIndex - 1) \in Int
        BY <1>1, NumberOf
      <4>3. j = Number(tailIndex - 1)
        BY <2>2, <4>1, <4>2, StartInjective
      <4>4. headIndex < tailIndex
        BY <1>3, <3>1
      <4>5. j = Blocks - 1
        BY <4>3, <4>4, LastBlock
      <4>. QED
        BY <2>3, <3>1, <4>5
    <3>. QED
      BY <3>2, <3>3
  <2>. QED
    BY <2>2, <2>4, <2>5
<1>11. freeBlocks \subseteq Block
  BY <1>1 DEF OwnerInv
<1>. QED
  BY <1>7, <1>8, <1>9, <1>10, <1>11

LEMMA DestroyBlocks ==
  ASSUME IInv, BlockInv, Destroy
  PROVE  /\ BlockInv'
         /\ \A b \in Block, o \in 0..BlockSize-1 : slots'[b][o] = None
<1>1. /\ Quiet /\ phase # "destroyed" /\ phase' = "destroyed"
      /\ freeBlocks' = freeBlocks \cup FreedBefore \cup FreedLast
      /\ slots' = [b \in Block |-> [o \in 0..BlockSize-1 |->
                     IF \E i \in Left : BlockOf(i) = b /\ Offset(i) = o
                     THEN None ELSE slots[b][o]]]
      /\ tailBlock' = tailBlock /\ emptied' = emptied /\ producer' = producer
      /\ consumer' = consumer /\ items' = items /\ returned' = returned
      /\ headIndex' = headIndex /\ tailIndex' = tailIndex
  BY DEF Destroy, counters
<1>2. FoundInv /\ MemoryInv /\ ProducerPart /\ ReturnInv
  BY DEF BlockInv
<1>3. /\ \A c \in Consumer : /\ consumer[c].pc = "idle"
                             /\ consumer[c].block = None
                             /\ ~Reading(c) /\ ~Holding(c)
      /\ producer.pc = "idle" /\ producer.block = None
      /\ Left = headIndex..tailIndex-1
  BY <1>1, WhenQuiet
<1>4. freeBlocks' = Block
  BY <1>1, FreedIs
<1>5. FoundInv'
  BY <1>1, <1>3 DEF FoundInv, At, Reading
<1>6. ProducerPart'
  BY <1>1, <1>3 DEF ProducerPart
<1>7. MemoryInv'
  BY <1>1, <1>2, <1>4 DEF MemoryInv
<1>8. ReturnInv'
  <2>1. PresentKept
    BY <1>1, ConsumersSame
  <2>. QED
    BY <1>1, <1>2, <2>1, Counted, ReturnKept
<1>9. UsedInv'
  BY <1>1 DEF UsedInv
<1>10. \A b \in Block, o \in 0..BlockSize-1 : slots'[b][o] = None
  BY <1>1, <1>3, LeftSlots
<1>. QED
  BY <1>5, <1>6, <1>7, <1>8, <1>9, <1>10 DEF BlockInv

-----------------------------------------------------------------------------
LEMMA BlockInit ==
  ASSUME Init
  PROVE  BlockInv
<1>1. /\ tailIndex = 0 /\ headIndex = 0 /\ tailBlock = None
      /\ slots = [b \in Block |-> [o \in 0..BlockSize-1 |-> None]]
      /\ emptied = [b \in Block |-> 0] /\ freeBlocks = Block
      /\ producer.pc = "idle" /\ producer.block = None
      /\ consumer = [c \in Consumer |-> Idle]
      /\ items = <<>> /\ returned = {} /\ phase = "alive"
  BY DEF Init
<1>2. \A c \in Consumer : /\ consumer[c].pc = "idle"
                          /\ consumer[c].block = None
  BY <1>1 DEF Idle
<1>3. \A c \in Consumer : ~Reading(c) /\ ~Holding(c)
  BY <1>2 DEF Reading, Holding
<1>4. ASSUME NEW e \in DOMAIN entries
      PROVE  entries[e].value = None /\ entries[e].key = InvalidKey
  <2>1. CASE entries = <<>>
    BY <2>1
  <2>2. CASE entries = FreshEntries(InitialIndexSize)
    BY <2>2 DEF FreshEntries
  <2>. QED
    BY <2>1, <2>2 DEF Init
<1>5. \A i \in Int : (Open(i) <=> i >= 0) /\ (Filled(i) <=> i < 0)
  BY <1>1, <1>3 DEF Open, Filled
<1>6. Blocks = 0 /\ Newest = -1
  <2>1. Number(0) = 0 /\ Offset(0) = 0
    BY Starts, StartNumber
  <2>2. Blocks = 0
    BY <1>1, <2>1 DEF Blocks
  <2>. QED
    BY <1>1, <2>2 DEF Newest
<1>7. \A e \in DOMAIN entries : \A j : ~Holds(e, j)
  BY <1>4 DEF Holds
<1>8. LinkInv
  BY <1>4, <1>6, <1>7 DEF LinkInv
<1>9. OwnerInv
  BY <1>1, <1>2, <1>4, Sizes DEF OwnerInv, Linked, Given, At
<1>10. SlotInv
  BY <1>1, <1>7 DEF SlotInv
<1>11. FoundInv
  BY <1>2, <1>3 DEF FoundInv, At
<1>12. ProducerPart
  BY <1>1 DEF ProducerPart
<1>13. MemoryInv
  BY <1>1, Sizes DEF MemoryInv
<1>14. ReturnInv
  <2>1. Gone = {}
    BY <1>1 DEF Gone
  <2>. QED
    BY <1>1, <2>1 DEF ReturnInv
<1>15. IndexPart
  <2>1. CASE headers = <<>>
    <3>. DEFINE off == [k \in {} |-> 0]
    <3>1. off \in [DOMAIN headers -> Int]
      BY <2>1
    <3>2. CongruentInv(off)
      BY <2>1 DEF CongruentInv
    <3>3. LookupInv(off)
      BY <1>2 DEF LookupInv, At
    <3>4. RingInv(off, 0)
      BY <2>1, <3>1, <3>2, <3>3 DEF RingInv
    <3>. QED
      BY <3>4 DEF IndexPart
  <2>2. CASE headers # <<>>
    <3>0. PICK n : n = InitialIndexSize
      OBVIOUS
    <3>1. /\ n \in Nat \ {0}
          /\ headers = <<FirstHeader(n)>> /\ entries = FreshEntries(n)
      BY <2>2, <3>0, Sizes DEF Init
    <3>2. /\ Len(headers) = 1 /\ DOMAIN headers = {1}
          /\ headers[1] = FirstHeader(n) /\ Len(entries) = n
          /\ DOMAIN entries = 1..n /\ Current = FirstHeader(n)
      BY <3>1, FreshType DEF Current, Last, FreshEntries
    <3>3. /\ headers[1].index = [i \in 0..n-1 |-> i + 1]
          /\ headers[1].tail = n - 1
          /\ Current.index = [i \in 0..n-1 |-> i + 1] /\ Current.tail = n - 1
      BY <3>2 DEF FirstHeader
    <3>4. Size(1) = n
      <4>1. [i \in 0..n-1 |-> i + 1] \in [0..n-1 -> Int]
        BY <3>1
      <4>. QED
        BY <3>1, <3>2, <4>1, CapacityOf DEF Size, FirstHeader
    <3>5. PICK off : off = [k \in {1} |-> 0]
      OBVIOUS
    <3>6. off \in [DOMAIN headers -> Int] /\ off[1] = 0
      BY <3>2, <3>5
    <3>7. CongruentInv(off)
      <4>1. ASSUME NEW p \in 0..n-1
            PROVE  entries[headers[1].index[p]].key = InvalidKey
        <5>1. headers[1].index[p] \in 1..n
          BY <3>1, <3>3
        <5>. QED
          BY <1>4, <3>2, <5>1
      <4>2. Size(Len(headers)) = 1 * Size(1)
        BY <3>1, <3>2, <3>4
      <4>. QED
        BY <3>2, <3>3, <4>1, <4>2 DEF CongruentInv
    <3>8. Place(off, 1, -1) = n - 1
      <4>0. PICK m, z : m = -1 /\ z = 1
        OBVIOUS
      <4>1. m \in Int /\ n - 1 \in 0..n-1 /\ n - 1 = m + n * z /\ z \in Int
        BY <3>1, <4>0
      <4>2. (m + n * z) % n = m % n
        BY <3>1, <4>1, SameRemainder
      <4>3. (n - 1) % n = n - 1
        BY <3>1, <4>1, SmallRemainder
      <4>4. off[1] + m = m
        BY <3>6, <4>1
      <4>5. Place(off, 1, m) = m % n
        BY <3>4, <4>4 DEF Place
      <4>. QED
        BY <4>0, <4>1, <4>2, <4>3, <4>5
    <3>9. \A j \in Int : EntryOf(off, 1, j) \in 1..n
      <4>1. ASSUME NEW j \in Int PROVE EntryOf(off, 1, j) \in 1..n
        <5>1. off[1] + j \in Int
          BY <3>6
        <5>2. Place(off, 1, j) \in 0..n-1
          BY <3>1, <3>4, <5>1, ModRange DEF Place
        <5>. QED
          BY <3>1, <3>3, <5>2 DEF EntryOf
      <4>. QED
        BY <4>1
    <3>10. CurrentInv(off, 0)
      <4>1. Current.index \in [0..n-1 -> 1..n]
        BY <3>1, <3>3
      <4>2. \A e \in 1..n : \E p \in 0..n-1 : Current.index[p] = e
        <5>1. \A e \in 1..n : e - 1 \in 0..n-1 /\ Current.index[e - 1] = e
          BY <3>1, <3>3
        <5>. QED
          BY <5>1
      <4>3. \A p, q \in 0..n-1 : Current.index[p] = Current.index[q] => p = q
        BY <3>1, <3>3
      <4>4. Current.tail = Place(off, Len(headers), Newest)
        BY <1>6, <3>2, <3>3, <3>8
      <4>5. \A j \in Newest-n+1..Newest :
              entries[EntryOf(off, Len(headers), j)].key
                = IF j < 0 THEN InvalidKey ELSE Start(j)
        <5>1. \A j \in Newest-n+1..Newest : j \in Int /\ j < 0
          BY <1>6, <3>1
        <5>. QED
          BY <1>4, <3>2, <3>9, <5>1
      <4>. QED
        BY <3>2, <4>1, <4>2, <4>3, <4>4, <4>5 DEF CurrentInv
    <3>11. LookupInv(off)
      BY <1>2 DEF LookupInv, At
    <3>12. RingInv(off, 0)
      BY <3>6, <3>7, <3>10, <3>11 DEF RingInv
    <3>. QED
      BY <3>12 DEF IndexPart
  <2>. QED
    BY <2>1, <2>2
<1>. QED
  BY <1>8, <1>9, <1>10, <1>11, <1>12, <1>13, <1>14, <1>15
  DEF BlockInv, UsedInv

LEMMA BlockSame ==
  ASSUME BlockInv, UNCHANGED vars
  PROVE  BlockInv'
<1>1. /\ entries' = entries /\ headers' = headers /\ tailBlock' = tailBlock
      /\ freeBlocks' = freeBlocks /\ slots' = slots /\ emptied' = emptied
      /\ producer' = producer /\ items' = items /\ tailIndex' = tailIndex
      /\ headIndex' = headIndex /\ returned' = returned
      /\ consumer' = consumer /\ phase' = phase
  BY DEF vars, counters, index, memory, history
<1>2. /\ Blocks' = Blocks
      /\ \A i : /\ Open(i)' <=> Open(i)
                /\ Present(i)' <=> Present(i)
                /\ Shown(i)' = Shown(i)
      /\ \A c : Reading(c)' <=> Reading(c)
      /\ Gone' = Gone
  BY <1>1 DEF Blocks, Number, Offset, Open, Present, Reading, Holding, At,
              Shown, Filled, Content, Gone
<1>3. /\ \A j : /\ Start(j)' = Start(j) /\ Elements(j)' = Elements(j)
                /\ Number(j)' = Number(j)
      /\ \A e, j : Holds(e, j)' <=> Holds(e, j)
      /\ \A b : (Linked(b)' <=> Linked(b)) /\ (Given(b)' <=> Given(b))
      /\ \A c, l : At(c, l)' <=> At(c, l)
  BY <1>1 DEF Start, Elements, Number, Holds, Linked, Given, At
<1>4. \A j : (Wanted(j)' <=> Wanted(j)) /\ Spent(j)' = Spent(j)
  BY <1>2, <1>3 DEF Wanted, Spent
<1>5. IndexPart => IndexPart'
  <2>1. ASSUME NEW off, NEW first, RingInv(off, first)
        PROVE  RingInv(off, first)'
    <3>1. LookupInv(off)'
      BY <1>1, <2>1, Zenon DEF RingInv, LookupInv, At, TailKey, EntryOf, Place, Size,
                        Capacity, Start, Number
    <3>. QED
      BY <1>1, <2>1, <3>1, RingSame
  <2>. QED
    BY <2>1 DEF IndexPart
<1>6. LinkInv => LinkInv'
  BY <1>1, <1>2, <1>3, <1>4 DEF LinkInv
<1>7. OwnerInv => OwnerInv'
  BY <1>1, <1>3 DEF OwnerInv
<1>8. SlotInv => SlotInv'
  BY <1>1, <1>2, <1>3 DEF SlotInv
<1>9. FoundInv'
  BY <1>1, <1>2, <1>3, <1>4 DEF BlockInv, FoundInv
<1>10. ProducerPart'
  BY <1>1, <1>2, <1>3 DEF BlockInv, ProducerPart, Offset
<1>11. MemoryInv'
  BY <1>1 DEF BlockInv, MemoryInv
<1>12. ReturnInv'
  BY <1>1, <1>2 DEF BlockInv, ReturnInv
<1>. QED
  BY <1>1, <1>5, <1>6, <1>7, <1>8, <1>9, <1>10, <1>11, <1>12
  DEF BlockInv, UsedInv

LEMMA BlockStep ==
  ASSUME IInv, IInv', BlockInv, Next
  PROVE  BlockInv'
<1>1. CASE Produce
  <2>1. phase = "alive" /\ phase' = "alive"
    BY <1>1, InUse DEF IInv
  <2>. QED
    BY <1>1, <2>1, EnqueueBlocks, InsertKeyBlocks, AdvanceTailBlocks,
       GrowIndexBlocks, InsertFailsBlocks, RequisitionBlocks,
       RequisitionFailsBlocks, ClearEntryBlocks, LinkBlocks, ConstructBlocks,
       PublishBlocks DEF Produce
<1>2. ASSUME NEW c \in Consumer, Consume(c) PROVE BlockInv'
  <2>1. phase = "alive" /\ phase' = "alive"
    BY <1>2, InUse DEF IInv
  <2>. QED
    BY <1>2, <2>1, AsideBlocks, ClaimBlocks, LoadHeaderBlocks, LoadTailBlocks,
       LoadKeyBlocks, LoadBlockBlocks, MoveBlocks, SetEmptyBlocks,
       UnlinkBlocks, RecycleBlocks DEF Consume
<1>3. CASE Drain
  BY <1>3, DrainBlocks
<1>4. CASE Destroy
  BY <1>4, DestroyBlocks
<1>. QED
  BY <1>1, <1>2, <1>3, <1>4 DEF Next

\* The block index, the blocks and the slots agree, whatever the producer and
\* the consumers are doing.
THEOREM BlocksAgree == Spec => []BlockInv
<1>1. Init => BlockInv
  BY BlockInit
<1>2. IInv /\ IInv' /\ BlockInv /\ [Next]_vars => BlockInv'
  BY BlockStep, BlockSame
<1>3. Spec => []IInv
  BY Invariant
<1>. QED
  BY <1>1, <1>2, <1>3, PTL DEF Spec

-----------------------------------------------------------------------------
\* What follows.
LEMMA TypesHold ==
  ASSUME IInv, BlockInv
  PROVE  TypeOK
<1>1. /\ CounterInv /\ IndexInv /\ MemoryInv /\ ReturnInv
  BY DEF IInv, ShapeInv, BlockInv
<1>2. \A m \in {tailIndex, headIndex, optimistic, overcommit} : m \in Nat
  BY <1>1 DEF CounterInv
<1>3. ASSUME NEW h \in ToSet(headers)
      PROVE  /\ DOMAIN h.index = 0..Capacity(h) - 1
             /\ h.tail \in DOMAIN h.index
             /\ \A p \in DOMAIN h.index : h.index[p] \in DOMAIN entries
  <2>1. PICK k \in DOMAIN headers : h = headers[k]
    BY <1>3 DEF ToSet
  <2>2. PICK m \in Nat \ {0} : h \in HeaderType(m)
    BY <1>1, <2>1, HeaderSize
  <2>3. /\ Capacity(h) = m /\ DOMAIN h.index = 0..m-1 /\ h.tail \in 0..m-1
        /\ \A p \in 0..m-1 : h.index[p] \in 1..Len(entries)
    BY <2>2, HeaderCapacity
  <2>4. DOMAIN entries = 1..Len(entries)
    BY <1>1 DEF IndexInv
  <2>. QED
    BY <2>3, <2>4
<1>4. freeBlocks \subseteq Block
  BY <1>1 DEF BlockInv, UsedInv, OwnerInv, MemoryInv
<1>5. returned \subseteq Item \cup {None}
  <2>1. \A i \in Gone : i + 1 \in 1..Len(items)
    BY Counted DEF Gone
  <2>2. items \in Seq(Item)
    BY <1>1 DEF CounterInv
  <2>3. \A i \in Gone : items[i + 1] \in Item
    BY <2>1, <2>2
  <2>. QED
    BY <1>1, <2>3 DEF ReturnInv
<1>. QED
  BY <1>1, <1>2, <1>3, <1>4, <1>5
  DEF TypeOK, CounterInv, IndexInv, MemoryInv

LEMMA FreeUnused ==
  ASSUME IInv, BlockInv
  PROVE  FreeBlocksUnused
<1>. SUFFICES ASSUME NEW b \in freeBlocks
     PROVE /\ phase # "destroyed" => \A e \in DOMAIN entries : entries[e].value # b
           /\ \A c \in Consumer : consumer[c].block # b
           /\ producer.block # b
           /\ producer.pc = "construct" => tailBlock # b
  BY DEF FreeBlocksUnused
<1>1. CASE phase = "destroyed"
  <2>1. Quiet /\ b \in Block
    BY <1>1 DEF IInv, ShapeInv, CounterInv, BlockInv, MemoryInv
  <2>. QED
    BY <1>1, <2>1, WhenQuiet, Sizes
<1>2. CASE phase # "destroyed"
  <2>1. OwnerInv /\ LinkInv /\ FoundInv /\ ProducerPart
    BY <1>2 DEF BlockInv, UsedInv
  <2>2. b \in Block /\ b # None /\ ~Linked(b) /\ ~Given(b) /\ producer.block # b
    BY <2>1, Sizes DEF OwnerInv
  <2>3. ASSUME NEW c \in Consumer, consumer[c].block = b PROVE FALSE
    <3>1. consumer[c].pc \in {"move", "empty", "unlink", "recycle"}
      BY <2>1, <2>2, <2>3 DEF FoundInv
    <3>2. CASE consumer[c].pc = "recycle"
      BY <2>2, <2>3, <3>2 DEF Given, At
    <3>3. CASE consumer[c].pc \in {"move", "empty", "unlink"}
      <4>1. phase = "alive"
        <5>1. ~Quiet
          BY <3>3 DEF Quiet, At
        <5>. QED
          BY <5>1 DEF IInv, ShapeInv, CounterInv
      <4>. QED
        BY <2>2, <2>3, <3>3, <4>1, FoundBlock DEF Linked
    <3>. QED
      BY <3>1, <3>2, <3>3
  <2>4. producer.pc = "construct" => tailBlock # b
    <3>1. producer.pc = "construct" =>
            \E e \in DOMAIN entries : tailBlock = entries[e].value
      BY <2>1, TailBlockIs
    <3>. QED
      BY <2>2, <3>1 DEF Linked
  <2>. QED
    BY <2>2, <2>3, <2>4 DEF Linked
<1>. QED
  BY <1>1, <1>2

LEMMA DrainedHolds ==
  ASSUME IInv, BlockInv
  PROVE  DrainedEmpty
<1>. SUFFICES ASSUME phase = "drained"
     PROVE headIndex = tailIndex /\ returned = ToSet(items)
  BY DEF DrainedEmpty
<1>1. /\ headIndex = tailIndex /\ returned = {items[i + 1] : i \in Gone}
  BY DEF BlockInv, ReturnInv
<1>2. /\ headIndex \in Nat /\ items \in Seq(Item) /\ Len(items) = headIndex
  BY <1>1, Counted
<1>3. Gone = 0..headIndex-1
  <2>1. Quiet
    BY DEF IInv, ShapeInv, CounterInv
  <2>2. \A i \in 0..headIndex-1 : i \in Int /\ ~(i >= headIndex)
    BY <1>2
  <2>. QED
    BY <2>1, <2>2, WhenQuiet DEF Gone
<1>4. ToSet(items) = {items[k] : k \in 1..headIndex}
  BY <1>2 DEF ToSet
<1>5. \A k \in 1..headIndex : k - 1 \in 0..headIndex-1 /\ (k - 1) + 1 = k
  BY <1>2
<1>6. \A i \in 0..headIndex-1 : i + 1 \in 1..headIndex
  BY <1>2
<1>7. {items[k] : k \in 1..headIndex} = {items[i + 1] : i \in 0..headIndex-1}
  BY <1>5, <1>6
<1>. QED
  BY <1>1, <1>3, <1>4, <1>7

\* The types, the accounting of the dequeues, and that a block that may be used
\* for something else is used by nobody here: every state of every run of the
\* producer and any number of consumers satisfies them, and after the pool's
\* destructor has drained the queue every item has been returned.
THEOREM CountersBlocksElements == Spec => []Safety
<1>1. IInv /\ BlockInv => Safety
  BY AccountingHolds, TypesHold, FreeUnused, DrainedHolds DEF Safety, IInv
<1>2. Spec => []IInv
  BY Invariant
<1>3. Spec => []BlockInv
  BY BlocksAgree
<1>. QED
  BY <1>1, <1>2, <1>3, PTL

LEMMA RightHolds ==
  ASSUME IInv, BlockInv
  PROVE  RightElement
<1>1. ASSUME Quiet, phase = "alive", NEW i \in headIndex..tailIndex - 1
      PROVE  BlockOf(i) # None /\ slots[BlockOf(i)][Offset(i)] = items[i + 1]
  BY <1>1, LeftElement, Sizes
<1>2. ASSUME NEW c \in Consumer
      PROVE /\ At(c, "block") =>
                 /\ entries[consumer[c].entry].key = Base(consumer[c].index)
                 /\ entries[consumer[c].entry].value # None
            /\ At(c, "move") =>
                 slots[consumer[c].block][Offset(consumer[c].index)]
                   = items[consumer[c].index + 1]
            /\ At(c, "empty") => consumer[c].item = items[consumer[c].index + 1]
  <2>1. FoundInv
    BY DEF BlockInv
  <2>2. ASSUME At(c, "block")
        PROVE  /\ entries[consumer[c].entry].key = Base(consumer[c].index)
               /\ entries[consumer[c].entry].value # None
    <3>1. Holds(consumer[c].entry, Number(consumer[c].index))
      BY <2>1, <2>2 DEF FoundInv, At
    <3>2. Base(consumer[c].index) = Start(Number(consumer[c].index))
      <4>1. consumer[c].index \in Int
        BY Counted
      <4>. QED
        BY <4>1, NumberOf
    <3>. QED
      BY <3>1, <3>2 DEF Holds
  <2>3. ASSUME At(c, "move")
        PROVE  slots[consumer[c].block][Offset(consumer[c].index)]
                 = items[consumer[c].index + 1]
    <3>1. phase = "alive"
      <4>1. ~Quiet
        BY <2>3 DEF Quiet, At
      <4>. QED
        BY <4>1 DEF IInv, ShapeInv, CounterInv
    <3>. QED
      BY <2>3, <3>1, SlotHolds
  <2>4. At(c, "empty") => consumer[c].item = items[consumer[c].index + 1]
    BY <2>1 DEF FoundInv
  <2>. QED
    BY <2>2, <2>3, <2>4
<1>. QED
  BY <1>1, <1>2 DEF RightElement

\* A consumer finds the block and the slot of the very element it claimed,
\* through whichever index it loaded, however old, and whoever empties the
\* queue at the end finds all that is left.
THEOREM ElementFound == Spec => []RightElement
<1>1. IInv /\ BlockInv => RightElement
  BY RightHolds
<1>2. Spec => []IInv
  BY Invariant
<1>3. Spec => []BlockInv
  BY BlocksAgree
<1>. QED
  BY <1>1, <1>2, <1>3, PTL

LEMMA DestroyFrees ==
  ASSUME IInv, BlockInv, Next, phase # "destroyed", phase' = "destroyed"
  PROVE  /\ FreedBefore \cap FreedLast = {}
         /\ (FreedBefore \cup FreedLast) \cap freeBlocks = {}
         /\ freeBlocks' = Block
         /\ \A b \in Block, o \in 0..BlockSize-1 : slots'[b][o] = None
<1>1. Destroy
  <2>1. ~(Produce \/ \E c \in Consumer : Consume(c))
    BY InUse DEF IInv
  <2>2. ~Drain
    BY DEF Drain
  <2>. QED
    BY <2>1, <2>2 DEF Next
<1>2. Quiet /\ freeBlocks' = freeBlocks \cup FreedBefore \cup FreedLast
  BY <1>1 DEF Destroy
<1>3. \A b \in Block, o \in 0..BlockSize-1 : slots'[b][o] = None
  BY <1>1, DestroyBlocks
<1>. QED
  BY <1>2, <1>3, FreedIs

\* ~ImplicitProducer frees every block that is not free yet, each once, and
\* destroys every element that is left.
THEOREM FreedOnce == Spec => DestructorFreesOnce
<1>1. IInv /\ BlockInv /\ [Next]_vars =>
        [phase # "destroyed" /\ phase' = "destroyed" =>
           /\ FreedBefore \cap FreedLast = {}
           /\ (FreedBefore \cup FreedLast) \cap freeBlocks = {}
           /\ freeBlocks' = Block
           /\ \A b \in Block, o \in 0..BlockSize-1 : slots'[b][o] = None]_vars
  <2>1. UNCHANGED vars => phase' = phase
    BY DEF vars, history
  <2>. QED
    BY <2>1, DestroyFrees
<1>2. Spec => []IInv
  BY Invariant
<1>3. Spec => []BlockInv
  BY BlocksAgree
<1>. QED
  BY <1>1, <1>2, <1>3, PTL DEF Spec, DestructorFreesOnce
=============================================================================
