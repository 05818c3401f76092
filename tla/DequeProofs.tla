----------------------------- MODULE DequeProofs -----------------------------
(***************************************************************************)
(* Proofs about Deque for every set of thieves, initial buffer size and    *)
(* number of pushes.                                                       *)
(***************************************************************************)
EXTENDS DequeInvariant, SequenceTheorems, TLAPS

-----------------------------------------------------------------------------
(* Positions and slots.                                                    *)

\* A position falls into the buffer.
LEMMA ModRange ==
  ASSUME NEW n \in Nat \ {0}, NEW p \in Nat
  PROVE  /\ p % n \in 0..n - 1
         /\ p \div n \in Nat
         /\ p = n * (p \div n) + (p % n)
  OBVIOUS

\* Two positions less than a buffer's size apart never share a slot
\* (CircularBuffer::put and get, array_[pos & modulo_]).
LEMMA ModDistinct ==
  ASSUME NEW n \in Nat \ {0}, NEW p \in Nat, NEW q \in Nat,
         p # q, q - p < n, p - q < n
  PROVE  p % n # q % n
<1>. DEFINE a == p \div n
            b == q \div n
            r == p % n
<1>0. /\ p = n * a + r
      /\ a \in Nat
      /\ r \in Nat
  BY ModRange
<1>1. /\ q = n * b + (q % n)
      /\ b \in Nat
  BY ModRange
<1>. SUFFICES ASSUME q % n = r PROVE FALSE
  OBVIOUS
<1>. HIDE DEF a, b, r
<1>2. /\ q - p = n * (b - a)
      /\ p - q = n * (a - b)
  BY <1>0, <1>1
<1>3. ASSUME NEW d \in Int, d >= 1 PROVE n * d >= n
  BY <1>3
<1>4. CASE b - a >= 1
  BY <1>0, <1>1, <1>2, <1>3, <1>4
<1>5. CASE a - b >= 1
  BY <1>0, <1>1, <1>2, <1>3, <1>5
<1>6. CASE a = b
  BY <1>0, <1>1, <1>6
<1>. QED
  BY <1>0, <1>1, <1>4, <1>5, <1>6

LEMMA SlotType ==
  ASSUME TypeOK, NEW b \in 1..cur, NEW p \in Nat
  PROVE  /\ size[b] \in Nat \ {0}
         /\ p % size[b] \in 0..size[b] - 1
         /\ Slot(b, p) \in Content
  BY ModRange DEF TypeOK, Slot

\* Writing the slot of position pos leaves every other position within reach
\* of the buffer alone, and every other buffer.
LEMMA PutFacts ==
  ASSUME TypeOK, NEW pos \in Nat, NEW c \in Content, Put(pos, c),
         UNCHANGED <<cur, size>>
  PROVE  /\ array' = [b \in 1..cur |-> array'[b]]
         /\ \A b \in 1..cur : array'[b] \in [0..size[b] - 1 -> Content]
         /\ Slot(cur, pos)' = c
         /\ \A p \in Nat : p # pos /\ p - pos < size[cur] /\ pos - p < size[cur]
                             => Slot(cur, p)' = Slot(cur, p)
         /\ \A b \in 1..cur, p \in Nat : b # cur => Slot(b, p)' = Slot(b, p)
<1>1. cur \in 1..cur /\ size[cur] \in Nat \ {0}
  BY DEF TypeOK
<1>2. pos % size[cur] \in 0..size[cur] - 1
  BY <1>1, ModRange
<1>3. /\ array' = [b \in 1..cur |-> array'[b]]
      /\ \A b \in 1..cur : b # cur => array'[b] = array[b]
      /\ array'[cur] = [array[cur] EXCEPT ![pos % size[cur]] = c]
  BY <1>1 DEF Put, TypeOK
<1>4. Slot(cur, pos)' = c
  BY <1>1, <1>2, <1>3 DEF Slot, TypeOK
<1>5. ASSUME NEW p \in Nat, p # pos, p - pos < size[cur], pos - p < size[cur]
      PROVE  Slot(cur, p)' = Slot(cur, p)
  <2>1. p % size[cur] # pos % size[cur]
    BY <1>1, <1>5, ModDistinct
  <2>2. p % size[cur] \in 0..size[cur] - 1
    BY <1>1, ModRange
  <2>. QED
    BY <1>1, <1>3, <2>1, <2>2 DEF Slot, TypeOK
<1>6. \A b \in 1..cur, p \in Nat : b # cur => Slot(b, p)' = Slot(b, p)
  BY <1>3 DEF Slot
<1>7. ASSUME NEW b \in 1..cur PROVE array'[b] \in [0..size[b] - 1 -> Content]
  <2>1. CASE b = cur
    <3>1. array[cur] \in [0..size[cur] - 1 -> Content]
      BY <1>1 DEF TypeOK
    <3>. QED
      BY <1>3, <2>1, <3>1
  <2>2. CASE b # cur
    BY <1>3, <2>2 DEF TypeOK
  <2>. QED
    BY <2>1, <2>2
<1>. QED
  BY <1>3, <1>4, <1>5, <1>6, <1>7

\* Growing keeps the old buffers as they are and copies every position asked
\* for to the new one.
LEMMA GrowFacts ==
  ASSUME TypeOK, Grow, ob - ot <= size[cur]
  PROVE  /\ cur' = cur + 1
         /\ size' \in [1..cur' -> Nat \ {0}]
         /\ size'[cur'] = 4 * size[cur]
         /\ array' = [b \in 1..cur' |-> array'[b]]
         /\ \A b \in 1..cur' : array'[b] \in [0..size'[b] - 1 -> Content]
         /\ \A p \in ot..ob - 1 : Slot(cur, p)' = Slot(cur, p)
         /\ \A b \in 1..cur, p \in Nat : Slot(b, p)' = Slot(b, p)
<1>. DEFINE n == 4 * size[cur]
<1>1. /\ cur \in 1..cur
      /\ size[cur] \in Nat \ {0}
      /\ n \in Nat \ {0}
      /\ ob \in Nat
      /\ ot \in Nat
  BY DEF TypeOK
<1>2. /\ cur' = cur + 1
      /\ size' \in [1..cur' -> Nat \ {0}]
      /\ size'[cur'] = n
      /\ \A b \in 1..cur : size'[b] = size[b]
  BY <1>1 DEF TypeOK, Grow, GrownSize
<1>3. /\ array' = [b \in 1..cur' |-> array'[b]]
      /\ \A b \in 1..cur : array'[b] = array[b]
      /\ array'[cur'] = GrownArray(ot, ob)
  BY <1>1, <1>2 DEF TypeOK, Grow, KeepOld
<1>4. \A b \in 1..cur, p \in Nat : Slot(b, p)' = Slot(b, p)
  BY <1>2, <1>3 DEF Slot
<1>5. \A p \in ot..ob - 1 : p \in Nat /\ Slot(cur, p) \in Content
  BY <1>1, SlotType
<1>6. GrownArray(ot, ob) \in [0..n - 1 -> Content]
  <2>. SUFFICES ASSUME NEW s \in 0..n - 1 PROVE GrownArray(ot, ob)[s] \in Content
    BY DEF GrownArray, GrownSize
  <2>1. CASE \E p \in ot..ob - 1 : p % n = s
    <3>. DEFINE q == CHOOSE p \in ot..ob - 1 : p % n = s
    <3>1. q \in ot..ob - 1
      BY <2>1
    <3>2. GrownArray(ot, ob)[s] = Slot(cur, q)
      BY <2>1 DEF GrownArray, GrownSize
    <3>. QED
      BY <3>1, <3>2, <1>5
  <2>2. CASE ~ \E p \in ot..ob - 1 : p % n = s
    BY <2>2 DEF GrownArray, GrownSize, Content
  <2>. QED
    BY <2>1, <2>2
<1>7. ASSUME NEW p \in ot..ob - 1 PROVE Slot(cur, p)' = Slot(cur, p)
  <2>. DEFINE s == p % n
              q == CHOOSE x \in ot..ob - 1 : x % n = s
  <2>1. q \in ot..ob - 1 /\ q % n = s
    OBVIOUS
  <2>2. p \in Nat /\ q \in Nat /\ s \in 0..n - 1
    <3>1. p \in Nat /\ q \in Nat
      BY <1>1, <2>1
    <3>. QED
      BY <1>1, <3>1, ModRange
  <2>3. q - p < n /\ p - q < n
    BY <1>1, <2>1
  <2>4. q = p
    BY <1>1, <2>1, <2>2, <2>3, ModDistinct
  <2>5. GrownArray(ot, ob)[s] = Slot(cur, q)
    BY <2>2 DEF GrownArray, GrownSize
  <2>6. Slot(cur, p)' = array'[cur'][p % size'[cur']]
    BY DEF Slot
  <2>. QED
    BY <1>2, <1>3, <2>4, <2>5, <2>6
<1>8. \A b \in 1..cur' : array'[b] \in [0..size'[b] - 1 -> Content]
  <2>1. ASSUME NEW b \in 1..cur PROVE array'[b] \in [0..size'[b] - 1 -> Content]
    BY <1>2, <1>3 DEF TypeOK
  <2>2. array'[cur'] \in [0..size'[cur'] - 1 -> Content]
    BY <1>2, <1>3, <1>6
  <2>. QED
    BY <1>1, <1>2, <2>1, <2>2
<1>. QED
  BY <1>2, <1>3, <1>4, <1>7, <1>8

-----------------------------------------------------------------------------
(* The owner's stores to bottom_.                                          *)

LEMMA BottomType ==
  ASSUME TypeOK
  PROVE  OwnerBottom \in Nat /\ LogicalBottom \in Nat
  BY DEF TypeOK, OwnerBottom, LogicalBottom

LEMMA StoreFacts ==
  ASSUME TypeOK, NEW b \in Nat, Store(b), bottom' = bottom
  PROVE  /\ storeBuffer' \in Seq(Nat)
         /\ OwnerBottom' = b
         /\ Len(storeBuffer') = Len(storeBuffer) + 1
         /\ \A i \in 1..Len(storeBuffer) : storeBuffer'[i] = storeBuffer[i]
         /\ storeBuffer'[Len(storeBuffer')] = b
<1>1. /\ storeBuffer \in Seq(Nat)
      /\ storeBuffer' = Append(storeBuffer, b)
  BY DEF TypeOK, Store
<1>2. /\ storeBuffer' \in Seq(Nat)
      /\ Len(storeBuffer') = Len(storeBuffer) + 1
      /\ \A i \in 1..Len(storeBuffer) : storeBuffer'[i] = storeBuffer[i]
      /\ storeBuffer'[Len(storeBuffer) + 1] = b
  BY <1>1
<1>3. storeBuffer' # <<>>
  BY <1>1, <1>2
<1>. QED
  BY <1>2, <1>3 DEF OwnerBottom

LEMMA DrainFacts ==
  ASSUME TypeOK, Drain
  PROVE  /\ storeBuffer' \in Seq(Nat)
         /\ bottom' = storeBuffer[1]
         /\ 1 \in 1..Len(storeBuffer)
         /\ OwnerBottom' = OwnerBottom
         /\ LogicalBottom' = LogicalBottom
         /\ Len(storeBuffer') = Len(storeBuffer) - 1
         /\ \A i \in 1..Len(storeBuffer') : storeBuffer'[i] = storeBuffer[i + 1]
<1>. storeBuffer \in Seq(Nat) /\ storeBuffer # <<>>
  BY DEF TypeOK, Drain
<1>1. /\ bottom' = storeBuffer[1]
      /\ storeBuffer' = Tail(storeBuffer)
      /\ opc' = opc
  BY DEF Drain, owner
<1>2. /\ storeBuffer' \in Seq(Nat)
      /\ Len(storeBuffer) \in Nat
      /\ Len(storeBuffer) >= 1
      /\ Len(storeBuffer') = Len(storeBuffer) - 1
      /\ \A i \in 1..Len(storeBuffer') : storeBuffer'[i] = storeBuffer[i + 1]
  BY <1>1
<1>3. OwnerBottom' = OwnerBottom
  <2>1. CASE Len(storeBuffer) = 1
    BY <1>1, <1>2, <2>1 DEF OwnerBottom
  <2>2. CASE Len(storeBuffer) > 1
    BY <1>1, <1>2, <2>2 DEF OwnerBottom
  <2>. QED
    BY <1>2, <2>1, <2>2
<1>. QED
  BY <1>1, <1>2, <1>3 DEF LogicalBottom, PopPending

-----------------------------------------------------------------------------
(* Steps of a thief that only read shared memory.                          *)

LEMMA ThiefReadsFrame ==
  ASSUME IInv, UNCHANGED <<memory, buffers, owner, ghosts, ending>>,
         phase = "live"
  PROVE  /\ IndexInv'
         /\ PushInv'
         /\ PopInv'
         /\ SlotInv'
         /\ BufferInv'
         /\ ExactlyOnce'
         /\ Conservation'
         /\ LogicalBottom' = LogicalBottom
<1>. USE DEF memory, buffers, owner, ghosts, ending
<1>1. OwnerBottom' = OwnerBottom /\ LogicalBottom' = LogicalBottom
  BY DEF OwnerBottom, LogicalBottom, PopPending
<1>2. IndexInv'
  BY <1>1 DEF IInv, IndexInv
<1>3. PushInv'
  BY <1>1 DEF IInv, PushInv, Pushing, Slot
<1>4. PopInv'
  BY <1>1 DEF IInv, PopInv, PopPending, Slot
<1>5. SlotInv' /\ Conservation'
  BY <1>1 DEF IInv, SlotInv, Conservation, Occupied, Slot
<1>6. BufferInv' /\ ExactlyOnce'
  BY DEF IInv, BufferInv, ExactlyOnce
<1>. QED
  BY <1>1, <1>2, <1>3, <1>4, <1>5, <1>6

LEMMA NotIdleIsLive ==
  ASSUME IInv, NEW t \in Thieves, tpc[t] # "idle"
  PROVE  phase = "live"
  BY DEF IInv, BufferInv, TypeOK

LEMMA ReturnFacts ==
  ASSUME TypeOK, NEW t \in Thieves, ThiefReturns(t)
  PROVE  /\ tpc' \in [Thieves ->
                     {"idle", "bottom", "buffer", "get", "got", "cas"}]
         /\ tt' \in [Thieves -> Nat]
         /\ tbuf' \in [Thieves -> (1..cur) \cup {NoBuffer}]
         /\ th' \in [Thieves -> Content]
         /\ tpc'[t] = "idle"
         /\ tt'[t] = 0
         /\ \A u \in Thieves : u # t =>
              /\ tpc'[u] = tpc[u]
              /\ tt'[u] = tt[u]
              /\ tbuf'[u] = tbuf[u]
              /\ th'[u] = th[u]
<1>1. th' \in [Thieves -> Content]
  BY DEF TypeOK, ThiefReturns, Content
<1>2. tbuf' \in [Thieves -> (1..cur) \cup {NoBuffer}]
  BY DEF TypeOK, ThiefReturns
<1>3. /\ tpc' \in [Thieves ->
                  {"idle", "bottom", "buffer", "get", "got", "cas"}]
      /\ tt' \in [Thieves -> Nat]
  BY DEF TypeOK, ThiefReturns
<1>. QED
  BY <1>1, <1>2, <1>3 DEF TypeOK, ThiefReturns

\* What holds for a thief that did not move, when the others only read.
LEMMA OtherThiefReads ==
  ASSUME IInv, UNCHANGED <<memory, buffers, owner, ghosts, ending>>,
         phase = "live",
         NEW u \in Thieves,
         tpc'[u] = tpc[u], tt'[u] = tt[u], tbuf'[u] = tbuf[u], th'[u] = th[u]
  PROVE  TrustedThief(u)'
<1>1. LogicalBottom' = LogicalBottom
  BY ThiefReadsFrame
<1>. QED
  BY <1>1 DEF IInv, ThiefInv, TrustedThief, Slot, memory, buffers

LEMMA StealLoadTopStep ==
  ASSUME IInv, NEW t \in Thieves, StealLoadTop(t)
  PROVE  IInv'
<1>1. /\ phase = "live"
      /\ UNCHANGED <<memory, buffers, owner, ghosts, ending>>
  BY DEF StealLoadTop
<1>2. TypeOK'
  <2>1. /\ tpc' \in [Thieves ->
                     {"idle", "bottom", "buffer", "get", "got", "cas"}]
        /\ tt' \in [Thieves -> Nat]
        /\ tbuf' \in [Thieves -> (1..cur) \cup {NoBuffer}]
        /\ th' \in [Thieves -> Content]
    BY DEF IInv, TypeOK, StealLoadTop
  <2>. QED
    BY <2>1 DEF IInv, TypeOK, memory, buffers, owner, ghosts, ending, StealLoadTop
<1>3. ThiefInv'
  <2>. SUFFICES ASSUME NEW u \in Thieves PROVE TrustedThief(u)'
    BY DEF ThiefInv
  <2>1. CASE u # t
    BY <1>1, <2>1, OtherThiefReads DEF IInv, TypeOK, StealLoadTop
  <2>2. CASE u = t
    BY <1>1, <2>2, ThiefReadsFrame
       DEF IInv, ThiefInv, TrustedThief, TypeOK, StealLoadTop, Slot, memory,
           buffers
  <2>. QED
    BY <2>1, <2>2
<1>. QED
  BY <1>1, <1>2, <1>3, ThiefReadsFrame DEF IInv

LEMMA StealLoadBottomStep ==
  ASSUME IInv, NEW t \in Thieves, StealLoadBottom(t)
  PROVE  IInv'
<1>1. /\ phase = "live"
      /\ UNCHANGED <<memory, buffers, owner, ghosts, ending>>
  BY NotIdleIsLive DEF StealLoadBottom
<1>2. CASE /\ tt[t] < bottom
           /\ tpc' = [tpc EXCEPT ![t] = "buffer"]
           /\ UNCHANGED <<tt, tbuf, th>>
  <2>1. TypeOK'
    BY <1>1, <1>2 DEF IInv, TypeOK, memory, buffers, owner, ghosts, ending
  <2>2. /\ tpc[t] = "bottom"
        /\ tpc'[t] = "buffer"
        /\ \A u \in Thieves : u # t => tpc'[u] = tpc[u]
    BY <1>2 DEF IInv, TypeOK, StealLoadBottom
  <2>3. tt[t] < LogicalBottom /\ tt[t] <= top
    <3>1. /\ tt[t] \in Nat
          /\ bottom \in Nat
          /\ LogicalBottom \in Nat
          /\ bottom <= LogicalBottom
      BY BottomType DEF IInv, TypeOK, IndexInv
    <3>. QED
      BY <1>2, <2>2, <3>1 DEF IInv, ThiefInv, TrustedThief
  <2>4. ASSUME NEW u \in Thieves PROVE TrustedThief(u)'
    <3>1. CASE u = t
      BY <1>1, <1>2, <2>2, <2>3, <3>1, ThiefReadsFrame DEF TrustedThief, memory
    <3>2. CASE u # t
      BY <1>1, <1>2, <2>2, <3>2, OtherThiefReads
    <3>. QED
      BY <3>1, <3>2
  <2>. QED
    BY <1>1, <2>1, <2>4, ThiefReadsFrame DEF IInv, ThiefInv
<1>3. CASE ThiefReturns(t)
  <2>1. TypeOK'
    BY <1>1, <1>3, ReturnFacts
       DEF IInv, TypeOK, memory, buffers, owner, ghosts, ending
  <2>2. ASSUME NEW u \in Thieves PROVE TrustedThief(u)'
    <3>1. CASE u = t
      BY <1>3, <3>1, ReturnFacts DEF IInv, TrustedThief
    <3>2. CASE u # t
      BY <1>1, <1>3, <3>2, OtherThiefReads, ReturnFacts DEF IInv
    <3>. QED
      BY <3>1, <3>2
  <2>. QED
    BY <1>1, <2>1, <2>2, ThiefReadsFrame DEF IInv, ThiefInv
<1>. QED
  BY <1>2, <1>3 DEF StealLoadBottom

LEMMA StealLoadBufferStep ==
  ASSUME IInv, NEW t \in Thieves, StealLoadBuffer(t)
  PROVE  IInv'
<1>1. /\ phase = "live"
      /\ UNCHANGED <<memory, buffers, owner, ghosts, ending>>
  BY NotIdleIsLive DEF StealLoadBuffer
<1>2. TypeOK'
  <2>1. /\ tpc' \in [Thieves ->
                     {"idle", "bottom", "buffer", "get", "got", "cas"}]
        /\ tt' \in [Thieves -> Nat]
        /\ tbuf' \in [Thieves -> (1..cur) \cup {NoBuffer}]
        /\ th' \in [Thieves -> Content]
    BY DEF IInv, TypeOK, StealLoadBuffer
  <2>. QED
    BY <2>1 DEF IInv, TypeOK, memory, buffers, owner, ghosts, ending, StealLoadBuffer
<1>3. ThiefInv'
  <2>. SUFFICES ASSUME NEW u \in Thieves PROVE TrustedThief(u)'
    BY DEF ThiefInv
  <2>1. CASE u # t
    BY <1>1, <2>1, OtherThiefReads DEF IInv, TypeOK, StealLoadBuffer
  <2>2. CASE u = t
    <3>1. /\ tpc[t] = "buffer"
          /\ tpc'[t] = "get"
          /\ tbuf'[t] = cur
          /\ tt'[t] = tt[t]
          /\ cur \in 1..cur
      BY DEF IInv, TypeOK, StealLoadBuffer
    <3>2. TrustedThief(t)
      BY DEF IInv, ThiefInv
    <3>. QED
      BY <1>1, <2>2, <3>1, <3>2, ThiefReadsFrame
         DEF TrustedThief, Slot, memory, buffers
  <2>. QED
    BY <2>1, <2>2
<1>. QED
  BY <1>1, <1>2, <1>3, ThiefReadsFrame DEF IInv

LEMMA StealGetStep ==
  ASSUME IInv, NEW t \in Thieves, StealGet(t)
  PROVE  IInv'
<1>1. /\ phase = "live"
      /\ UNCHANGED <<memory, buffers, owner, ghosts, ending>>
  BY NotIdleIsLive DEF StealGet
<1>2. TypeOK'
  <2>0. Slot(tbuf[t], tt[t]) \in Content
    BY SlotType DEF IInv, ThiefInv, TrustedThief, TypeOK, StealGet
  <2>1. /\ tpc' \in [Thieves ->
                     {"idle", "bottom", "buffer", "get", "got", "cas"}]
        /\ tt' \in [Thieves -> Nat]
        /\ tbuf' \in [Thieves -> (1..cur) \cup {NoBuffer}]
        /\ th' \in [Thieves -> Content]
    BY <2>0 DEF IInv, TypeOK, StealGet
  <2>. QED
    BY <2>1 DEF IInv, TypeOK, memory, buffers, owner, ghosts, ending, StealGet
<1>3. ThiefInv'
  <2>. SUFFICES ASSUME NEW u \in Thieves PROVE TrustedThief(u)'
    BY DEF ThiefInv
  <2>1. CASE u # t
    BY <1>1, <2>1, OtherThiefReads DEF IInv, TypeOK, StealGet
  <2>2. CASE u = t
    BY <1>1, <2>2, ThiefReadsFrame
       DEF IInv, ThiefInv, TrustedThief, TypeOK, StealGet, Slot, memory,
           buffers
  <2>. QED
    BY <2>1, <2>2
<1>. QED
  BY <1>1, <1>2, <1>3, ThiefReadsFrame DEF IInv

LEMMA StealGotStep ==
  ASSUME IInv, NEW t \in Thieves, StealGot(t)
  PROVE  IInv'
<1>1. /\ phase = "live"
      /\ UNCHANGED <<memory, buffers, owner, ghosts, ending>>
  BY NotIdleIsLive DEF StealGot
<1>2. TypeOK'
  <2>1. /\ tpc' \in [Thieves ->
                     {"idle", "bottom", "buffer", "get", "got", "cas"}]
        /\ tt' \in [Thieves -> Nat]
        /\ tbuf' \in [Thieves -> (1..cur) \cup {NoBuffer}]
        /\ th' \in [Thieves -> Content]
    BY DEF IInv, TypeOK, StealGot, Content
  <2>. QED
    BY <2>1 DEF IInv, TypeOK, memory, buffers, owner, ghosts, ending, StealGot
<1>3. ThiefInv'
  <2>. SUFFICES ASSUME NEW u \in Thieves PROVE TrustedThief(u)'
    BY DEF ThiefInv
  <2>1. CASE u # t
    BY <1>1, <2>1, OtherThiefReads DEF IInv, TypeOK, StealGot, Content
  <2>2. CASE u = t
    BY <1>1, <2>2, ThiefReadsFrame
       DEF IInv, ThiefInv, TrustedThief, TypeOK, StealGot, Content, Slot, memory,
           buffers
  <2>. QED
    BY <2>1, <2>2
<1>. QED
  BY <1>1, <1>2, <1>3, ThiefReadsFrame DEF IInv
-----------------------------------------------------------------------------
(* Handing out the element at one end of the deque.                        *)

LEMMA TakeFacts ==
  ASSUME IInv, NEW k \in Occupied, NEW h \in Content, h = Slot(cur, k), Take(h),
         UNCHANGED <<cur, size, array, pushed>>,
         Occupied' = Occupied \ {k}
  PROVE  /\ takes' \in [Content -> Nat]
         /\ takes'[h] = 1
         /\ SlotInv'
         /\ ExactlyOnce'
         /\ Conservation'
<1>1. takes' = [takes EXCEPT ![h] = @ + 1]
  BY DEF Take
<1>2. /\ h \in 1..pushed
      /\ h \in Handle
      /\ takes[h] = 0
      /\ \A p \in Occupied : p # k => Slot(cur, p) # h
  BY BoundAssumption DEF IInv, TypeOK, SlotInv, Handle
<1>3. /\ takes' \in [Content -> Nat]
      /\ takes'[h] = 1
      /\ \A c \in Content : c # h => takes'[c] = takes[c]
  BY <1>1, <1>2 DEF IInv, TypeOK
<1>4. ASSUME NEW p \in Occupied'
      PROVE  /\ Slot(cur, p)' = Slot(cur, p)
             /\ Slot(cur, p) \in 1..pushed
             /\ takes'[Slot(cur, p)] = 0
  <2>1. Slot(cur, p)' = Slot(cur, p)
    BY DEF Slot
  <2>2. /\ Slot(cur, p) \in 1..pushed
        /\ takes[Slot(cur, p)] = 0
        /\ Slot(cur, p) # h
    BY <1>2 DEF IInv, SlotInv
  <2>3. Slot(cur, p) \in Content
    BY <2>2, BoundAssumption DEF IInv, TypeOK, Content, Handle
  <2>. QED
    BY <1>3, <2>1, <2>2, <2>3
<1>5. SlotInv'
  <2>1. \A x \in Handle : x > pushed => takes'[x] = 0
    BY <1>2, <1>3 DEF IInv, TypeOK, SlotInv, Content, Handle
  <2>. QED
    BY <1>4, <2>1 DEF IInv, SlotInv
<1>6. ExactlyOnce'
  <2>1. /\ NoHandle \in Content
        /\ Torn \in Content
        /\ h # NoHandle
        /\ h # Torn
    BY <1>2, ContentAssumption DEF Content
  <2>2. \A x \in Handle : x \in Content /\ takes[x] <= 1
    BY DEF IInv, ExactlyOnce, Content
  <2>3. takes'[NoHandle] = 0 /\ takes'[Torn] = 0
    BY <1>3, <2>1 DEF IInv, ExactlyOnce
  <2>4. ASSUME NEW x \in Handle PROVE takes'[x] <= 1
    BY <1>3, <2>2
  <2>. QED
    BY <2>3, <2>4 DEF ExactlyOnce
<1>7. Conservation'
  <2>. SUFFICES ASSUME NEW x \in 1..pushed, takes'[x] = 0
                PROVE  \E p \in Occupied' : Slot(cur, p)' = x
    BY DEF Conservation, Occupied
  <2>1. x # h /\ x \in Content
    BY <1>3, BoundAssumption DEF IInv, TypeOK, Content, Handle
  <2>2. takes[x] = 0
    BY <1>3, <2>1
  <2>3. PICK p \in Occupied : Slot(cur, p) = x
    BY <2>2 DEF IInv, Conservation, Occupied
  <2>. QED
    BY <1>4, <2>1, <2>3
<1>. QED
  BY <1>3, <1>5, <1>6, <1>7

-----------------------------------------------------------------------------
(* The compare-exchange of a thief.                                        *)

LEMMA StealCasStep ==
  ASSUME IInv, NEW t \in Thieves, StealCas(t)
  PROVE  IInv'
<1>1. /\ phase = "live"
      /\ UNCHANGED <<bottom, storeBuffer, buffers, owner, pushed, ending>>
      /\ ThiefReturns(t)
      /\ tpc[t] = "cas"
  BY NotIdleIsLive DEF StealCas
<1>2. CASE top # tt[t]
  <2>1. UNCHANGED <<memory, ghosts>>
    BY <1>1, <1>2 DEF StealCas, memory, ghosts
  <2>2. TypeOK'
    BY <1>1, <2>1, ReturnFacts
       DEF IInv, TypeOK, memory, buffers, owner, ghosts, ending
  <2>3. ASSUME NEW u \in Thieves PROVE TrustedThief(u)'
    <3>1. CASE u = t
      BY <1>1, <3>1, ReturnFacts DEF IInv, IndexInv, TrustedThief
    <3>2. CASE u # t
      BY <1>1, <2>1, <3>2, OtherThiefReads, ReturnFacts DEF IInv
    <3>. QED
      BY <3>1, <3>2
  <2>. QED
    BY <1>1, <2>1, <2>2, <2>3, ThiefReadsFrame DEF IInv, ThiefInv
<1>3. CASE top = tt[t]
  <2>. DEFINE h == th[t]
  <2>1. /\ top' = top + 1
        /\ takes' = [takes EXCEPT ![h] = @ + 1]
    BY <1>3 DEF StealCas, Take
  <2>2. /\ OwnerBottom' = OwnerBottom
        /\ LogicalBottom' = LogicalBottom
    BY <1>1 DEF OwnerBottom, LogicalBottom, PopPending, owner
  <2>3. /\ top \in Nat
        /\ LogicalBottom \in Nat
        /\ top < LogicalBottom
        /\ top \in Occupied
        /\ h = Slot(cur, top)
    <3>1. top \in Nat /\ LogicalBottom \in Nat
      BY BottomType DEF IInv, TypeOK
    <3>2. tt[t] < LogicalBottom /\ h = Slot(cur, tt[t])
      BY <1>1, <1>3 DEF IInv, ThiefInv, TrustedThief
    <3>. QED
      BY <1>3, <3>1, <3>2 DEF Occupied
  <2>4. h \in Content
    BY DEF IInv, TypeOK
  <2>5. /\ takes' \in [Content -> Nat]
        /\ SlotInv'
        /\ ExactlyOnce'
        /\ Conservation'
    <3>1. Occupied' = Occupied \ {top}
      BY <2>1, <2>2, <2>3 DEF Occupied
    <3>. QED
      BY <1>1, <2>1, <2>3, <2>4, <3>1, TakeFacts DEF Take, buffers
  <2>6. TypeOK'
    <3>1. top' \in Nat
      BY <2>1, <2>3
    <3>. QED
      BY <1>1, <2>5, <3>1, ReturnFacts DEF IInv, TypeOK, buffers, owner, ending
  <2>7. IndexInv'
    BY <1>1, <2>1, <2>2, <2>3 DEF IInv, TypeOK, IndexInv, buffers
  <2>8. PushInv'
    BY <1>1, <2>1, <2>2, <2>3
       DEF IInv, TypeOK, PushInv, Pushing, Slot, owner, buffers
  <2>9. PopInv'
    <3>1. opc = "race" => ob <= top'
      BY <2>1, <2>3 DEF IInv, TypeOK, PopInv
    <3>. QED
      BY <1>1, <2>1, <2>2, <2>3, <3>1
         DEF IInv, PopInv, PopPending, Slot, owner, buffers
  <2>10. ASSUME NEW u \in Thieves PROVE TrustedThief(u)'
    <3>1. CASE u = t
      BY <1>1, <2>1, <2>3, <3>1, ReturnFacts DEF IInv, TrustedThief
    <3>2. CASE u # t
      <4>1. tt[u] \in Nat /\ (tpc[u] # "idle" => tt[u] <= top)
        BY DEF IInv, TypeOK, ThiefInv, TrustedThief
      <4>2. /\ tpc'[u] = tpc[u]
            /\ tt'[u] = tt[u]
            /\ tbuf'[u] = tbuf[u]
        BY <1>1, <3>2, ReturnFacts DEF IInv
      <4>. QED
        BY <1>1, <2>1, <2>3, <4>1, <4>2
           DEF IInv, ThiefInv, TrustedThief, buffers
    <3>. QED
      BY <3>1, <3>2
  <2>11. BufferInv'
    BY <1>1 DEF IInv, BufferInv, buffers, ending
  <2>. QED
    BY <2>5, <2>6, <2>7, <2>8, <2>9, <2>10, <2>11 DEF IInv, ThiefInv
<1>. QED
  BY <1>2, <1>3
-----------------------------------------------------------------------------
(* Steps of the owner.                                                     *)

\* What a step keeps when the same positions stay occupied by the same handles
\* and every buffer keeps them where it had them.
LEMMA ContentKept ==
  ASSUME IInv, UNCHANGED <<top, pushed, takes, thief>>,
         LogicalBottom' = LogicalBottom,
         cur' \in Nat, cur <= cur',
         \A p \in Occupied : Slot(cur, p)' = Slot(cur, p),
         \A b \in 1..cur, p \in Occupied : Slot(b, p)' = Slot(b, p)
  PROVE  /\ SlotInv'
         /\ ThiefInv'
         /\ ExactlyOnce'
         /\ Conservation'
<1>1. Occupied' = Occupied
  BY DEF Occupied
<1>2. SlotInv'
  BY <1>1 DEF IInv, SlotInv
<1>3. ExactlyOnce'
  BY DEF IInv, ExactlyOnce
<1>4. Conservation'
  BY <1>1 DEF IInv, Conservation, Occupied
<1>5. ASSUME NEW t \in Thieves PROVE TrustedThief(t)'
  <2>1. /\ tpc[t] # "idle" => tt[t] <= top
        /\ tpc[t] \in {"get", "got"} => tbuf[t] \in 1..cur
        /\ tt[t] = top /\ tpc[t] \in {"buffer", "get", "got", "cas"} =>
             tt[t] \in Occupied /\ tt[t] < LogicalBottom
        /\ tt[t] = top /\ tpc[t] \in {"get", "got"} =>
             Slot(tbuf[t], tt[t]) = Slot(cur, tt[t])
        /\ tt[t] = top /\ tpc[t] \in {"got", "cas"} => th[t] = Slot(cur, tt[t])
    <3>1. top \in Nat /\ LogicalBottom \in Nat
      BY BottomType DEF IInv, TypeOK
    <3>. QED
      BY <3>1 DEF IInv, ThiefInv, TrustedThief, Occupied
  <2>2. \A b \in 1..cur : b \in 1..cur'
    BY DEF IInv, TypeOK
  <2>. QED
    BY <2>1, <2>2 DEF TrustedThief, thief
<1>. QED
  BY <1>2, <1>3, <1>4, <1>5 DEF ThiefInv

LEMMA PushLoadStep ==
  ASSUME IInv, PushLoad
  PROVE  IInv'
<1>1. /\ phase = "live"
      /\ opc = "idle"
      /\ opc' = "push"
      /\ ob' = OwnerBottom
      /\ ot' = top
      /\ oh' = pushed + 1
      /\ pushed < MaxPush
      /\ UNCHANGED <<memory, buffers, thief, ghosts, ending>>
  BY DEF PushLoad
<1>. USE DEF memory, buffers, ghosts, ending
<1>2. /\ OwnerBottom \in Nat
      /\ OwnerBottom' = OwnerBottom
      /\ LogicalBottom = OwnerBottom
      /\ LogicalBottom' = LogicalBottom
  BY <1>1, BottomType DEF IInv, OwnerBottom, LogicalBottom, PopPending
<1>3. TypeOK'
  <2>1. oh' \in Handle
    BY <1>1, BoundAssumption DEF IInv, TypeOK, Handle
  <2>. QED
    BY <1>1, <1>2, <2>1 DEF IInv, TypeOK, thief
<1>4. IndexInv'
  BY <1>1, <1>2 DEF IInv, IndexInv
<1>5. PushInv' /\ PopInv'
  BY <1>1, <1>2 DEF IInv, TypeOK, IndexInv, PushInv, Pushing, PopInv, PopPending
<1>6. BufferInv'
  BY <1>1 DEF IInv, BufferInv
<1>7. SlotInv' /\ ThiefInv' /\ ExactlyOnce' /\ Conservation'
  <2>1. \A b, p : Slot(b, p)' = Slot(b, p)
    BY <1>1 DEF Slot
  <2>2. cur' = cur /\ cur \in Nat
    BY <1>1 DEF IInv, TypeOK
  <2>3. \A p \in Occupied : Slot(cur, p)' = Slot(cur, p)
    BY <1>1 DEF Slot
  <2>. QED
    BY <1>1, <1>2, <2>1, <2>2, <2>3, ContentKept
<1>. QED
  BY <1>3, <1>4, <1>5, <1>6, <1>7 DEF IInv

LEMMA PushReserveStep ==
  ASSUME IInv, PushReserve
  PROVE  IInv'
<1>1. /\ opc = "push"
      /\ opc' = "put"
      /\ UNCHANGED <<memory, ob, ot, oh, thief, ghosts, ending>>
  BY DEF PushReserve
<1>. USE DEF memory, ghosts, ending
<1>2. /\ phase = "live"
      /\ ob = OwnerBottom
      /\ ot <= top
      /\ ob - ot <= size[cur]
  <2>1. phase = "live"
    BY <1>1 DEF IInv, TypeOK, BufferInv
  <2>. QED
    BY <1>1, <2>1 DEF IInv, PushInv, Pushing
<1>3. /\ OwnerBottom' = OwnerBottom
      /\ LogicalBottom = ob
      /\ LogicalBottom' = ob
  BY <1>1, <1>2 DEF OwnerBottom, LogicalBottom, PopPending
<1>4. /\ top \in Nat
      /\ ob \in Nat
      /\ ot \in Nat
      /\ cur \in 1..cur
      /\ size[cur] \in Nat \ {0}
      /\ \A p \in Occupied : p \in Nat /\ p \in ot..ob - 1
  BY <1>2, <1>3 DEF IInv, TypeOK, Occupied
<1>5. PopInv'
  BY <1>1 DEF PopInv, PopPending
<1>6. CASE ob - ot > size[cur] - 1
  <2>1. Grow
    BY <1>6 DEF PushReserve, Full
  <2>2. /\ cur' = cur + 1
        /\ size' \in [1..cur' -> Nat \ {0}]
        /\ size'[cur'] = 4 * size[cur]
        /\ array' = [b \in 1..cur' |-> array'[b]]
        /\ \A b \in 1..cur' : array'[b] \in [0..size'[b] - 1 -> Content]
        /\ \A p \in ot..ob - 1 : Slot(cur, p)' = Slot(cur, p)
        /\ \A b \in 1..cur, p \in Nat : Slot(b, p)' = Slot(b, p)
    BY <1>2, <2>1, GrowFacts DEF IInv
  <2>3. TypeOK'
    <3>1. cur' \in Nat \ {0} /\ \A b \in 1..cur : b \in 1..cur'
      BY <1>4, <2>2
    <3>2. tbuf' \in [Thieves -> (1..cur') \cup {NoBuffer}]
      BY <1>1, <3>1 DEF IInv, TypeOK, thief
    <3>3. oldBuffers' \subseteq 1..cur' /\ alive' \subseteq 1..cur'
      BY <1>4, <2>1, <2>2, <3>1 DEF IInv, TypeOK, Grow, KeepOld
    <3>. QED
      BY <1>1, <2>2, <3>1, <3>2, <3>3 DEF IInv, TypeOK, thief
  <2>4. IndexInv'
    BY <1>1, <1>3, <1>4, <2>2 DEF IInv, IndexInv
  <2>5. PushInv'
    BY <1>1, <1>2, <1>3, <1>4, <2>2 DEF IInv, PushInv, Pushing
  <2>6. BufferInv'
    BY <1>1, <1>2, <1>4, <2>1 DEF IInv, BufferInv, Grow, KeepOld
  <2>7. SlotInv' /\ ThiefInv' /\ ExactlyOnce' /\ Conservation'
    BY <1>1, <1>3, <1>4, <2>2, ContentKept
  <2>. QED
    BY <1>5, <2>3, <2>4, <2>5, <2>6, <2>7 DEF IInv
<1>7. CASE ~ (ob - ot > size[cur] - 1)
  <2>1. UNCHANGED buffers
    BY <1>7 DEF PushReserve, Full
  <2>. USE DEF buffers
  <2>2. TypeOK'
    BY <1>1, <2>1 DEF IInv, TypeOK, thief
  <2>3. IndexInv'
    BY <1>1, <1>3, <2>1 DEF IInv, IndexInv
  <2>4. PushInv'
    BY <1>1, <1>2, <1>3, <1>4, <1>7, <2>1 DEF IInv, PushInv, Pushing
  <2>5. BufferInv'
    BY <1>1, <1>2, <2>1 DEF IInv, BufferInv
  <2>6. SlotInv' /\ ThiefInv' /\ ExactlyOnce' /\ Conservation'
    <3>1. /\ \A b \in 1..cur, p \in Occupied : Slot(b, p)' = Slot(b, p)
          /\ \A p \in Occupied : Slot(cur, p)' = Slot(cur, p)
      BY <2>1 DEF Slot
    <3>. QED
      BY <1>1, <1>3, <1>4, <2>1, <3>1, ContentKept
  <2>. QED
    BY <1>5, <2>2, <2>3, <2>4, <2>5, <2>6 DEF IInv
<1>. QED
  BY <1>6, <1>7
\* A write to the slot of position ob, which is reserved but not published.
LEMMA PutStep ==
  ASSUME IInv, opc \in {"put", "putting"}, NEW c \in Content, Put(ob, c),
         opc = "put" => opc' = "putting",
         opc = "putting" => opc' = "publish" /\ c = oh,
         UNCHANGED <<memory, cur, size, oldBuffers, alive, ob, ot, oh, thief,
                     ghosts, ending>>
  PROVE  IInv'
<1>. USE DEF memory, ghosts, ending
<1>1. phase = "live"
  BY DEF IInv, TypeOK, BufferInv
<1>2. /\ ob = OwnerBottom
      /\ ot <= top
      /\ oh = pushed + 1
      /\ pushed < MaxPush
      /\ ob - ot <= size[cur] - 1
  BY DEF IInv, PushInv, Pushing
<1>3. opc' \in {"putting", "publish"}
  OBVIOUS
<1>4. /\ OwnerBottom' = OwnerBottom
      /\ LogicalBottom = ob
      /\ LogicalBottom' = ob
  BY <1>2, <1>3 DEF OwnerBottom, LogicalBottom, PopPending
<1>5. /\ top \in Nat
      /\ ob \in Nat
      /\ ot \in Nat
      /\ cur \in 1..cur
      /\ size[cur] \in Nat \ {0}
  BY DEF IInv, TypeOK
<1>6. \A p \in Occupied :
        p \in Nat /\ p # ob /\ p - ob < size[cur] /\ ob - p < size[cur]
  BY <1>2, <1>4, <1>5 DEF Occupied
<1>7. /\ array' = [b \in 1..cur |-> array'[b]]
      /\ \A b \in 1..cur : array'[b] \in [0..size[b] - 1 -> Content]
      /\ Slot(cur, ob)' = c
      /\ \A p \in Nat : p # ob /\ p - ob < size[cur] /\ ob - p < size[cur]
                          => Slot(cur, p)' = Slot(cur, p)
      /\ \A b \in 1..cur, p \in Nat : b # cur => Slot(b, p)' = Slot(b, p)
  BY <1>5, PutFacts DEF IInv
<1>8. TypeOK'
  BY <1>3, <1>7 DEF IInv, TypeOK, thief
<1>9. IndexInv'
  BY <1>4 DEF IInv, IndexInv
<1>10. PushInv'
  <2>1. opc' = "publish" => Slot(cur, ob)' = oh
    BY <1>7
  <2>. QED
    BY <1>2, <1>3, <1>4, <2>1 DEF PushInv, Pushing
<1>11. PopInv'
  BY <1>3 DEF PopInv, PopPending
<1>12. BufferInv'
  BY <1>1 DEF IInv, BufferInv
<1>13. SlotInv' /\ ThiefInv' /\ ExactlyOnce' /\ Conservation'
  <2>1. \A p \in Occupied : Slot(cur, p)' = Slot(cur, p)
    BY <1>6, <1>7
  <2>2. \A b \in 1..cur, p \in Occupied : Slot(b, p)' = Slot(b, p)
    BY <1>6, <1>7, <2>1
  <2>3. cur' = cur /\ cur \in Nat
    BY <1>5
  <2>. QED
    BY <1>4, <2>1, <2>2, <2>3, ContentKept
<1>. QED
  BY <1>8, <1>9, <1>10, <1>11, <1>12, <1>13 DEF IInv

LEMMA PutBeginStep ==
  ASSUME IInv, PutBegin
  PROVE  IInv'
  BY PutStep DEF PutBegin, Content

LEMMA PutEndStep ==
  ASSUME IInv, PutEnd
  PROVE  IInv'
<1>1. oh \in Content
  BY DEF IInv, TypeOK, Content
<1>. QED
  BY <1>1, PutStep DEF PutEnd

LEMMA OwnerReturnsType ==
  ASSUME OwnerReturns
  PROVE  /\ opc' = "idle"
         /\ ob' \in Nat
         /\ ot' \in Nat
         /\ oh' \in Handle \cup {NoHandle, Torn}
  BY DEF OwnerReturns

\* The entries of the store buffer after a store of b that the deque reaches.
LEMMA StoreBounds ==
  ASSUME IInv, NEW b \in Nat, Store(b), bottom' = bottom,
         b <= LogicalBottom', LogicalBottom <= LogicalBottom'
  PROVE  /\ bottom' <= LogicalBottom'
         /\ \A i \in 1..Len(storeBuffer') : storeBuffer'[i] <= LogicalBottom'
<1>1. /\ LogicalBottom \in Nat
      /\ LogicalBottom' \in Nat
      /\ storeBuffer \in Seq(Nat)
      /\ bottom \in Nat
      /\ OwnerBottom' = b
  <2>1. storeBuffer \in Seq(Nat) /\ bottom \in Nat /\ LogicalBottom \in Nat
    BY BottomType DEF IInv, TypeOK
  <2>2. OwnerBottom' = b
    BY StoreFacts DEF IInv
  <2>. QED
    BY <2>1, <2>2 DEF LogicalBottom
<1>2. bottom' <= LogicalBottom'
  BY <1>1 DEF IInv, IndexInv
<1>3. ASSUME NEW i \in 1..Len(storeBuffer')
      PROVE  storeBuffer'[i] <= LogicalBottom'
  <2>1. CASE i = Len(storeBuffer')
    BY <2>1, StoreFacts DEF IInv
  <2>2. CASE i # Len(storeBuffer')
    <3>1. i \in 1..Len(storeBuffer) /\ storeBuffer'[i] = storeBuffer[i]
      BY <1>1, <2>2, StoreFacts DEF IInv
    <3>2. storeBuffer[i] \in Nat /\ storeBuffer[i] <= LogicalBottom
      BY <1>1, <3>1 DEF IInv, IndexInv
    <3>. QED
      BY <1>1, <3>1, <3>2
  <2>. QED
    BY <2>1, <2>2
<1>. QED
  BY <1>2, <1>3

LEMMA PushPublishStep ==
  ASSUME IInv, PushPublish
  PROVE  IInv'
<1>1. /\ opc = "publish"
      /\ Store(ob + 1)
      /\ pushed' = pushed + 1
      /\ OwnerReturns
      /\ UNCHANGED <<top, bottom, buffers, thief, takes, ending>>
  BY DEF PushPublish
<1>. USE DEF buffers, ending
<1>2. phase = "live"
  BY <1>1 DEF IInv, TypeOK, BufferInv
<1>3. /\ ob = OwnerBottom
      /\ ot <= top
      /\ oh = pushed + 1
      /\ pushed < MaxPush
      /\ ob - ot <= size[cur] - 1
      /\ Slot(cur, ob) = oh
  BY <1>1 DEF IInv, PushInv, Pushing
<1>4. /\ top \in Nat
      /\ ob \in Nat
      /\ ot \in Nat
      /\ pushed \in Nat
      /\ MaxPush \in Nat
      /\ cur \in 1..cur
      /\ size[cur] \in Nat \ {0}
  BY BoundAssumption DEF IInv, TypeOK
<1>5. /\ storeBuffer' \in Seq(Nat)
      /\ OwnerBottom' = ob + 1
  BY <1>1, <1>4, StoreFacts DEF IInv
<1>6. opc' = "idle"
  BY <1>1 DEF OwnerReturns
<1>7. /\ LogicalBottom = ob
      /\ LogicalBottom' = ob + 1
  BY <1>1, <1>3, <1>5, <1>6 DEF LogicalBottom, PopPending
<1>8. TypeOK'
  <2>1. pushed' \in 0..MaxPush
    BY <1>1, <1>3, <1>4
  <2>. QED
    BY <1>1, <1>5, <2>1, OwnerReturnsType DEF IInv, TypeOK, thief
<1>9. IndexInv'
  <2>1. /\ bottom' <= LogicalBottom'
        /\ \A i \in 1..Len(storeBuffer') : storeBuffer'[i] <= LogicalBottom'
    BY <1>1, <1>4, <1>7, StoreBounds
  <2>2. 1 <= top /\ top <= ob
    BY <1>7 DEF IInv, IndexInv
  <2>. QED
    BY <1>1, <1>3, <1>4, <1>7, <2>1, <2>2 DEF IndexInv
<1>10. PushInv' /\ PopInv'
  BY <1>6 DEF PushInv, Pushing, PopInv, PopPending
<1>11. BufferInv'
  BY <1>1, <1>2 DEF IInv, BufferInv
<1>12. \A b, p : Slot(b, p)' = Slot(b, p)
  BY <1>1 DEF Slot
<1>. PICK k \in Nat : k = ob
  BY <1>4
<1>. PICK new \in Nat : new = pushed + 1
  BY <1>4
<1>13. \A p \in Occupied' : p \in Occupied \/ p = k
  BY <1>1, <1>4, <1>7 DEF Occupied
<1>14. Slot(cur, k)' = new /\ new \notin 1..pushed /\ new \in 1..pushed'
  BY <1>1, <1>3, <1>4, <1>12
<1>15. SlotInv'
  <2>1. \A p \in Occupied : /\ Slot(cur, p)' = Slot(cur, p)
                            /\ Slot(cur, p) \in 1..pushed
                            /\ takes[Slot(cur, p)] = 0
    BY <1>1 DEF IInv, SlotInv, Slot
  <2>2. takes[new] = 0
    BY <1>3, <1>4 DEF IInv, SlotInv, Handle
  <2>3. ASSUME NEW p \in Occupied'
        PROVE  Slot(cur, p)' \in 1..pushed' /\ takes'[Slot(cur, p)'] = 0
    BY <1>1, <1>4, <1>13, <1>14, <2>1, <2>2
  <2>4. ASSUME NEW p \in Occupied', NEW q \in Occupied',
               Slot(cur, p)' = Slot(cur, q)'
        PROVE  p = q
    BY <1>13, <1>14, <2>1, <2>4 DEF IInv, SlotInv
  <2>5. \A h \in Handle : h > pushed' => takes'[h] = 0
    BY <1>1, <1>4 DEF IInv, SlotInv, Handle
  <2>. QED
    BY <2>3, <2>4, <2>5 DEF SlotInv
<1>16. ThiefInv'
  <2>. SUFFICES ASSUME NEW t \in Thieves PROVE TrustedThief(t)'
    BY DEF ThiefInv
  <2>1. TrustedThief(t) /\ tt[t] \in Nat
    BY DEF IInv, TypeOK, ThiefInv
  <2>. QED
    BY <1>1, <1>4, <1>7, <2>1 DEF TrustedThief, Slot, thief
<1>17. ExactlyOnce'
  BY <1>1 DEF IInv, ExactlyOnce
<1>18. Conservation'
  <2>. SUFFICES ASSUME NEW h \in 1..pushed', takes'[h] = 0
                PROVE  \E p \in Occupied' : Slot(cur, p)' = h
    BY DEF Conservation, Occupied
  <2>1. CASE h = new
    <3>1. top <= k
      BY <1>7 DEF IInv, IndexInv
    <3>2. k \in Occupied'
      BY <1>1, <1>4, <1>7, <3>1 DEF Occupied
    <3>. QED
      BY <1>14, <2>1, <3>2
  <2>2. CASE h # new
    <3>1. h \in 1..pushed /\ takes[h] = 0
      BY <1>1, <1>3, <1>4, <2>2
    <3>2. PICK p \in Occupied : Slot(cur, p) = h
      BY <3>1 DEF IInv, Conservation, Occupied
    <3>3. p \in Occupied'
      BY <1>1, <1>4, <1>7, <3>2 DEF Occupied
    <3>. QED
      BY <1>1, <3>2, <3>3 DEF Slot
  <2>. QED
    BY <2>1, <2>2
<1>. QED
  BY <1>8, <1>9, <1>10, <1>11, <1>15, <1>16, <1>17, <1>18 DEF IInv
LEMMA PopReserveStep ==
  ASSUME IInv, PopReserve
  PROVE  IInv'
<1>1. /\ phase = "live"
      /\ opc = "idle"
      /\ opc' = "fence"
      /\ ob' = OwnerBottom - 1
      /\ Store(OwnerBottom - 1)
      /\ UNCHANGED <<top, bottom, buffers, ot, oh, thief, ghosts, ending>>
  BY DEF PopReserve
<1>. USE DEF buffers, ghosts, ending
<1>2. LogicalBottom = OwnerBottom
  BY <1>1 DEF LogicalBottom, PopPending
<1>3. /\ OwnerBottom \in Nat
      /\ OwnerBottom - 1 \in Nat
      /\ top <= OwnerBottom
  <2>1. OwnerBottom \in Nat /\ top \in Nat
    BY BottomType DEF IInv, TypeOK
  <2>2. 1 <= top /\ top <= OwnerBottom
    BY <1>2 DEF IInv, IndexInv
  <2>. QED
    BY <2>1, <2>2
<1>4. /\ storeBuffer' \in Seq(Nat)
      /\ OwnerBottom' = OwnerBottom - 1
  BY <1>1, <1>3, StoreFacts DEF IInv
<1>5. LogicalBottom' = LogicalBottom
  BY <1>1, <1>2, <1>3, <1>4 DEF LogicalBottom, PopPending
<1>6. TypeOK'
  BY <1>1, <1>3, <1>4 DEF IInv, TypeOK, thief
<1>7. IndexInv'
  <2>1. /\ bottom' <= LogicalBottom'
        /\ \A i \in 1..Len(storeBuffer') : storeBuffer'[i] <= LogicalBottom'
    BY <1>1, <1>2, <1>3, <1>5, StoreBounds
  <2>. QED
    BY <1>1, <1>5, <2>1 DEF IInv, IndexInv
<1>8. PushInv' /\ PopInv'
  BY <1>1, <1>4 DEF PushInv, Pushing, PopInv, PopPending
<1>9. BufferInv'
  BY <1>1 DEF IInv, BufferInv
<1>10. SlotInv' /\ ThiefInv' /\ ExactlyOnce' /\ Conservation'
  <2>1. \A b, p : Slot(b, p)' = Slot(b, p)
    BY <1>1 DEF Slot
  <2>2. \A p \in Occupied : Slot(cur, p)' = Slot(cur, p)
    BY <1>1 DEF Slot
  <2>3. cur' = cur /\ cur \in Nat
    BY <1>1 DEF IInv, TypeOK
  <2>. QED
    BY <1>1, <1>5, <2>1, <2>2, <2>3, ContentKept
<1>. QED
  BY <1>6, <1>7, <1>8, <1>9, <1>10 DEF IInv

LEMMA PopLoadTopStep ==
  ASSUME IInv, PopLoadTop
  PROVE  IInv'
<1>1. /\ opc = "fence"
      /\ storeBuffer = <<>>
      /\ UNCHANGED <<memory, buffers, thief, pushed, ending>>
  BY DEF PopLoadTop, Fence
<1>. USE DEF memory, buffers, ending
<1>2. /\ phase = "live"
      /\ ob = OwnerBottom
      /\ ob = bottom
      /\ LogicalBottom = ob + 1
      /\ OwnerBottom' = ob
  BY <1>1 DEF IInv, TypeOK, BufferInv, PopInv, PopPending, OwnerBottom,
              LogicalBottom
<1>3. /\ top \in Nat
      /\ ob \in Nat
      /\ cur \in 1..cur
      /\ size[cur] \in Nat \ {0}
  BY DEF IInv, TypeOK
<1>4. BufferInv'
  BY <1>1, <1>2 DEF IInv, BufferInv
<1>5. \A b, p : Slot(b, p)' = Slot(b, p)
  BY <1>1 DEF Slot
<1>. PICK k \in Nat : k = ob
  BY <1>3
<1>6. CASE /\ top < ob
           /\ Take(Slot(cur, ob))
           /\ OwnerReturns
  <2>1. opc' = "idle" /\ LogicalBottom' = k
    BY <1>2, <1>6 DEF OwnerReturns, LogicalBottom, PopPending
  <2>2. k \in Occupied /\ Occupied' = Occupied \ {k}
    BY <1>1, <1>2, <1>3, <1>6, <2>1 DEF Occupied
  <2>3. Slot(cur, k) \in Content
    BY <1>3, SlotType DEF IInv
  <2>4. /\ takes' \in [Content -> Nat]
        /\ SlotInv'
        /\ ExactlyOnce'
        /\ Conservation'
    <3>. DEFINE h == Slot(cur, k)
    <3>1. h \in Content /\ Take(h)
      BY <1>6, <2>3
    <3>. QED
      BY <1>1, <2>2, <3>1, TakeFacts
  <2>5. TypeOK'
    BY <1>1, <1>6, <2>4, OwnerReturnsType DEF IInv, TypeOK, thief
  <2>6. IndexInv'
    BY <1>1, <1>2, <1>3, <1>6, <2>1 DEF IInv, IndexInv
  <2>7. PushInv' /\ PopInv'
    BY <2>1 DEF PushInv, Pushing, PopInv, PopPending
  <2>8. ASSUME NEW t \in Thieves PROVE TrustedThief(t)'
    <3>1. TrustedThief(t) /\ tt[t] \in Nat
      BY DEF IInv, TypeOK, ThiefInv
    <3>. QED
      BY <1>1, <1>3, <1>6, <2>1, <3>1 DEF TrustedThief, Slot, thief
  <2>. QED
    BY <1>4, <2>4, <2>5, <2>6, <2>7, <2>8 DEF IInv, ThiefInv
<1>7. ASSUME opc' \in {"race", "restore"}, UNCHANGED takes
      PROVE  /\ LogicalBottom' = LogicalBottom
             /\ IndexInv'
             /\ PushInv'
             /\ SlotInv' /\ ThiefInv' /\ ExactlyOnce' /\ Conservation'
  <2>1. LogicalBottom' = LogicalBottom
    BY <1>2, <1>7 DEF LogicalBottom, PopPending
  <2>2. IndexInv'
    BY <1>1, <2>1 DEF IInv, IndexInv
  <2>3. PushInv'
    BY <1>7 DEF PushInv, Pushing
  <2>4. \A p \in Occupied : Slot(cur, p)' = Slot(cur, p)
    BY <1>1 DEF Slot
  <2>5. cur' = cur /\ cur \in Nat
    BY <1>1 DEF IInv, TypeOK
  <2>. QED
    BY <1>1, <1>5, <1>7, <2>1, <2>2, <2>3, <2>4, <2>5, ContentKept
<1>8. CASE /\ top = ob
           /\ opc' = "race"
           /\ ot' = top
           /\ oh' = Slot(cur, ob)
           /\ UNCHANGED <<ob, takes>>
  <2>1. Slot(cur, k) \in Content
    BY <1>3, SlotType DEF IInv
  <2>2. oh' \in Handle \cup {NoHandle, Torn}
    BY <1>8, <2>1 DEF Content
  <2>3. TypeOK'
    BY <1>1, <1>3, <1>8, <2>2 DEF IInv, TypeOK, thief
  <2>4. PopInv'
    BY <1>1, <1>2, <1>5, <1>8 DEF PopInv, PopPending
  <2>. QED
    BY <1>4, <1>7, <1>8, <2>3, <2>4 DEF IInv
<1>9. CASE /\ top > ob
           /\ opc' = "restore"
           /\ UNCHANGED <<ob, ot, oh, takes>>
  <2>1. TypeOK'
    BY <1>1, <1>9 DEF IInv, TypeOK, thief
  <2>2. top <= ob + 1
    BY <1>2 DEF IInv, IndexInv
  <2>3. PopInv'
    BY <1>1, <1>2, <1>3, <1>7, <1>9, <2>2 DEF PopInv, PopPending
  <2>. QED
    BY <1>4, <1>7, <1>9, <2>1, <2>3 DEF IInv
<1>. QED
  BY <1>6, <1>8, <1>9 DEF PopLoadTop, Empty
LEMMA PopCasStep ==
  ASSUME IInv, PopCas
  PROVE  IInv'
<1>1. /\ opc = "race"
      /\ opc' = "restore"
      /\ UNCHANGED <<bottom, storeBuffer, buffers, ob, ot, oh, thief, pushed,
                     ending>>
  BY DEF PopCas
<1>. USE DEF buffers, ending
<1>2. /\ phase = "live"
      /\ ob = OwnerBottom
      /\ ot = ob
      /\ oh = Slot(cur, ob)
      /\ storeBuffer = <<>>
      /\ OwnerBottom' = ob
      /\ LogicalBottom = ob + 1
      /\ LogicalBottom' = ob + 1
  BY <1>1 DEF IInv, TypeOK, BufferInv, PopInv, PopPending, OwnerBottom,
              LogicalBottom
<1>3. /\ top \in Nat
      /\ ob \in Nat
      /\ top <= ob + 1
      /\ cur' = cur
      /\ cur \in Nat
  BY <1>1, <1>2 DEF IInv, TypeOK, IndexInv
<1>4. BufferInv'
  BY <1>1, <1>2 DEF IInv, BufferInv
<1>5. /\ \A b, p : Slot(b, p)' = Slot(b, p)
      /\ \A p : Slot(cur, p)' = Slot(cur, p)
  BY <1>1 DEF Slot
<1>6. PushInv'
  BY <1>1 DEF PushInv, Pushing
<1>7. CASE top = ot
  <2>1. top' = top + 1 /\ Take(oh)
    BY <1>7 DEF PopCas
  <2>2. top \in Occupied /\ Occupied' = Occupied \ {top}
    BY <1>2, <1>3, <1>7, <2>1 DEF Occupied
  <2>3. oh \in Content /\ oh = Slot(cur, top)
    BY <1>2, <1>7 DEF IInv, TypeOK, Content
  <2>4. /\ takes' \in [Content -> Nat]
        /\ SlotInv'
        /\ ExactlyOnce'
        /\ Conservation'
    BY <1>1, <2>1, <2>2, <2>3, TakeFacts
  <2>5. TypeOK'
    <3>1. top' \in Nat
      BY <1>3, <2>1
    <3>. QED
      BY <1>1, <2>4, <3>1 DEF IInv, TypeOK, thief
  <2>6. IndexInv'
    BY <1>1, <1>2, <1>3, <1>7, <2>1 DEF IInv, TypeOK, IndexInv
  <2>7. PopInv'
    BY <1>1, <1>2, <1>3, <1>7, <2>1 DEF PopInv, PopPending
  <2>8. ASSUME NEW t \in Thieves PROVE TrustedThief(t)'
    <3>1. TrustedThief(t) /\ tt[t] \in Nat
      BY DEF IInv, TypeOK, ThiefInv
    <3>. QED
      BY <1>1, <1>3, <2>1, <3>1 DEF TrustedThief, thief
  <2>. QED
    BY <1>4, <1>6, <2>4, <2>5, <2>6, <2>7, <2>8 DEF IInv, ThiefInv
<1>8. CASE top # ot
  <2>1. UNCHANGED <<top, takes>>
    BY <1>8 DEF PopCas
  <2>2. TypeOK'
    BY <1>1, <2>1 DEF IInv, TypeOK, thief
  <2>3. IndexInv'
    BY <1>1, <1>2, <2>1 DEF IInv, IndexInv
  <2>4. PopInv'
    <3>1. ob <= top
      BY <1>1 DEF IInv, PopInv
    <3>. QED
      BY <1>1, <1>2, <1>3, <1>8, <2>1, <3>1 DEF PopInv, PopPending
  <2>5. SlotInv' /\ ThiefInv' /\ ExactlyOnce' /\ Conservation'
    BY <1>1, <1>2, <1>3, <1>5, <2>1, ContentKept
  <2>. QED
    BY <1>4, <1>6, <2>2, <2>3, <2>4, <2>5 DEF IInv
<1>. QED
  BY <1>7, <1>8

LEMMA PopRestoreStep ==
  ASSUME IInv, PopRestore
  PROVE  IInv'
<1>1. /\ opc = "restore"
      /\ Store(ob + 1)
      /\ OwnerReturns
      /\ UNCHANGED <<top, bottom, buffers, thief, ghosts, ending>>
  BY DEF PopRestore, Restore
<1>. USE DEF buffers, ghosts, ending
<1>2. /\ phase = "live"
      /\ ob = OwnerBottom
      /\ LogicalBottom = ob + 1
  BY <1>1 DEF IInv, TypeOK, BufferInv, PopInv, PopPending, LogicalBottom
<1>3. ob \in Nat /\ ob + 1 \in Nat /\ opc' = "idle"
  BY <1>1 DEF IInv, TypeOK, OwnerReturns
<1>4. /\ storeBuffer' \in Seq(Nat)
      /\ OwnerBottom' = ob + 1
  BY <1>1, <1>3, StoreFacts DEF IInv
<1>5. LogicalBottom' = LogicalBottom
  BY <1>2, <1>3, <1>4 DEF LogicalBottom, PopPending
<1>6. TypeOK'
  BY <1>1, <1>4, OwnerReturnsType DEF IInv, TypeOK, thief
<1>7. IndexInv'
  <2>1. /\ bottom' <= LogicalBottom'
        /\ \A i \in 1..Len(storeBuffer') : storeBuffer'[i] <= LogicalBottom'
    BY <1>1, <1>2, <1>3, <1>5, StoreBounds
  <2>. QED
    BY <1>1, <1>5, <2>1 DEF IInv, IndexInv
<1>8. PushInv' /\ PopInv'
  BY <1>3 DEF PushInv, Pushing, PopInv, PopPending
<1>9. BufferInv'
  BY <1>1, <1>2 DEF IInv, BufferInv
<1>10. SlotInv' /\ ThiefInv' /\ ExactlyOnce' /\ Conservation'
  <2>1. /\ \A b, p : Slot(b, p)' = Slot(b, p)
        /\ \A p : Slot(cur, p)' = Slot(cur, p)
    BY <1>1 DEF Slot
  <2>2. cur' = cur /\ cur \in Nat
    BY <1>1 DEF IInv, TypeOK
  <2>. QED
    BY <1>1, <1>5, <2>1, <2>2, ContentKept
<1>. QED
  BY <1>6, <1>7, <1>8, <1>9, <1>10 DEF IInv

LEMMA DrainStep ==
  ASSUME IInv, Drain
  PROVE  IInv'
<1>1. /\ storeBuffer # <<>>
      /\ UNCHANGED <<top, buffers, owner, thief, ghosts, ending>>
  BY DEF Drain
<1>. USE DEF buffers, owner, ghosts, ending
<1>2. /\ storeBuffer' \in Seq(Nat)
      /\ bottom' = storeBuffer[1]
      /\ 1 \in 1..Len(storeBuffer)
      /\ OwnerBottom' = OwnerBottom
      /\ LogicalBottom' = LogicalBottom
      /\ Len(storeBuffer') = Len(storeBuffer) - 1
      /\ \A i \in 1..Len(storeBuffer') : storeBuffer'[i] = storeBuffer[i + 1]
  BY DrainFacts DEF IInv
<1>3. storeBuffer \in Seq(Nat) /\ Len(storeBuffer) \in Nat
  BY DEF IInv, TypeOK
<1>4. TypeOK'
  <2>1. bottom' \in Nat
    BY <1>2, <1>3
  <2>. QED
    BY <1>1, <1>2, <2>1 DEF IInv, TypeOK, thief
<1>5. IndexInv'
  <2>1. \A i \in 1..Len(storeBuffer') : i + 1 \in 1..Len(storeBuffer)
    BY <1>2, <1>3
  <2>. QED
    BY <1>1, <1>2, <2>1 DEF IInv, IndexInv
<1>6. PushInv'
  BY <1>1, <1>2 DEF IInv, PushInv, Pushing, Slot
<1>7. PopInv'
  BY <1>1, <1>2 DEF IInv, PopInv, PopPending
<1>8. BufferInv'
  BY <1>1 DEF IInv, BufferInv
<1>9. SlotInv' /\ ThiefInv' /\ ExactlyOnce' /\ Conservation'
  <2>1. /\ \A b, p : Slot(b, p)' = Slot(b, p)
        /\ \A p : Slot(cur, p)' = Slot(cur, p)
    BY <1>1 DEF Slot
  <2>2. cur' = cur /\ cur \in Nat
    BY <1>1 DEF IInv, TypeOK
  <2>. QED
    BY <1>1, <1>2, <2>1, <2>2, ContentKept
<1>. QED
  BY <1>4, <1>5, <1>6, <1>7, <1>8, <1>9 DEF IInv

-----------------------------------------------------------------------------
(* The destructor.                                                         *)

LEMMA DestructStep ==
  ASSUME IInv, Destruct
  PROVE  IInv'
<1>1. /\ phase = "live"
      /\ opc = "idle"
      /\ storeBuffer = <<>>
      /\ \A t \in Thieves : tpc[t] = "idle"
      /\ destroyed' = {Slot(cur, p) : p \in top..bottom - 1} \cap PoolManaged
      /\ alive' = alive \ (oldBuffers \cup {cur})
      /\ phase' = "dead"
      /\ UNCHANGED <<memory, cur, size, array, oldBuffers, owner, thief, ghosts>>
  BY DEF Destruct, Reclaim
<1>. USE DEF memory, owner, ghosts
<1>2. OwnerBottom' = OwnerBottom /\ LogicalBottom' = LogicalBottom
  BY <1>1 DEF OwnerBottom, LogicalBottom, PopPending
<1>3. TypeOK'
  <2>1. destroyed' \subseteq Content
    BY <1>1, BoundAssumption DEF Content
  <2>2. alive' \subseteq 1..cur
    BY <1>1 DEF IInv, TypeOK
  <2>. QED
    BY <1>1, <2>1, <2>2 DEF IInv, TypeOK, thief
<1>4. IndexInv'
  BY <1>1, <1>2 DEF IInv, IndexInv
<1>5. PushInv' /\ PopInv'
  BY <1>1 DEF PushInv, Pushing, PopInv, PopPending
<1>6. BufferInv'
  <2>1. cur \in Nat \ {0} /\ oldBuffers = 1..cur - 1 /\ alive = 1..cur
    BY <1>1 DEF IInv, TypeOK, BufferInv
  <2>2. alive' = {}
    BY <1>1, <2>1
  <2>. QED
    BY <1>1, <2>1, <2>2 DEF BufferInv, thief
<1>7. SlotInv' /\ ThiefInv' /\ ExactlyOnce' /\ Conservation'
  <2>1. /\ \A b, p : Slot(b, p)' = Slot(b, p)
        /\ \A p : Slot(cur, p)' = Slot(cur, p)
    BY <1>1 DEF Slot
  <2>2. cur' = cur /\ cur \in Nat
    BY <1>1 DEF IInv, TypeOK
  <2>. QED
    BY <1>1, <1>2, <2>1, <2>2, ContentKept
<1>. QED
  BY <1>3, <1>4, <1>5, <1>6, <1>7 DEF IInv
-----------------------------------------------------------------------------
(* The invariant holds in every reachable state.                           *)

LEMMA InitInv ==
  ASSUME Init
  PROVE  IInv
<1>. USE DEF Init
<1>1. 1 \in 1..1 /\ cur = 1 /\ 1..cur = {1}
  OBVIOUS
<1>2. TypeOK
  <2>1. size \in [1..cur -> Nat \ {0}]
    BY SizeAssumption
  <2>2. /\ array = [b \in 1..cur |-> array[b]]
        /\ \A b \in 1..cur : array[b] \in [0..size[b] - 1 -> Content]
    BY <1>1 DEF Content
  <2>3. /\ storeBuffer \in Seq(Nat)
        /\ oldBuffers \subseteq 1..cur
        /\ alive \subseteq 1..cur
        /\ destroyed \subseteq Content
        /\ cur \in Nat \ {0}
    BY <1>1
  <2>4. pushed \in 0..MaxPush /\ takes \in [Content -> Nat]
    BY BoundAssumption
  <2>5. /\ tpc \in [Thieves ->
                   {"idle", "bottom", "buffer", "get", "got", "cas"}]
        /\ tt \in [Thieves -> Nat]
        /\ tbuf \in [Thieves -> (1..cur) \cup {NoBuffer}]
        /\ th \in [Thieves -> Content]
    BY DEF Content
  <2>. QED
    BY <2>1, <2>2, <2>3, <2>4, <2>5 DEF TypeOK
<1>3. OwnerBottom = 1 /\ LogicalBottom = 1 /\ Occupied = {}
  BY DEF OwnerBottom, LogicalBottom, PopPending, Occupied
<1>4. IndexInv
  BY <1>1, <1>3, SizeAssumption DEF IndexInv
<1>5. PushInv /\ PopInv
  BY DEF PushInv, Pushing, PopInv, PopPending
<1>6. SlotInv /\ ExactlyOnce
  BY <1>3, ContentAssumption DEF SlotInv, ExactlyOnce, Content
<1>7. ThiefInv
  BY DEF ThiefInv, TrustedThief
<1>8. BufferInv
  BY <1>1 DEF BufferInv
<1>9. Conservation
  BY DEF Conservation
<1>. QED
  BY <1>2, <1>4, <1>5, <1>6, <1>7, <1>8, <1>9 DEF IInv

LEMMA StutterStep ==
  ASSUME IInv, UNCHANGED vars
  PROVE  IInv'
<1>. USE DEF vars, memory, buffers, owner, thief, ghosts, ending
<1>1. OwnerBottom' = OwnerBottom /\ LogicalBottom' = LogicalBottom
  BY DEF OwnerBottom, LogicalBottom, PopPending
<1>2. TypeOK'
  BY DEF IInv, TypeOK
<1>3. IndexInv' /\ PushInv' /\ PopInv'
  BY <1>1 DEF IInv, IndexInv, PushInv, Pushing, PopInv, PopPending, Slot
<1>4. SlotInv' /\ ThiefInv' /\ Conservation'
  BY <1>1 DEF IInv, SlotInv, ThiefInv, TrustedThief, Conservation, Occupied, Slot
<1>5. BufferInv' /\ ExactlyOnce'
  BY DEF IInv, BufferInv, ExactlyOnce
<1>. QED
  BY <1>2, <1>3, <1>4, <1>5 DEF IInv

LEMMA NextStep ==
  ASSUME IInv, [Next]_vars
  PROVE  IInv'
<1>1. CASE Push
  BY <1>1, PushLoadStep, PushReserveStep, PutBeginStep, PutEndStep,
     PushPublishStep DEF Push
<1>2. CASE Pop
  BY <1>2, PopReserveStep, PopLoadTopStep, PopCasStep, PopRestoreStep DEF Pop
<1>3. ASSUME NEW t \in Thieves, Steal(t) PROVE IInv'
  BY <1>3, StealLoadTopStep, StealLoadBottomStep, StealLoadBufferStep,
     StealGetStep, StealGotStep, StealCasStep DEF Steal
<1>. QED
  BY <1>1, <1>2, <1>3, DrainStep, DestructStep, StutterStep DEF Next

\* The inductive invariant: everything the safety of the deque rests on.
THEOREM Invariant == Spec => []IInv
<1>1. Init => IInv
  BY InitInv
<1>2. IInv /\ [Next]_vars => IInv'
  BY NextStep
<1>. QED
  BY <1>1, <1>2, PTL DEF Spec

-----------------------------------------------------------------------------
(* What follows.                                                           *)

\* Every variable keeps its type: in particular the owner's bottom - 1 in
\* popBottom never wraps below zero.
THEOREM TypeCorrect == Spec => []TypeOK
<1>1. IInv => TypeOK
  BY DEF IInv
<1>. QED
  BY <1>1, Invariant, PTL

\* No coroutine handle is handed out twice, and no torn or unwritten slot is.
THEOREM NoDoubleTake == Spec => []ExactlyOnce
<1>1. IInv => ExactlyOnce
  BY DEF IInv
<1>. QED
  BY <1>1, Invariant, PTL

\* No pushed handle is lost.
THEOREM NoLoss == Spec => []Conservation
<1>1. IInv => Conservation
  BY DEF IInv
<1>. QED
  BY <1>1, Invariant, PTL

\* A thief only reads buffers that still exist; the destructor deletes all.
THEOREM BuffersOutliveReaders == Spec => []BufferLifetime
<1>1. IInv => BufferLifetime
  <2>. SUFFICES ASSUME IInv PROVE BufferLifetime
    OBVIOUS
  <2>1. ASSUME NEW t \in Thieves, tpc[t] \in {"get", "got"}
        PROVE  tbuf[t] \in alive
    <3>1. phase = "live"
      BY <2>1, NotIdleIsLive
    <3>. QED
      BY <2>1, <3>1 DEF IInv, BufferInv, ThiefInv, TrustedThief
  <2>. QED
    BY <2>1 DEF IInv, BufferInv, BufferLifetime
<1>. QED
  BY <1>1, Invariant, PTL

\* popBottom comes back empty-handed only from an empty deque.
THEOREM EmptyPopProof == Spec => EmptyPopIsHonest
<1>1. IInv' => (opc' = "restore" => top' = LogicalBottom')
  BY DEF IInv, PopInv
<1>2. []IInv => EmptyPopIsHonest
  BY <1>1, PTL DEF EmptyPopIsHonest
<1>. QED
  BY <1>2, Invariant, PTL
\* The destructor destroys the pool-managed coroutines nobody was handed, no
\* other one.
THEOREM DestructorProof == Spec => []DestructorReclaims
<1>1. Init => DestructorReclaims
  BY DEF Init, DestructorReclaims
<1>2. ASSUME IInv, DestructorReclaims, [Next]_vars PROVE DestructorReclaims'
  <2>1. CASE phase = "dead"
    <3>1. UNCHANGED <<phase, destroyed, pushed, takes>>
      <4>1. opc = "idle" /\ storeBuffer = <<>> /\ \A t \in Thieves : tpc[t] = "idle"
        BY <1>2, <2>1 DEF IInv, BufferInv
      <4>2. ~Push /\ ~Pop
        BY <2>1, <4>1 DEF Push, Pop, PushLoad, PushReserve, PutBegin, PutEnd,
           PushPublish, PopReserve, PopLoadTop, PopCas, PopRestore
      <4>3. ~Drain /\ ~Destruct
        BY <2>1, <4>1 DEF Drain, Destruct
      <4>4. \A t \in Thieves : ~Steal(t)
        BY <2>1, <4>1 DEF Steal, StealLoadTop, StealLoadBottom, StealLoadBuffer,
           StealGet, StealGot, StealCas
      <4>. QED
        BY <1>2, <4>2, <4>3, <4>4 DEF Next, vars, ghosts, ending
    <3>. QED
      BY <1>2, <3>1 DEF DestructorReclaims
  <2>2. CASE phase # "dead" /\ Destruct
    <3>1. /\ opc = "idle"
          /\ storeBuffer = <<>>
          /\ destroyed' = {Slot(cur, p) : p \in top..bottom - 1} \cap PoolManaged
          /\ UNCHANGED <<pushed, takes>>
      BY <2>2 DEF Destruct, Reclaim, ghosts
    <3>2. Occupied = top..bottom - 1
      BY <3>1 DEF Occupied, LogicalBottom, PopPending, OwnerBottom
    <3>3. ASSUME NEW h \in PoolManaged, h <= pushed, takes[h] = 0
          PROVE  h \in destroyed'
      <4>1. h \in 1..pushed
        BY <3>3, BoundAssumption DEF IInv, TypeOK, Handle
      <4>. QED
        BY <1>2, <3>1, <3>2, <3>3, <4>1 DEF IInv, Conservation, Occupied
    <3>4. ASSUME NEW h \in destroyed'
          PROVE  h \in PoolManaged /\ h <= pushed /\ takes[h] = 0
      BY <1>2, <3>1, <3>2, <3>4 DEF IInv, SlotInv, TypeOK
    <3>. QED
      BY <3>1, <3>3, <3>4 DEF DestructorReclaims
  <2>3. CASE phase # "dead" /\ ~Destruct
    <3>1. phase' = phase
      BY <1>2, <2>3 DEF Next, Push, PushLoad, PushReserve, PutBegin, PutEnd,
         PushPublish, Pop, PopReserve, PopLoadTop, PopCas, PopRestore, Drain,
         Steal, StealLoadTop, StealLoadBottom, StealLoadBuffer, StealGet,
         StealGot, StealCas, vars, ending
    <3>. QED
      BY <2>3, <3>1 DEF DestructorReclaims
  <2>. QED
    BY <2>1, <2>2, <2>3
<1>. QED
  BY <1>1, <1>2, Invariant, PTL DEF Spec

-----------------------------------------------------------------------------
(* The lock-free deque of deque.h implements the mutex-protected deque of  *)
(* test_deque.h: every step of Deque is a step of TaskDeque or changes     *)
(* nothing that TaskDeque sees.                                            *)

\* What a step that leaves the deque's contents alone looks like from outside.
LEMMA SameContents ==
  ASSUME IInv, top' = top, LogicalBottom' = LogicalBottom, takes' = takes,
         \A p \in Occupied : Slot(cur, p)' = Slot(cur, p)
  PROVE  UNCHANGED Abstract!vars
<1>1. /\ top \in Nat
      /\ LogicalBottom \in Nat
  BY BottomType DEF IInv, TypeOK
<1>2. ASSUME NEW i \in 1..LogicalBottom - top
      PROVE  Slot(cur, top + i - 1)' = Slot(cur, top + i - 1)
  <2>. PICK p \in Nat : p = top + i - 1
    BY <1>1
  <2>1. p \in Occupied
    BY <1>1 DEF Occupied
  <2>2. Slot(cur, p)' = Slot(cur, p)
    BY <2>1
  <2>. QED
    BY <2>2 DEF Slot
<1>3. Contents' = Contents
  BY <1>2 DEF Contents
<1>4. Taken' = Taken
  BY DEF Taken
<1>. QED
  BY <1>3, <1>4 DEF Abstract!vars
LEMMA ContentsFacts ==
  ASSUME IInv
  PROVE  /\ top \in Nat
         /\ LogicalBottom \in Nat
         /\ top <= LogicalBottom
         /\ Contents \in Seq(Content)
         /\ Len(Contents) = LogicalBottom - top
         /\ \A i \in 1..LogicalBottom - top :
              Contents[i] = Slot(cur, top + i - 1)
<1>1. /\ top \in Nat
      /\ LogicalBottom \in Nat
      /\ top <= LogicalBottom
      /\ cur \in 1..cur
  <2>1. top \in Nat /\ LogicalBottom \in Nat /\ cur \in Nat \ {0}
    BY BottomType DEF IInv, TypeOK
  <2>. QED
    BY <2>1 DEF IInv, IndexInv
<1>2. \A i \in 1..LogicalBottom - top : Slot(cur, top + i - 1) \in Content
  BY <1>1, SlotType DEF IInv
<1>. QED
  BY <1>1, <1>2 DEF Contents

\* The element at the bottom, or at the top, leaves the deque.
LEMMA TakeBottom ==
  ASSUME IInv, NEW h \in Content, top < LogicalBottom,
         h = Slot(cur, LogicalBottom - 1), Take(h),
         LogicalBottom' = LogicalBottom - 1,
         UNCHANGED <<top, cur, size, array>>
  PROVE  Abstract!PopBottom
<1>. DEFINE n == LogicalBottom - top
<1>1. /\ top \in Nat
      /\ LogicalBottom \in Nat
      /\ n \in Nat
      /\ n >= 1
      /\ Contents \in Seq(Content)
      /\ Len(Contents) = n
      /\ \A i \in 1..n : Contents[i] = Slot(cur, top + i - 1)
  BY ContentsFacts
<1>2. Contents' = [i \in 1..n - 1 |-> Slot(cur, top + i - 1)]
  BY <1>1 DEF Contents, Slot
<1>3. Contents' = SubSeq(Contents, 1, Len(Contents) - 1)
  BY <1>1, <1>2
<1>4. Contents # <<>> /\ Contents[Len(Contents)] = h
  BY <1>1
<1>5. Taken' = Taken \cup {h}
  BY DEF IInv, TypeOK, Taken, Take
<1>. QED
  BY <1>3, <1>4, <1>5 DEF Abstract!PopBottom

LEMMA TakeTop ==
  ASSUME IInv, NEW h \in Content, top < LogicalBottom,
         h = Slot(cur, top), Take(h),
         top' = top + 1,
         LogicalBottom' = LogicalBottom,
         UNCHANGED <<cur, size, array>>
  PROVE  Abstract!Steal
<1>. DEFINE n == LogicalBottom - top
<1>1. /\ top \in Nat
      /\ LogicalBottom \in Nat
      /\ n \in Nat
      /\ n >= 1
      /\ Contents \in Seq(Content)
      /\ Len(Contents) = n
      /\ \A i \in 1..n : Contents[i] = Slot(cur, top + i - 1)
  BY ContentsFacts
<1>2. Contents' = [i \in 1..n - 1 |-> Slot(cur, top + i)]
  BY <1>1 DEF Contents, Slot
<1>3. Contents' = Tail(Contents)
  <2>1. \A i \in 1..n - 1 : Contents[i + 1] = Slot(cur, top + i)
    BY <1>1
  <2>2. /\ Tail(Contents) \in Seq(Content)
        /\ Len(Tail(Contents)) = n - 1
        /\ \A i \in 1..n - 1 : Tail(Contents)[i] = Contents[i + 1]
    BY <1>1, HeadTailProperties
  <2>3. Tail(Contents) = [i \in 1..n - 1 |-> Tail(Contents)[i]]
    BY <2>2, LenProperties
  <2>. QED
    BY <1>2, <2>1, <2>2, <2>3
<1>4. Contents # <<>> /\ Head(Contents) = h
  BY <1>1
<1>5. Taken' = Taken \cup {h}
  BY DEF IInv, TypeOK, Taken, Take
<1>. QED
  BY <1>3, <1>4, <1>5 DEF Abstract!Steal

LEMMA PublishIsPush ==
  ASSUME IInv, PushPublish
  PROVE  Abstract!PushBottom(pushed + 1)
<1>. DEFINE n == LogicalBottom - top
            h == pushed + 1
<1>1. /\ opc = "publish"
      /\ opc' = "idle"
      /\ Store(ob + 1)
      /\ UNCHANGED <<top, bottom, cur, size, array, takes>>
  BY DEF PushPublish, OwnerReturns, buffers
<1>2. /\ ob = OwnerBottom
      /\ pushed < MaxPush
      /\ Slot(cur, ob) = h
      /\ ob \in Nat
      /\ pushed \in Nat
      /\ LogicalBottom = ob
  BY <1>1 DEF IInv, TypeOK, PushInv, Pushing, LogicalBottom, PopPending
<1>3. LogicalBottom' = ob + 1
  BY <1>1, <1>2, StoreFacts DEF IInv, LogicalBottom, PopPending
<1>4. /\ top \in Nat
      /\ n \in Nat
      /\ Contents \in Seq(Content)
      /\ Len(Contents) = n
      /\ \A i \in 1..n : Contents[i] = Slot(cur, top + i - 1)
  BY <1>2, ContentsFacts
<1>5. Contents' = [i \in 1..n + 1 |-> Slot(cur, top + i - 1)]
  BY <1>1, <1>2, <1>3, <1>4 DEF Contents, Slot
<1>6. Contents' = Append(Contents, h)
  <2>1. \A i \in 1..n + 1 :
          Slot(cur, top + i - 1) = IF i = n + 1 THEN h ELSE Contents[i]
    <3>1. \A i \in 1..n + 1 : i # n + 1 => i \in 1..n
      BY <1>4
    <3>2. Slot(cur, top + (n + 1) - 1) = h
      BY <1>2, <1>4
    <3>. QED
      BY <1>4, <3>1, <3>2
  <2>. QED
    BY <1>4, <1>5, <2>1
<1>7. Taken' = Taken
  BY <1>1 DEF Taken
<1>8. h \in Handle /\ h > pushed
  BY <1>2, BoundAssumption DEF Handle
<1>9. h \notin Taken
  BY <1>8 DEF IInv, SlotInv, Taken
<1>10. \A i \in 1..n : Contents[i] \in 1..pushed
  <2>. SUFFICES ASSUME NEW i \in 1..n PROVE Contents[i] \in 1..pushed
    OBVIOUS
  <2>1. top + i - 1 \in Occupied
    BY <1>2, <1>4 DEF Occupied
  <2>. QED
    BY <1>4, <2>1 DEF IInv, SlotInv
<1>11. h \notin Abstract!InDeque
  BY <1>2, <1>4, <1>8, <1>10 DEF Abstract!InDeque
<1>. QED
  BY <1>6, <1>7, <1>9, <1>11 DEF Abstract!PushBottom
\* Steps that TaskDeque does not see.
LEMMA ReadsAreStutters ==
  ASSUME IInv, UNCHANGED <<memory, buffers, ghosts>>,
         LogicalBottom' = LogicalBottom
  PROVE  UNCHANGED Abstract!vars
<1>1. \A p \in Occupied : Slot(cur, p)' = Slot(cur, p)
  BY DEF Slot, buffers
<1>. QED
  BY <1>1, SameContents DEF memory, ghosts

LEMMA PushIsStep ==
  ASSUME IInv, Push
  PROVE  [Abstract!Next]_(Abstract!vars)
<1>1. CASE PushLoad
  BY <1>1, ReadsAreStutters
     DEF PushLoad, LogicalBottom, PopPending, OwnerBottom, memory
<1>2. CASE PushReserve
  <2>1. /\ opc = "push"
        /\ opc' = "put"
        /\ UNCHANGED <<memory, ghosts>>
    BY <1>2 DEF PushReserve
  <2>2. LogicalBottom' = LogicalBottom
    BY <2>1 DEF LogicalBottom, PopPending, OwnerBottom, memory
  <2>3. CASE UNCHANGED buffers
    BY <2>1, <2>2, <2>3, ReadsAreStutters
  <2>4. CASE Grow
    <3>1. /\ ob = LogicalBottom
          /\ ot <= top
          /\ ob - ot <= size[cur]
      BY <2>1 DEF IInv, PushInv, Pushing, LogicalBottom, PopPending
    <3>2. \A p \in Occupied : p \in ot..ob - 1
      BY <3>1 DEF IInv, TypeOK, Occupied
    <3>3. \A p \in Occupied : Slot(cur, p)' = Slot(cur, p)
      BY <2>4, <3>1, <3>2, GrowFacts DEF IInv
    <3>. QED
      BY <2>1, <2>2, <3>3, SameContents DEF memory, ghosts
  <2>. QED
    BY <1>2, <2>3, <2>4 DEF PushReserve
<1>3. ASSUME opc \in {"put", "putting"}, opc' \in {"putting", "publish"},
             NEW c \in Content, Put(ob, c),
             UNCHANGED <<memory, cur, size, ob, ghosts>>
      PROVE  UNCHANGED Abstract!vars
  <2>1. LogicalBottom' = LogicalBottom
    BY <1>3 DEF LogicalBottom, PopPending, OwnerBottom, memory
  <2>2. /\ ob = LogicalBottom
        /\ ot <= top
        /\ ob - ot <= size[cur] - 1
    BY <1>3 DEF IInv, PushInv, Pushing, LogicalBottom, PopPending
  <2>3. /\ top \in Nat
        /\ ob \in Nat
        /\ ot \in Nat
        /\ cur \in 1..cur
        /\ size[cur] \in Nat \ {0}
    BY DEF IInv, TypeOK
  <2>4. \A p \in Occupied :
          p \in Nat /\ p # ob /\ p - ob < size[cur] /\ ob - p < size[cur]
    BY <2>2, <2>3 DEF Occupied
  <2>5. \A p \in Occupied : Slot(cur, p)' = Slot(cur, p)
    BY <1>3, <2>3, <2>4, PutFacts DEF IInv
  <2>. QED
    BY <1>3, <2>1, <2>5, SameContents DEF memory, ghosts
<1>4. CASE PutBegin
  BY <1>3, <1>4 DEF PutBegin, Content
<1>5. CASE PutEnd
  <2>1. oh \in Content
    BY DEF IInv, TypeOK, Content
  <2>. QED
    BY <1>3, <1>5, <2>1 DEF PutEnd
<1>6. CASE PushPublish
  <2>1. pushed + 1 \in Handle
    BY <1>6, BoundAssumption DEF IInv, TypeOK, PushInv, Pushing, PushPublish, Handle
  <2>. QED
    BY <1>6, <2>1, PublishIsPush DEF Abstract!Next
<1>. QED
  BY <1>1, <1>2, <1>4, <1>5, <1>6 DEF Push

LEMMA PopIsStep ==
  ASSUME IInv, Pop
  PROVE  [Abstract!Next]_(Abstract!vars)
<1>1. CASE PopReserve
  <2>1. /\ opc = "idle"
        /\ opc' = "fence"
        /\ Store(OwnerBottom - 1)
        /\ UNCHANGED <<top, bottom, buffers, ghosts>>
    BY <1>1 DEF PopReserve
  <2>2. OwnerBottom \in Nat /\ LogicalBottom = OwnerBottom
    BY <2>1, BottomType DEF IInv, LogicalBottom, PopPending
  <2>3. OwnerBottom - 1 \in Nat
    BY <2>2 DEF IInv, TypeOK, IndexInv
  <2>4. LogicalBottom' = LogicalBottom
    BY <2>1, <2>2, <2>3, StoreFacts DEF IInv, LogicalBottom, PopPending
  <2>5. \A p \in Occupied : Slot(cur, p)' = Slot(cur, p)
    BY <2>1 DEF Slot, buffers
  <2>. QED
    BY <2>1, <2>4, <2>5, SameContents DEF ghosts
<1>2. CASE PopLoadTop
  <2>1. /\ opc = "fence"
        /\ UNCHANGED <<memory, buffers, pushed>>
        /\ ob \in Nat
        /\ cur \in 1..cur
    BY <1>2 DEF PopLoadTop, Fence, IInv, TypeOK
  <2>2. LogicalBottom = ob + 1 /\ ob = OwnerBottom /\ OwnerBottom' = OwnerBottom
    BY <2>1 DEF IInv, PopInv, PopPending, LogicalBottom, OwnerBottom, memory
  <2>3. CASE top < ob /\ Take(Slot(cur, ob)) /\ OwnerReturns
    <3>. DEFINE h == Slot(cur, ob)
    <3>1. h \in Content
      BY <2>1, SlotType DEF IInv
    <3>2. LogicalBottom' = LogicalBottom - 1
      BY <2>1, <2>2, <2>3 DEF OwnerReturns, LogicalBottom, PopPending
    <3>3. top < LogicalBottom /\ h = Slot(cur, LogicalBottom - 1)
      BY <2>1, <2>2, <2>3 DEF IInv, TypeOK
    <3>. HIDE DEF h
    <3>4. Abstract!PopBottom
      BY <2>1, <2>3, <3>1, <3>2, <3>3, TakeBottom DEF h, memory, buffers
    <3>. QED
      BY <3>4 DEF Abstract!Next
  <2>4. CASE opc' \in {"race", "restore"} /\ UNCHANGED takes
    <3>1. LogicalBottom' = LogicalBottom
      BY <2>1, <2>2, <2>4 DEF LogicalBottom, PopPending
    <3>. QED
      BY <2>1, <2>4, <3>1, ReadsAreStutters DEF ghosts
  <2>. QED
    BY <1>2, <2>3, <2>4 DEF PopLoadTop, Empty
<1>3. CASE PopCas
  <2>1. /\ opc = "race"
        /\ opc' = "restore"
        /\ UNCHANGED <<bottom, storeBuffer, buffers, pushed>>
    BY <1>3 DEF PopCas
  <2>2. /\ LogicalBottom = ob + 1
        /\ LogicalBottom' = LogicalBottom
        /\ ot = ob
        /\ oh = Slot(cur, ob)
        /\ ob \in Nat
    BY <2>1 DEF IInv, TypeOK, PopInv, PopPending, LogicalBottom, OwnerBottom
  <2>3. CASE top = ot
    <3>1. top' = top + 1 /\ Take(oh)
      BY <1>3, <2>3 DEF PopCas
    <3>2. oh \in Content
      BY DEF IInv, TypeOK, Content
    <3>3. top < LogicalBottom /\ oh = Slot(cur, top)
      BY <2>2, <2>3
    <3>4. Abstract!Steal
      BY <2>1, <2>2, <3>1, <3>2, <3>3, TakeTop DEF buffers
    <3>. QED
      BY <3>4 DEF Abstract!Next
  <2>4. CASE top # ot
    <3>1. UNCHANGED <<memory, ghosts>>
      BY <1>3, <2>1, <2>4 DEF PopCas, memory, ghosts
    <3>. QED
      BY <2>1, <2>2, <3>1, ReadsAreStutters
  <2>. QED
    BY <2>3, <2>4
<1>4. CASE PopRestore
  <2>1. /\ opc = "restore"
        /\ opc' = "idle"
        /\ Store(ob + 1)
        /\ ob + 1 \in Nat
        /\ UNCHANGED <<top, bottom, buffers, ghosts>>
    BY <1>4 DEF PopRestore, Restore, OwnerReturns, IInv, TypeOK
  <2>2. LogicalBottom = ob + 1
    BY <2>1 DEF IInv, PopInv, PopPending, LogicalBottom
  <2>3. LogicalBottom' = LogicalBottom
    BY <2>1, <2>2, StoreFacts DEF IInv, LogicalBottom, PopPending
  <2>4. \A p \in Occupied : Slot(cur, p)' = Slot(cur, p)
    BY <2>1 DEF Slot, buffers
  <2>. QED
    BY <2>1, <2>3, <2>4, SameContents DEF ghosts
<1>. QED
  BY <1>1, <1>2, <1>3, <1>4 DEF Pop

LEMMA StealIsStep ==
  ASSUME IInv, NEW t \in Thieves, Steal(t)
  PROVE  [Abstract!Next]_(Abstract!vars)
<1>1. UNCHANGED owner
  BY DEF Steal, StealLoadTop, StealLoadBottom, StealLoadBuffer, StealGet,
     StealGot, StealCas
<1>2. CASE ~StealCas(t)
  <2>1. UNCHANGED <<memory, buffers, ghosts>>
    BY <1>2 DEF Steal, StealLoadTop, StealLoadBottom, StealLoadBuffer, StealGet,
       StealGot
  <2>2. LogicalBottom' = LogicalBottom
    BY <1>1, <2>1 DEF LogicalBottom, PopPending, OwnerBottom, memory, owner
  <2>. QED
    BY <2>1, <2>2, ReadsAreStutters
<1>3. CASE StealCas(t)
  <2>1. /\ tpc[t] = "cas"
        /\ UNCHANGED <<bottom, storeBuffer, buffers, pushed>>
    BY <1>3 DEF StealCas
  <2>2. LogicalBottom' = LogicalBottom
    BY <1>1, <2>1 DEF LogicalBottom, PopPending, OwnerBottom, owner
  <2>3. CASE top = tt[t]
    <3>. DEFINE h == th[t]
    <3>1. top' = top + 1 /\ Take(h)
      BY <1>3, <2>3 DEF StealCas
    <3>2. h \in Content
      BY DEF IInv, TypeOK
    <3>3. top < LogicalBottom /\ h = Slot(cur, top)
      BY <2>1, <2>3 DEF IInv, ThiefInv, TrustedThief
    <3>. HIDE DEF h
    <3>4. Abstract!Steal
      BY <2>1, <2>2, <3>1, <3>2, <3>3, TakeTop DEF buffers
    <3>. QED
      BY <3>4 DEF Abstract!Next
  <2>4. CASE top # tt[t]
    <3>1. UNCHANGED <<memory, ghosts>>
      BY <1>3, <2>1, <2>4 DEF StealCas, memory, ghosts
    <3>. QED
      BY <2>1, <2>2, <3>1, ReadsAreStutters
  <2>. QED
    BY <2>3, <2>4
<1>. QED
  BY <1>2, <1>3

LEMMA DrainIsStutter ==
  ASSUME IInv, Drain
  PROVE  UNCHANGED Abstract!vars
<1>1. \A p \in Occupied : Slot(cur, p)' = Slot(cur, p)
  BY DEF Drain, Slot, buffers
<1>. QED
  BY <1>1, DrainFacts, SameContents DEF IInv, Drain, ghosts

LEMMA DestructIsStutter ==
  ASSUME IInv, Destruct
  PROVE  UNCHANGED Abstract!vars
<1>1. \A p \in Occupied : Slot(cur, p)' = Slot(cur, p)
  BY DEF Destruct, Slot
<1>2. LogicalBottom' = LogicalBottom
  BY DEF Destruct, LogicalBottom, PopPending, OwnerBottom, memory, owner
<1>. QED
  BY <1>1, <1>2, SameContents DEF Destruct, memory, ghosts

LEMMA InitIsInit ==
  ASSUME Init
  PROVE  Abstract!Init
<1>1. LogicalBottom = 1 /\ top = 1
  BY DEF Init, LogicalBottom, PopPending, OwnerBottom
<1>2. Contents = <<>>
  BY <1>1 DEF Contents
<1>3. Taken = {}
  BY DEF Init, Taken
<1>. QED
  BY <1>2, <1>3 DEF Abstract!Init

\* Every behaviour of the lock-free deque, seen through its contents and the
\* handles it gave out, is one of the mutex-protected deque.
THEOREM Refinement == Spec => ImplementsTaskDeque
<1>1. Init => Abstract!Init
  BY InitIsInit
<1>2. IInv /\ [Next]_vars => [Abstract!Next]_(Abstract!vars)
  <2>. SUFFICES ASSUME IInv, [Next]_vars PROVE [Abstract!Next]_(Abstract!vars)
    OBVIOUS
  <2>1. CASE UNCHANGED vars
    <3>1. LogicalBottom' = LogicalBottom
      BY <2>1 DEF vars, LogicalBottom, PopPending, OwnerBottom, memory, owner
    <3>. QED
      BY <2>1, <3>1, ReadsAreStutters DEF vars
  <2>. QED
    BY <2>1, PushIsStep, PopIsStep, StealIsStep, DrainIsStutter,
       DestructIsStutter DEF Next
<1>. QED
  BY <1>1, <1>2, Invariant, PTL
     DEF Spec, ImplementsTaskDeque, Abstract!Spec
=============================================================================
