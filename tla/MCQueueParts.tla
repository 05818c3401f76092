----------------------------- MODULE MCQueueParts -----------------------------
(***************************************************************************)
(* An instance for TLC of four mechanisms of the queue that share no       *)
(* variable with one another: the free list of blocks, the search for a    *)
(* thread's producer, the way a thread's end is told, and the scan over    *)
(* all producers.  A behaviour is one of a single part, chosen at the      *)
(* start: as the parts do not interact their product would show no more.   *)
(***************************************************************************)
EXTENDS Naturals, TLC

CONSTANTS
  Triple, Pair,        \* three threads; two for the last two parts
  Id,                  \* thread ids for the hash
  Consumer, Queue, Producer,            \* producers and their listeners
  Null, None,
  PoolBlocks,          \* initialBlockPoolSize of FreeList
  HashOf, InitialSize, MaxTables, MaxStarts,   \* of ProducerHash
  MaxPut, MaxTry       \* bounds: MaxEnqueue, MaxDequeue of ConcurrentQueue

\* A hash of three ids: two collide in the first table, but not in the next,
\* and the third is beside them.
SomeCollide ==
  CHOOSE h \in [Id -> {0, 1, InitialSize}] :
    \A t, u \in Id : t # u => h[t] # h[u]

VARIABLES
  part,                \* the mechanism this behaviour is about
  poolIndex, listHead, listNext, refs, should, held, listThread,
  tables, count, resizing, producers, hashInactive, hashThread, own, starts,
  exitTail, exitNext, chain, exitInactive, queueOf, mutex, exitThread, queue,
  user,
  list, tail, head, optimistic, overcommit, consumer, phase, room, drained,
  seen, rivals

listVars == <<poolIndex, listHead, listNext, refs, should, held, listThread>>
hashVars == <<tables, count, resizing, producers, hashInactive, hashThread,
              own, starts>>
exitVars == <<exitTail, exitNext, chain, exitInactive, queueOf, mutex,
              exitThread, queue, user>>
scanVars == <<list, tail, head, optimistic, overcommit, consumer, phase, room,
              drained, seen, rivals>>

List == INSTANCE FreeList WITH
  Thread <- Triple, PoolSize <- PoolBlocks, next <- listNext, thread <- listThread
\* Memory holds two producers; any two names do.
Hash == INSTANCE ProducerHash WITH
  Thread <- Id, Hash <- HashOf, Producer <- Pair,
  inactive <- hashInactive, thread <- hashThread
Exit == INSTANCE ThreadExit WITH
  Thread <- Pair, tail <- exitTail, next <- exitNext,
  inactive <- exitInactive, thread <- exitThread
Scan == INSTANCE ConcurrentQueue WITH
  Thread <- Pair, MaxEnqueue <- MaxPut, MaxDequeue <- MaxTry

ASSUME PartsAssumption ==
  /\ List!PoolAssumption
  /\ Hash!HashAssumption
  /\ Exit!NoneAssumption
  /\ Scan!BoundsAssumption

PartInit ==
  /\ part \in {"list", "hash", "exit", "scan"}
  /\ List!Init /\ Hash!Init /\ Exit!Init /\ Scan!Init

ListStep ==
  /\ part = "list"
  /\ List!Next
  /\ UNCHANGED <<part, hashVars, exitVars, scanVars>>

HashStep ==
  /\ part = "hash"
  /\ Hash!Next
  /\ UNCHANGED <<part, listVars, exitVars, scanVars>>

ExitStep ==
  /\ part = "exit"
  /\ Exit!Next
  /\ UNCHANGED <<part, listVars, hashVars, scanVars>>

ScanStep ==
  /\ part = "scan"
  /\ Scan!Next
  /\ UNCHANGED <<part, listVars, hashVars, exitVars>>

PartNext == ListStep \/ HashStep \/ ExitStep \/ ScanStep

PartSpec ==
  PartInit /\ [][PartNext]_<<part, listVars, hashVars, exitVars, scanVars>>

Symmetry ==
  Permutations(Triple) \cup Permutations(Pair) \cup Permutations(Consumer)

-----------------------------------------------------------------------------
\* The free list never hands one block to two threads and loses none, however
\* often a block is popped and pushed while others look at it.
FreeListSafety == part = "list" => List!Safety

\* A thread finds its own producer, in whatever table, and a producer has one
\* thread; while threads wait for a larger table one of them builds it.
ProducerHashSafety == part = "hash" => Hash!Safety

\* Every search in the first table ends, at a slot that is empty: a quarter of
\* the table stays free.
SearchesEnd == part = "hash" => Hash!FirstTableFree

\* The end of a thread is told to all producers it used and that still exist,
\* as long as no thread has read a listener that was freed.
ThreadExitSafety == part = "exit" => Exit!Safety

\* A dequeue overlooks nothing unless a rival interfered, claims and counts
\* agree, and the pool's destructor gets as many tasks as it made room for.
ConcurrentQueueSafety == part = "scan" => Scan!Safety
=============================================================================
