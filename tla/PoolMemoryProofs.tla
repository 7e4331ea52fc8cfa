-------------------------- MODULE PoolMemoryProofs --------------------------
(***************************************************************************)
(* Proofs about PoolMemory, for any number of threads, clients and puts,   *)
(* any size of a chunk, of a pointer and of a u32: the types, for every    *)
(* order of calls; and for an instance that is initialised by one client   *)
(* at a time, that as long as no realloc fails and no size wraps the array *)
(* holds every task, workers and walks read nothing else, and that no      *)
(* thread outlives releaseAll.                                             *)
(***************************************************************************)
EXTENDS PoolMemory, TLAPS

BlockType == [live : BOOLEAN, size : Nat, stored : SUBSET Nat]

\* A block of memory holds tasks within its size only.
Bounded(heap) ==
  \A b \in 1..Len(heap) : heap[b].stored \subseteq 0..(heap[b].size - 1)

TypeInv == MemTypeOK /\ blocks \in Seq(BlockType)

-----------------------------------------------------------------------------
(* Multiples of a chunk                                                    *)

LEMMA MultipleMod ==
  ASSUME NEW n \in Nat, NEW d \in Nat \ {0}
  PROVE  (n * d) \div d = n /\ (n * d) % d = 0
OBVIOUS

LEMMA DivBounds ==
  ASSUME NEW n \in Nat, NEW d \in Nat \ {0}
  PROVE  /\ n \div d \in Nat /\ n - d * (n \div d) \in 0..(d - 1)
         /\ (n + d) \div d = (n \div d) + 1
OBVIOUS

LEMMA ExactDiv ==
  ASSUME NEW n \in Nat, NEW d \in Nat \ {0}, n % d = 0
  PROVE  n = d * (n \div d)
OBVIOUS

LEMMA SmallMod ==
  ASSUME NEW n \in Nat, NEW m \in Nat, n <= m
  PROVE  n % (m + 1) = n
OBVIOUS

LEMMA TimesMonotone ==
  ASSUME NEW m \in Nat, NEW n \in Nat, NEW d \in Nat \ {0}
  PROVE  m <= n <=> d * m <= d * n
OBVIOUS

LEMMA NextMultiple ==
  ASSUME NEW n \in Nat, NEW d \in Nat \ {0}
  PROVE  LET k == (n + d) \div d
         IN  k \in Nat \ {0} /\ k * d \in Nat /\ n < k * d /\ (k * d) % d = 0
<1>1. PICK q \in Nat : q = n \div d /\ (n + d) \div d = q + 1 /\ n - d * q \in 0..(d - 1)
  BY DivBounds
<1>2. (q + 1) * d \in Nat /\ (q + 1) * d = d * q + d
  OBVIOUS
<1>3. n < (q + 1) * d
  BY <1>1, <1>2
<1>4. ((q + 1) * d) % d = 0
  BY MultipleMod
<1> QED
  BY <1>1, <1>2, <1>3, <1>4

\* Below SafeCount the size in bytes is a u32: it does not wrap.
LEMMA SizeFits ==
  ASSUME NEW n \in Nat, n % REQ_LIST_BUFSIZE = 0, n + 1 <= SafeCount
  PROVE  LET slots == ((n + REQ_LIST_BUFSIZE) \div REQ_LIST_BUFSIZE) * REQ_LIST_BUFSIZE
         IN  NewListBufSize(n) = slots * PtrSize /\ slots * PtrSize \in Nat \ {0}
<1>1. PICK C \in Nat \ {0}, P \in Nat \ {0}, M \in Nat :
        C = REQ_LIST_BUFSIZE /\ P = PtrSize /\ M = MaxU32
  BY MemoryAssumption DEF MemoryAssumption
<1>2. PICK D \in Nat \ {0} : D = C * P
  OBVIOUS
<1>3. PICK m \in Nat : m = M \div D /\ D * m <= M
  <2>1. M \div D \in Nat /\ M - D * (M \div D) \in 0..(D - 1)
    BY DivBounds
  <2>2. D * (M \div D) \in Nat
    BY <2>1
  <2>3. D * (M \div D) <= M
    BY <2>1, <2>2
  <2> QED
    BY <2>1, <2>3
<1>4. PICK q \in Nat : q = n \div C /\ (n + C) \div C = q + 1 /\ n = C * q
  <2>1. n \div C \in Nat /\ (n + C) \div C = (n \div C) + 1
    BY DivBounds
  <2>2. n % C = 0
    BY <1>1
  <2>3. n = C * (n \div C)
    BY <2>2, ExactDiv
  <2> QED
    BY <2>1, <2>3
<1>5. C * q + 1 <= m * C
  BY <1>1, <1>2, <1>3, <1>4 DEF SafeCount
<1>6. q + 1 <= m
  <2>1. ~(C * m <= C * q)
    BY <1>5
  <2> QED
    BY <2>1, TimesMonotone
<1>7. D * (q + 1) <= D * m
  BY <1>6, TimesMonotone
<1>8. PICK s \in Nat \ {0} : s = (q + 1) * C * P
  OBVIOUS
<1>9. s = D * (q + 1)
  BY <1>2, <1>8
<1>10. s \in Nat /\ s <= M
  <2>1. D * m \in Nat /\ D * (q + 1) \in Nat
    OBVIOUS
  <2> QED
    BY <1>3, <1>7, <1>9, <2>1
<1>11. s % (M + 1) = s
  BY <1>10, SmallMod
<1> QED
  BY <1>1, <1>4, <1>8, <1>11 DEF NewListBufSize

-----------------------------------------------------------------------------
(* realloc and the store                                                   *)

LEMMA BlockFields ==
  ASSUME NEW b \in BlockType
  PROVE  b.live \in BOOLEAN /\ b.size \in Nat /\ b.stored \in SUBSET Nat
BY DEF BlockType

LEMMA NewBlock ==
  ASSUME NEW n \in Nat, NEW S \in SUBSET Nat
  PROVE  LET b == Block(n, S)
         IN  b \in BlockType /\ b.size = n /\ b.stored = S /\ b.live
BY DEF Block, BlockType

LEMMA FreeBlock ==
  ASSUME NEW b \in BlockType
  PROVE  LET d == [b EXCEPT !.live = FALSE]
         IN  d \in BlockType /\ d.size = b.size /\ d.stored = b.stored
BY DEF BlockType

LEMMA StoreInBlock ==
  ASSUME NEW b \in BlockType, NEW S \in SUBSET Nat
  PROVE  LET d == [b EXCEPT !.stored = S]
         IN  d \in BlockType /\ d.size = b.size /\ d.stored = S /\ d.live = b.live
BY DEF BlockType

\* Whatever realloc does, no block is forgotten, and none holds a task outside
\* its size.
LEMMA ReallocType ==
  ASSUME TypeInv, NEW bytes \in Nat, NEW o \in Realloc(request_queue, bytes)
  PROVE  /\ o[1] \in Seq(BlockType) /\ Len(blocks) <= Len(o[1]) /\ Bounded(o[1])
         /\ o[2] \in {NULL} \cup DOMAIN o[1]
<1> DEFINE slots == bytes \div PtrSize
           old == IF request_queue = NULL THEN {} ELSE blocks[request_queue].stored
           new == Block(slots, {s \in old : s < slots})
           freed == IF request_queue = NULL THEN blocks
                    ELSE [blocks EXCEPT ![request_queue].live = FALSE]
<1>1. slots \in Nat
  BY DivBounds, MemoryAssumption DEF MemoryAssumption
<1>2. /\ blocks \in Seq(BlockType) /\ Bounded(blocks) /\ Len(blocks) \in Nat
      /\ request_queue # NULL => request_queue \in 1..Len(blocks)
      /\ DOMAIN blocks = 1..Len(blocks)
  BY DEF TypeInv, MemTypeOK, Bounded
<1>3. old \in SUBSET Nat
  BY <1>2, BlockFields
<1>4. new \in BlockType /\ new.stored \subseteq 0..(slots - 1) /\ new.size = slots
  <2> DEFINE kept == {s \in old : s < slots}
  <2> HIDE DEF old, slots
  <2>1. \A s \in kept : s \in old /\ s \in Nat /\ s \in 0..(slots - 1)
    BY <1>1, <1>3
  <2> HIDE DEF kept
  <2>2. Block(slots, kept) \in BlockType /\ Block(slots, kept).stored = kept
        /\ Block(slots, kept).size = slots
    BY <1>1, <2>1, NewBlock
  <2> QED
    BY <2>1, <2>2 DEF kept
<1> HIDE DEF new, old
<1>5. freed \in Seq(BlockType) /\ Len(freed) = Len(blocks) /\ Bounded(freed)
  <2>1. CASE request_queue = NULL
    BY <1>2, <2>1
  <2>2. CASE request_queue # NULL
    <3> DEFINE b == [blocks[request_queue] EXCEPT !.live = FALSE]
    <3>1. b \in BlockType /\ b.stored = blocks[request_queue].stored
          /\ b.size = blocks[request_queue].size
      <4>1. blocks[request_queue] \in BlockType
        BY <1>2, <2>2
      <4> QED
        BY <4>1, FreeBlock
    <3>2. freed = [blocks EXCEPT ![request_queue] = b]
      BY <2>2
    <3> HIDE DEF b, freed
    <3>3. freed \in Seq(BlockType) /\ Len(freed) = Len(blocks)
      BY <1>2, <2>2, <3>1, <3>2
    <3>4. \A i \in 1..Len(blocks) : freed[i] = IF i = request_queue THEN b ELSE blocks[i]
      BY <1>2, <3>2
    <3> QED
      BY <1>2, <2>2, <3>1, <3>3, <3>4 DEF Bounded
  <2> QED
    BY <2>1, <2>2
<1> HIDE DEF freed
<1>6. /\ Append(freed, new) \in Seq(BlockType) /\ Len(Append(freed, new)) = Len(blocks) + 1
      /\ Bounded(Append(freed, new))
  BY <1>1, <1>2, <1>4, <1>5 DEF Bounded
<1>7. ASSUME NEW q \in {request_queue} \ {NULL}
      PROVE  /\ [blocks EXCEPT ![q] = new] \in Seq(BlockType)
             /\ Len([blocks EXCEPT ![q] = new]) = Len(blocks)
             /\ Bounded([blocks EXCEPT ![q] = new])
  BY <1>1, <1>2, <1>4 DEF Bounded
<1>8. \/ o = <<freed, NULL>>
      \/ o = <<Append(freed, new), Len(blocks) + 1>>
      \/ \E q \in {request_queue} \ {NULL} : o = <<[blocks EXCEPT ![q] = new], q>>
      \/ o = <<blocks, NULL>>
  BY DEF Realloc, new, old, freed
<1>9. DOMAIN blocks = 1..Len(blocks) /\ DOMAIN Append(freed, new) = 1..(Len(blocks) + 1)
  BY <1>2, <1>6
<1>10. CASE o = <<freed, NULL>>
  BY <1>2, <1>5, <1>10
<1>11. CASE o = <<Append(freed, new), Len(blocks) + 1>>
  BY <1>2, <1>6, <1>9, <1>11
<1>12. ASSUME NEW q \in {request_queue} \ {NULL}, o = <<[blocks EXCEPT ![q] = new], q>>
       PROVE  /\ o[1] \in Seq(BlockType) /\ Len(blocks) <= Len(o[1]) /\ Bounded(o[1])
              /\ o[2] \in {NULL} \cup DOMAIN o[1]
  <2> DEFINE replaced == [blocks EXCEPT ![q] = new]
  <2>1. replaced \in Seq(BlockType) /\ Len(replaced) = Len(blocks) /\ Bounded(replaced)
    BY <1>7
  <2>2. q \in DOMAIN blocks /\ DOMAIN replaced = DOMAIN blocks
    BY <1>2
  <2> HIDE DEF replaced
  <2>3. o[1] = replaced /\ o[2] = q
    BY <1>12 DEF replaced
  <2> QED
    BY <1>2, <2>1, <2>2, <2>3
<1>13. CASE o = <<blocks, NULL>>
  BY <1>2, <1>13
<1> QED
  BY <1>8, <1>10, <1>11, <1>12, <1>13

\* thread_pool_submit adds one task and forgets no block.
LEMMA StoreType ==
  ASSUME TypeInv, NEW kind \in {"request", "sentinel"}, Store(kind)
  PROVE  /\ blocks' \in Seq(BlockType) /\ Len(blocks) <= Len(blocks') /\ Bounded(blocks')
         /\ request_queue' \in {NULL} \cup DOMAIN blocks'
         /\ failed' \in BOOLEAN /\ (failed => failed')
         /\ tasks' = Append(tasks, kind)
<1>1. /\ blocks \in Seq(BlockType) /\ Bounded(blocks) /\ Len(blocks) \in Nat
      /\ request_queue \in {NULL} \cup DOMAIN blocks
      /\ DOMAIN blocks = 1..Len(blocks) /\ tail \in Nat
  BY DEF TypeInv, MemTypeOK, Bounded, tail
<1>2. NewListBufSize(tail) \in Nat
  <2>1. \A n \in Nat : n % (MaxU32 + 1) \in Nat
    BY MemoryAssumption DEF MemoryAssumption
  <2>2. (tail + REQ_LIST_BUFSIZE) \div REQ_LIST_BUFSIZE \in Nat
    BY <1>1, NextMultiple, MemoryAssumption DEF MemoryAssumption
  <2>3. ((tail + REQ_LIST_BUFSIZE) \div REQ_LIST_BUFSIZE) * REQ_LIST_BUFSIZE * PtrSize \in Nat
    BY <2>2, MemoryAssumption DEF MemoryAssumption
  <2> QED
    BY <2>1, <2>3 DEF NewListBufSize
<1>3. PICK o \in IF NeedsGrowth THEN Realloc(request_queue, NewListBufSize(tail))
                 ELSE {<<blocks, request_queue>>} :
        LET heap == o[1]
            q == IF o[2] = NULL THEN request_queue ELSE o[2]
            room == q # NULL /\ heap[q].live /\ tail < heap[q].size
        IN  /\ blocks' = IF room THEN [heap EXCEPT ![q].stored = @ \cup {tail}] ELSE heap
            /\ request_queue' = q
            /\ failed' = (failed \/ o[2] = NULL)
            /\ tasks' = Append(tasks, kind)
  BY DEF Store
<1> DEFINE heap == o[1]
           q == IF o[2] = NULL THEN request_queue ELSE o[2]
<1>4. /\ heap \in Seq(BlockType) /\ Len(blocks) <= Len(heap) /\ Bounded(heap)
      /\ o[2] \in {NULL} \cup DOMAIN heap
  <2>1. CASE NeedsGrowth
    BY <1>2, <1>3, <2>1, ReallocType
  <2>2. CASE ~NeedsGrowth
    BY <1>1, <1>3, <2>2
  <2> QED
    BY <2>1, <2>2
<1>5. q \in {NULL} \cup DOMAIN heap /\ DOMAIN heap = 1..Len(heap)
  BY <1>1, <1>4
<1>6. blocks' = heap \/ /\ q # NULL /\ tail < heap[q].size
                        /\ blocks' = [heap EXCEPT ![q].stored = @ \cup {tail}]
  BY <1>3
<1>7. request_queue' = q /\ failed' = (failed \/ o[2] = NULL) /\ tasks' = Append(tasks, kind)
  BY <1>3
<1> HIDE DEF heap, q
<1>8. blocks' \in Seq(BlockType) /\ Len(blocks') = Len(heap) /\ Bounded(blocks')
  <2>1. CASE blocks' = heap
    BY <1>4, <2>1
  <2>2. CASE blocks' # heap
    <3> DEFINE b == [heap[q] EXCEPT !.stored = @ \cup {tail}]
    <3>1. q \in 1..Len(heap) /\ heap[q] \in BlockType /\ tail < heap[q].size
          /\ heap[q].stored \subseteq 0..(heap[q].size - 1)
      BY <1>4, <1>5, <1>6, <2>2 DEF Bounded
    <3>2. b \in BlockType /\ b.size = heap[q].size /\ b.stored = heap[q].stored \cup {tail}
      BY <1>1, <3>1 DEF BlockType
    <3>3. b.stored \subseteq 0..(b.size - 1)
      <4> HIDE DEF b
      <4> QED
        BY <1>1, <3>1, <3>2 DEF BlockType
    <3>4. blocks' = [heap EXCEPT ![q] = b]
      BY <1>6, <2>2
    <3> HIDE DEF b
    <3> QED
      BY <1>4, <3>1, <3>2, <3>3, <3>4 DEF Bounded
  <2> QED
    BY <2>1, <2>2
<1> QED
  BY <1>4, <1>5, <1>7, <1>8 DEF TypeInv, MemTypeOK

-----------------------------------------------------------------------------
(* Types                                                                   *)

QueueTypes ==
  /\ blocks \in Seq(BlockType) /\ Bounded(blocks)
  /\ request_queue \in {NULL} \cup 1..Len(blocks)
  /\ tasks \in Seq({"request", "sentinel"}) /\ head \in 0..Len(tasks)
  /\ failed \in BOOLEAN

ThreadTypes ==
  /\ threads \in Seq({"loop", "exited", "lost"})
  /\ thread_pool \in [1..THREAD_POOL_SIZE -> {NULL} \cup 1..Len(threads)]

PCs == {"start", "initQueue", "initThreads", "initDone", "idle", "count", "walk",
        "poison", "join", "released"}

ClientTypes ==
  /\ isInitialized \in BOOLEAN /\ isRunning \in BOOLEAN /\ releasing \in BOOLEAN
  /\ pc \in [Clients -> PCs]
  /\ idx \in [Clients -> Nat] /\ cnt \in [Clients -> Nat]
  /\ ptr \in [Clients -> {NULL} \cup 1..Len(blocks)]

LEMMA TypeParts == TypeInv <=> QueueTypes /\ ThreadTypes /\ ClientTypes
<1>1. ASSUME blocks \in Seq(BlockType)
      PROVE  /\ DOMAIN blocks = 1..Len(blocks)
             /\ \A b \in 1..Len(blocks) : blocks[b].live \in BOOLEAN /\ blocks[b].size \in Nat
  BY <1>1, BlockFields
<1>2. threads \in Seq({"loop", "exited", "lost"}) => DOMAIN threads = 1..Len(threads)
  OBVIOUS
<1> QED
  BY <1>1, <1>2 DEF TypeInv, MemTypeOK, QueueTypes, ThreadTypes, ClientTypes, PCs, Bounded, tail

\* The steps that add a task.
LEMMA StoreTypes ==
  ASSUME TypeInv, NEW kind \in {"request", "sentinel"}, Store(kind), UNCHANGED head
  PROVE  QueueTypes' /\ Len(blocks) <= Len(blocks')
<1>1. QueueTypes
  BY TypeParts
<1>2. /\ blocks' \in Seq(BlockType) /\ Len(blocks) <= Len(blocks') /\ Bounded(blocks')
      /\ request_queue' \in {NULL} \cup DOMAIN blocks'
      /\ failed' \in BOOLEAN /\ tasks' = Append(tasks, kind)
  BY StoreType
<1>3. DOMAIN blocks' = 1..Len(blocks')
  BY <1>2
<1> QED
  BY <1>1, <1>2, <1>3 DEF QueueTypes, Bounded

LEMMA NextTypeInv == TypeInv /\ [MemNext]_memVars => TypeInv'
<1> SUFFICES ASSUME TypeInv, [MemNext]_memVars
             PROVE  TypeInv'
  OBVIOUS
<1>T. QueueTypes /\ ThreadTypes /\ ClientTypes
  BY TypeParts
<1> USE DEF flagVars, queueVars, threadVars, walkVars
<1>1. QueueTypes' /\ Len(blocks) <= Len(blocks')
  <2> USE DEF QueueTypes
  <2>0. CASE UNCHANGED <<queueVars, head>>
    BY <1>T, <2>0 DEF Bounded
  <2>1. ASSUME NEW c \in Clients, Put(c)
        PROVE  QueueTypes' /\ Len(blocks) <= Len(blocks')
    BY <2>1, StoreTypes DEF Put
  <2>2. ASSUME NEW c \in Clients, Poison(c)
        PROVE  QueueTypes' /\ Len(blocks) <= Len(blocks')
    <3>1. Store("sentinel") \/ UNCHANGED queueVars
      BY <2>2 DEF Poison
    <3>2. UNCHANGED head
      BY <2>2 DEF Poison
    <3> QED
      BY <2>0, <3>1, <3>2, StoreTypes
  <2>3. ASSUME NEW c \in Clients, InitQueue(c)
        PROVE  QueueTypes' /\ Len(blocks) <= Len(blocks')
    <3> DEFINE b == Block(REQ_LIST_BUFSIZE, {})
    <3>1. b \in BlockType /\ b.stored = {}
      BY NewBlock, MemoryAssumption DEF MemoryAssumption
    <3>2. CASE UNCHANGED blocks /\ request_queue' = NULL
      BY <1>T, <2>3, <3>2 DEF InitQueue, Bounded
    <3>3. CASE blocks' = Append(blocks, b) /\ request_queue' = Len(blocks')
      <4> HIDE DEF b
      <4>1. blocks' \in Seq(BlockType) /\ Len(blocks') = Len(blocks) + 1 /\ Bounded(blocks')
        BY <1>T, <3>1, <3>3 DEF Bounded
      <4>2. UNCHANGED <<tasks, head, failed>>
        BY <2>3 DEF InitQueue
      <4> QED
        BY <1>T, <3>3, <4>1, <4>2
    <3> QED
      BY <2>3, <3>2, <3>3 DEF InitQueue
  <2>4. ASSUME NEW t \in DOMAIN threads, Take(t)
        PROVE  QueueTypes' /\ Len(blocks) <= Len(blocks')
    BY <1>T, <2>4 DEF Take, NotEmpty, tail, Bounded
  <2>5. ASSUME NEW c \in Clients,
               \/ GetInstance(c) \/ InitThread(c) \/ InitDone(c)
               \/ WalkBegin(c) \/ WalkCount(c) \/ WalkNext(c) \/ Release(c) \/ Join(c)
        PROVE  UNCHANGED <<queueVars, head>>
    BY <2>5 DEF GetInstance, InitThread, InitDone, WalkBegin, WalkCount, WalkNext, Release, Join
  <2>6. CASE UNCHANGED memVars
    BY <2>0, <2>6 DEF memVars
  <2> QED
    BY <2>0, <2>1, <2>2, <2>3, <2>4, <2>5, <2>6 DEF MemNext
<1>2. ThreadTypes'
  <2> USE DEF ThreadTypes
  <2>1. ASSUME NEW c \in Clients, InitThread(c)
        PROVE  ThreadTypes'
    <3>1. threads' = Append(threads, "loop")
      BY <2>1 DEF InitThread
    <3>2. /\ threads' \in Seq({"loop", "exited", "lost"}) /\ Len(threads') = Len(threads) + 1
          /\ Len(threads) \in Nat
      BY <1>T, <3>1
    <3>3. thread_pool' = [thread_pool EXCEPT ![idx[c]] = Len(threads')]
      BY <2>1 DEF InitThread
    <3>4. thread_pool \in [1..THREAD_POOL_SIZE -> {NULL} \cup 1..Len(threads')]
      BY <1>T, <3>2
    <3>5. Len(threads') \in {NULL} \cup 1..Len(threads')
      BY <3>2
    <3>6. thread_pool' \in [1..THREAD_POOL_SIZE -> {NULL} \cup 1..Len(threads')]
      BY <3>3, <3>4, <3>5
    <3> QED
      BY <3>2, <3>6
  <2>2. ASSUME NEW t \in DOMAIN threads, Take(t)
        PROVE  ThreadTypes'
    BY <1>T, <2>2 DEF Take
  <2>3. ASSUME NEW c \in Clients,
               \/ GetInstance(c) \/ InitQueue(c) \/ InitDone(c) \/ Put(c) \/ WalkBegin(c)
               \/ WalkCount(c) \/ WalkNext(c) \/ Release(c) \/ Poison(c) \/ Join(c)
        PROVE  UNCHANGED threadVars
    BY <2>3 DEF GetInstance, InitQueue, InitDone, Put, WalkBegin, WalkCount, WalkNext, Release,
                Poison, Join
  <2>4. CASE UNCHANGED threadVars
    BY <1>T, <2>4
  <2> QED
    BY <2>1, <2>2, <2>3, <2>4 DEF MemNext, memVars
<1>3. ClientTypes'
  <2> USE DEF ClientTypes, Goes, Round
  <2>T. /\ Len(blocks) \in Nat /\ Len(blocks') \in Nat /\ tail \in Nat
        /\ ptr \in [Clients -> {NULL} \cup 1..Len(blocks')]
        /\ request_queue \in {NULL} \cup 1..Len(blocks')
    BY <1>T, <1>1 DEF QueueTypes, tail
  <2>C. /\ pc \in [Clients -> PCs] /\ idx \in [Clients -> Nat] /\ cnt \in [Clients -> Nat]
        /\ isInitialized \in BOOLEAN /\ isRunning \in BOOLEAN /\ releasing \in BOOLEAN
    BY <1>T
  \* Where a client goes is a place, and what it counts is a number.
  <2>G. ASSUME NEW c \in Clients, NEW from, NEW to \in PCs, Goes(c, from, to)
        PROVE  pc' \in [Clients -> PCs]
    BY <2>C, <2>G
  <2>R. ASSUME NEW c \in Clients, NEW loop \in PCs, NEW rounds, NEW after \in PCs,
               Round(c, loop, rounds, after)
        PROVE  pc' \in [Clients -> PCs] /\ idx' \in [Clients -> Nat]
    <3>1. Goes(c, loop, loop) \/ Goes(c, loop, after)
      BY <2>R
    <3> QED
      BY <2>C, <2>R, <2>G, <3>1
  <2>P. {"start", "initQueue", "initThreads", "initDone", "idle", "count", "walk", "poison",
         "join", "released"} \subseteq PCs
    BY DEF PCs
  <2> HIDE DEF Goes, Round
  <2>1. ASSUME NEW c \in Clients, GetInstance(c) \/ InitDone(c)
        PROVE  ClientTypes'
    <3>1. \/ Goes(c, "start", "idle") \/ Goes(c, "start", "initQueue")
          \/ Goes(c, "initDone", "idle")
      BY <2>1 DEF GetInstance, InitDone
    <3>2. pc' \in [Clients -> PCs]
      BY <2>G, <2>P, <3>1
    <3> QED
      BY <2>1, <2>T, <2>C, <3>2 DEF GetInstance, InitDone
  <2>2. ASSUME NEW c \in Clients, InitQueue(c)
        PROVE  ClientTypes'
    <3>1. pc' \in [Clients -> PCs] /\ idx' \in [Clients -> Nat]
      BY <2>2, <2>C, <2>G, <2>P DEF InitQueue
    <3> QED
      BY <2>2, <2>T, <2>C, <3>1 DEF InitQueue
  <2>3. ASSUME NEW c \in Clients, InitThread(c) \/ WalkNext(c) \/ Join(c)
        PROVE  ClientTypes'
    <3>1. \/ Round(c, "initThreads", THREAD_POOL_SIZE, "initDone")
          \/ Round(c, "walk", WalkRounds(c), "idle")
          \/ Round(c, "join", Joins, "released")
      BY <2>3 DEF InitThread, WalkNext, Join
    <3>2. pc' \in [Clients -> PCs] /\ idx' \in [Clients -> Nat]
      BY <2>R, <2>P, <3>1
    <3> QED
      BY <2>3, <2>T, <2>C, <3>2 DEF InitThread, WalkNext, Join
  <2>4. ASSUME NEW c \in Clients, Put(c)
        PROVE  ClientTypes'
    BY <2>4, <2>T, <2>C DEF Put
  <2>5. ASSUME NEW c \in Clients, WalkBegin(c)
        PROVE  ClientTypes'
    <3>1. pc' \in [Clients -> PCs]
      BY <2>5, <2>G, <2>P DEF WalkBegin
    <3> QED
      BY <2>5, <2>T, <2>C, <3>1 DEF WalkBegin
  <2>6. ASSUME NEW c \in Clients, WalkCount(c)
        PROVE  ClientTypes'
    <3>1. Goes(c, "count", "idle") \/ Goes(c, "count", "walk")
      BY <2>6 DEF WalkCount
    <3>2. pc' \in [Clients -> PCs]
      BY <2>G, <2>P, <3>1
    <3> QED
      BY <2>6, <2>T, <2>C, <3>2 DEF WalkCount
  <2>7. ASSUME NEW c \in Clients, Release(c)
        PROVE  ClientTypes'
    <3>1. pc' \in [Clients -> PCs]
      BY <2>7, <2>G, <2>P DEF Release
    <3> QED
      BY <2>7, <2>T, <2>C, <3>1 DEF Release
  <2>8. ASSUME NEW c \in Clients, Poison(c)
        PROVE  ClientTypes'
    <3>1. pc' \in [Clients -> PCs]
      BY <2>8, <2>C, <2>P DEF Poison
    <3>2. idx' \in [Clients -> Nat]
      BY <2>8, <2>C DEF Poison
    <3> QED
      BY <2>8, <2>T, <2>C, <3>1, <3>2 DEF Poison
  <2>9. ASSUME NEW t \in DOMAIN threads, Take(t)
        PROVE  ClientTypes'
    BY <2>9, <2>T, <2>C DEF Take
  <2>10. CASE UNCHANGED memVars
    BY <2>10, <2>T, <2>C DEF memVars
  <2> QED
    BY <2>1, <2>2, <2>3, <2>4, <2>5, <2>6, <2>7, <2>8, <2>9, <2>10 DEF MemNext
<1>4. (QueueTypes /\ ThreadTypes /\ ClientTypes)' => TypeInv'
  BY TypeParts, PTL
<1> QED
  BY <1>1, <1>2, <1>3, <1>4

LEMMA InitTypeInv == MemInit => TypeInv
<1> SUFFICES ASSUME MemInit
             PROVE  TypeInv
  OBVIOUS
<1>1. QueueTypes
  <2>1. blocks = <<>> /\ tasks = <<>> /\ head = 0 /\ request_queue = NULL /\ failed = FALSE
    BY DEF MemInit
  <2>2. Bounded(blocks)
    BY <2>1 DEF Bounded
  <2>3. blocks \in Seq(BlockType) /\ tasks \in Seq({"request", "sentinel"}) /\ Len(tasks) = 0
    BY <2>1
  <2>4. head \in 0..Len(tasks)
    BY <2>1, <2>3
  <2>6. failed \in BOOLEAN
    BY <2>1
  <2>5. request_queue \in {NULL} \cup 1..Len(blocks)
    BY <2>1
  <2> QED
    BY <2>2, <2>3, <2>4, <2>5, <2>6 DEF QueueTypes
<1>2. ThreadTypes
  BY DEF MemInit, ThreadTypes
<1>3. ClientTypes
  BY DEF MemInit, ClientTypes, PCs
<1> QED
  BY <1>1, <1>2, <1>3, TypeParts

\* Every variable keeps its type, whatever malloc and realloc do and however many
\* clients initialise at once: no block holds a task outside its size, and no more
\* tasks are taken than were submitted.
THEOREM MemTypeCorrect == MemSpec => []MemTypeOK
<1>1. TypeInv => MemTypeOK
  BY DEF TypeInv
<1> QED
  BY InitTypeInv, NextTypeInv, <1>1, PTL DEF MemSpec

-----------------------------------------------------------------------------
(* The single instance, asked for by one client at a time                  *)

\* One client initialises, and before it is done nobody uses the pool.
InstanceInv ==
  /\ \A c, d \in Clients : Initialising(c) /\ Initialising(d) => c = d
  /\ \A c \in Clients : Initialising(c) => ~isInitialized
  /\ ~isInitialized => \A c \in Clients : pc[c] = "start" \/ Initialising(c)
  /\ ~isInitialized => tasks = <<>> /\ ~releasing

\* thread_pool_init creates the threads once, and notes each.
ThreadsInv ==
  /\ Len(threads) <= THREAD_POOL_SIZE
  /\ \A i \in 1..Len(threads) : thread_pool[i] = i
  /\ \A c \in Clients :
       /\ pc[c] = "initQueue" => Len(threads) = 0
       /\ pc[c] = "initThreads" => idx[c] = Len(threads) + 1 /\ idx[c] <= THREAD_POOL_SIZE
       /\ pc[c] = "initDone" => Len(threads) = THREAD_POOL_SIZE
  /\ isInitialized => Len(threads) = THREAD_POOL_SIZE
  /\ ~isInitialized /\ (\A c \in Clients : ~Initialising(c)) => Len(threads) = 0

\* A pool that releases its threads does not run; it alone has sentinels.
StopInv ==
  /\ releasing => isInitialized /\ ~isRunning
  /\ \A c \in Clients : pc[c] \in {"poison", "join", "released"} => releasing
  /\ \A s \in 1..Len(tasks) : tasks[s] = "sentinel" => releasing

\* Where the step of client c takes it, and that nobody else moves.
Moves(c, to) == pc' = [pc EXCEPT ![c] = to]

LEMMA Moved ==
  ASSUME TypeInv, NEW c \in Clients, NEW to, Moves(c, to)
  PROVE  \A d \in Clients : pc'[d] = IF d = c THEN to ELSE pc[d]
BY TypeParts DEF Moves, ClientTypes

LEMMA InstanceStep ==
  ASSUME SerialInit, TypeInv, InstanceInv, [MemNext]_memVars
  PROVE  InstanceInv'
<1> USE DEF InstanceInv, Initialising, Goes, Moves
<1>I. isInitialized \in BOOLEAN
  BY TypeParts DEF ClientTypes
<1>1. ASSUME NEW c \in Clients, GetInstance(c)
      PROVE  InstanceInv'
  <2>1. /\ \A d \in Clients : ~Initialising(d)
        /\ pc[c] = "start" /\ UNCHANGED <<isInitialized, tasks, releasing>>
    BY <1>1 DEF GetInstance, flagVars, queueVars
  <2>2. /\ isInitialized => Moves(c, "idle")
        /\ ~isInitialized => Moves(c, "initQueue")
    BY <1>1 DEF GetInstance
  <2> QED
    BY <1>I, <2>1, <2>2, Moved
<1>2. ASSUME NEW c \in Clients, InitQueue(c) \/ InitThread(c)
      PROVE  InstanceInv'
  <2>1. Initialising(c) /\ UNCHANGED <<isInitialized, tasks, releasing>>
    BY <1>2 DEF InitQueue, InitThread, Round, flagVars, queueVars
  <2>2. Moves(c, "initThreads") \/ Moves(c, "initDone")
    BY <1>2 DEF InitQueue, InitThread, Round
  <2> QED
    BY <2>1, <2>2, Moved
<1>3. ASSUME NEW c \in Clients, InitDone(c)
      PROVE  InstanceInv'
  <2>1. Initialising(c) /\ isInitialized' = TRUE /\ Moves(c, "idle")
    BY <1>3 DEF InitDone
  <2>2. \A d \in Clients : pc'[d] = IF d = c THEN "idle" ELSE pc[d]
    BY <2>1, TypeParts DEF ClientTypes
  <2>3. \A d \in Clients : d # c => ~Initialising(d)
    BY <2>1
  <2> QED
    BY <2>1, <2>2, <2>3
<1>4. ASSUME NEW c \in Clients,
             \/ Put(c) \/ WalkBegin(c) \/ WalkCount(c) \/ WalkNext(c)
             \/ Release(c) \/ Poison(c) \/ Join(c)
      PROVE  InstanceInv'
  <2>1. pc[c] \in {"idle", "count", "walk", "poison", "join"} /\ UNCHANGED isInitialized
    BY <1>4 DEF Put, WalkBegin, WalkCount, WalkNext, Release, Poison, Join, Round, flagVars
  <2>2. \/ UNCHANGED pc
        \/ \E to \in {"idle", "count", "walk", "poison", "join", "released"} : Moves(c, to)
    BY <1>4 DEF Put, WalkBegin, WalkCount, WalkNext, Release, Poison, Join, Round
  <2>3. isInitialized /\ ~Initialising(c)
    BY <2>1
  <2> QED
    BY <2>1, <2>2, <2>3, Moved
<1>5. ASSUME NEW t \in DOMAIN threads, Take(t)
      PROVE  InstanceInv'
  BY <1>5 DEF Take, flagVars, queueVars
<1>6. CASE UNCHANGED memVars
  BY <1>6 DEF memVars, flagVars, queueVars
<1> QED
  BY <1>1, <1>2, <1>3, <1>4, <1>5, <1>6 DEF MemNext

LEMMA ThreadsStep ==
  ASSUME SerialInit, TypeInv, InstanceInv, ThreadsInv, [MemNext]_memVars
  PROVE  ThreadsInv'
<1> USE DEF ThreadsInv, Initialising, Goes, Moves
<1>T. /\ Len(threads) \in Nat /\ idx \in [Clients -> Nat] /\ isInitialized \in BOOLEAN
      /\ thread_pool \in [1..THREAD_POOL_SIZE -> Nat] /\ THREAD_POOL_SIZE \in Nat \ {0}
      /\ threads \in Seq({"loop", "exited", "lost"})
  BY TypeParts, MemoryAssumption DEF ClientTypes, ThreadTypes, MemoryAssumption, NULL
<1>1. ASSUME NEW c \in Clients, GetInstance(c)
      PROVE  ThreadsInv'
  <2>1. /\ \A d \in Clients : ~Initialising(d)
        /\ pc[c] = "start" /\ UNCHANGED <<isInitialized, idx, threads, thread_pool>>
    BY <1>1 DEF GetInstance, flagVars, threadVars
  <2>2. /\ isInitialized => Moves(c, "idle")
        /\ ~isInitialized => Moves(c, "initQueue")
    BY <1>1 DEF GetInstance
  <2>5. \A d \in Clients : d # c => pc'[d] = pc[d]
    <3> HIDE DEF Moves, ThreadsInv, Goes, Initialising
    <3> QED
      BY <2>2, <1>T, Moved
  <2>6. pc'[c] = IF isInitialized THEN "idle" ELSE "initQueue"
    <3> HIDE DEF Moves, ThreadsInv, Goes, Initialising
    <3> QED
      BY <2>2, <1>T, Moved
  <2>3. \A d \in Clients : pc'[d] \notin {"initThreads", "initDone"}
    BY <2>1, <2>5, <2>6
  <2>4. ASSUME NEW d \in Clients, pc'[d] = "initQueue"
        PROVE  Len(threads) = 0
    <3>1. ~isInitialized
      BY <2>1, <2>4, <2>5, <2>6
    <3> QED
      BY <2>1, <3>1
  <2> QED
    <3>1. ~isInitialized /\ (\A d \in Clients : ~Initialising(d)) => Len(threads) = 0
      OBVIOUS
    <3>2. /\ Len(threads) <= THREAD_POOL_SIZE
          /\ \A i \in 1..Len(threads) : thread_pool[i] = i
          /\ isInitialized => Len(threads) = THREAD_POOL_SIZE
      OBVIOUS
    <3> QED
      BY <2>1, <2>3, <2>4, <3>1, <3>2
<1>2. ASSUME NEW c \in Clients, InitQueue(c)
      PROVE  ThreadsInv'
  <2>1. pc[c] = "initQueue" /\ Moves(c, "initThreads")
        /\ UNCHANGED <<isInitialized, threads, thread_pool>>
    BY <1>2 DEF InitQueue, threadVars
  <2>2. idx'[c] = 1
    BY <1>2, <1>T DEF InitQueue
  <2>3. \A d \in Clients : pc'[d] = "initThreads" => d = c
    BY <2>1, Moved DEF InstanceInv
  <2>4. ~isInitialized
    BY <2>1 DEF InstanceInv
  <2>6. \A d \in Clients : pc'[d] = IF d = c THEN "initThreads" ELSE pc[d]
    <3> HIDE DEF Moves, ThreadsInv, Goes, Initialising
    <3> QED
      BY <2>1, Moved
  <2>7. \A d \in Clients : d # c => ~Initialising(d)
    BY <2>1 DEF InstanceInv
  <2>5. \A d \in Clients : pc'[d] \notin {"initQueue", "initDone"}
    BY <2>6, <2>7
  <2> QED
    BY <1>T, <2>1, <2>2, <2>3, <2>4, <2>5, <2>6
<1>3. ASSUME NEW c \in Clients, InitThread(c)
      PROVE  ThreadsInv'
  <2>1. /\ pc[c] = "initThreads" /\ UNCHANGED isInitialized
        /\ threads' = Append(threads, "loop")
        /\ thread_pool' = [thread_pool EXCEPT ![idx[c]] = Len(threads')]
    BY <1>3 DEF InitThread, Round, flagVars
  <2>2. Moves(c, IF idx[c] = THREAD_POOL_SIZE THEN "initDone" ELSE "initThreads")
    BY <1>3 DEF InitThread, Round
  <2>3. idx'[c] = idx[c] + 1
    BY <1>3, <1>T DEF InitThread, Round
  <2>4. idx[c] = Len(threads) + 1 /\ idx[c] <= THREAD_POOL_SIZE /\ ~isInitialized
    BY <2>1 DEF InstanceInv
  <2>5. Len(threads') = Len(threads) + 1
    BY <1>T, <2>1
  <2>6. \A i \in 1..Len(threads') : thread_pool'[i] = i
    BY <1>T, <2>1, <2>4, <2>5
  <2>7. \A d \in Clients : d # c => ~Initialising(d)
    BY <2>1 DEF InstanceInv
  <2>8. \A d \in Clients :
          pc'[d] = IF d = c THEN IF idx[c] = THREAD_POOL_SIZE THEN "initDone" ELSE "initThreads"
                   ELSE pc[d]
    BY <2>2, TypeParts DEF ClientTypes
  <2>9. /\ pc'[c] \in {"initThreads", "initDone"}
        /\ pc'[c] = "initDone" <=> idx[c] = THREAD_POOL_SIZE
    BY <2>8
  <2>10. \A d \in Clients : d # c => pc'[d] \notin {"initQueue", "initThreads", "initDone"}
    BY <2>7, <2>8
  <2>11. \A d \in Clients :
           /\ pc'[d] # "initQueue"
           /\ pc'[d] = "initThreads" =>
                idx'[d] = Len(threads') + 1 /\ Len(threads') < THREAD_POOL_SIZE
           /\ pc'[d] = "initDone" => Len(threads') = THREAD_POOL_SIZE
    <3> HIDE DEF Moves, ThreadsInv, Goes, Initialising
    <3> QED
      BY <1>T, <2>3, <2>4, <2>5, <2>9, <2>10
  <2> QED
    BY <1>T, <2>1, <2>4, <2>5, <2>6, <2>9, <2>11
<1>4. ASSUME NEW c \in Clients, InitDone(c)
      PROVE  ThreadsInv'
  <2>1. /\ pc[c] = "initDone" /\ isInitialized' = TRUE /\ Moves(c, "idle")
        /\ UNCHANGED <<threads, thread_pool, idx>>
    BY <1>4 DEF InitDone, threadVars
  <2> QED
    BY <1>T, <2>1, Moved
<1>5. ASSUME NEW c \in Clients,
             \/ Put(c) \/ WalkBegin(c) \/ WalkCount(c) \/ WalkNext(c)
             \/ Release(c) \/ Poison(c) \/ Join(c)
      PROVE  ThreadsInv'
  <2>1. /\ pc[c] \in {"idle", "count", "walk", "poison", "join"}
        /\ UNCHANGED <<isInitialized, threads, thread_pool>>
    BY <1>5 DEF Put, WalkBegin, WalkCount, WalkNext, Release, Poison, Join, Round, flagVars,
                threadVars
  <2>2. \/ UNCHANGED pc
        \/ \E to \in {"idle", "count", "walk", "poison", "join", "released"} : Moves(c, to)
    BY <1>5 DEF Put, WalkBegin, WalkCount, WalkNext, Release, Poison, Join, Round
  <2>3. isInitialized
    BY <2>1 DEF InstanceInv
  <2>4. \A d \in Clients : ~Initialising(d)
    BY <2>3 DEF InstanceInv
  <2>5. \A d \in Clients : ~Initialising(d)'
    <3>1. CASE UNCHANGED pc
      BY <2>4, <3>1
    <3>2. ASSUME NEW to \in {"idle", "count", "walk", "poison", "join", "released"},
                 Moves(c, to)
          PROVE  \A d \in Clients : pc'[d] = IF d = c THEN to ELSE pc[d]
      <4> HIDE DEF Moves, ThreadsInv, Goes, Initialising
      <4> QED
        BY <3>2, Moved
    <3> QED
      BY <2>2, <2>4, <3>1, <3>2
  <2> QED
    BY <1>T, <2>1, <2>3, <2>5
<1>6. ASSUME NEW t \in DOMAIN threads, Take(t)
      PROVE  ThreadsInv'
  <2>1. /\ UNCHANGED <<isInitialized, pc, idx, thread_pool>>
        /\ \E r : threads' = [threads EXCEPT ![t] = r]
    BY <1>6 DEF Take, flagVars
  <2>2. Len(threads') = Len(threads)
    BY <1>T, <2>1
  <2> QED
    BY <2>1, <2>2
<1>7. CASE UNCHANGED memVars
  BY <1>7 DEF memVars, flagVars, threadVars
<1> QED
  BY <1>1, <1>2, <1>3, <1>4, <1>5, <1>6, <1>7 DEF MemNext

LEMMA StopStep ==
  ASSUME SerialInit, TypeInv, InstanceInv, StopInv, [MemNext]_memVars
  PROVE  StopInv'
<1> USE DEF StopInv, Goes, Moves
<1>T. /\ releasing \in BOOLEAN /\ isRunning \in BOOLEAN /\ isInitialized \in BOOLEAN
      /\ tasks \in Seq({"request", "sentinel"}) /\ Len(tasks) \in Nat
  BY TypeParts DEF ClientTypes, QueueTypes
<1>A. ASSUME NEW kind \in {"request", "sentinel"}, tasks' = Append(tasks, kind)
      PROVE  \A s \in 1..Len(tasks') :
               \/ tasks'[s] = kind
               \/ s \in 1..Len(tasks) /\ tasks'[s] = tasks[s]
  BY <1>T, <1>A
<1>1. ASSUME NEW c \in Clients, GetInstance(c) \/ WalkBegin(c) \/ WalkCount(c) \/ WalkNext(c)
      PROVE  StopInv'
  <2>1. UNCHANGED <<isInitialized, isRunning, tasks, releasing>>
    BY <1>1 DEF GetInstance, WalkBegin, WalkCount, WalkNext, flagVars, queueVars
  <2>2. \E to \in {"idle", "initQueue", "count", "walk"} : Moves(c, to)
    BY <1>1 DEF GetInstance, WalkBegin, WalkCount, WalkNext, Round
  <2> QED
    BY <2>1, <2>2, Moved
<1>2. ASSUME NEW c \in Clients, InitQueue(c) \/ InitThread(c) \/ InitDone(c)
      PROVE  StopInv'
  <2>1. Initialising(c) /\ UNCHANGED <<tasks, releasing>>
    BY <1>2 DEF InitQueue, InitThread, InitDone, Initialising, Round, queueVars
  <2>2. ~releasing
    BY <2>1 DEF InstanceInv
  <2>3. \E to \in {"initThreads", "initDone", "idle"} : Moves(c, to)
    BY <1>2 DEF InitQueue, InitThread, InitDone, Round
  <2> QED
    BY <2>1, <2>2, <2>3, Moved
<1>3. ASSUME NEW c \in Clients, Put(c)
      PROVE  StopInv'
  <2>1. UNCHANGED <<isInitialized, isRunning, releasing, pc>> /\ tasks' = Append(tasks, "request")
    BY <1>3, StoreType DEF Put, flagVars
  <2> QED
    BY <1>A, <2>1
<1>4. ASSUME NEW c \in Clients, Release(c)
      PROVE  StopInv'
  <2>1. pc[c] = "idle" /\ releasing' = TRUE /\ isRunning' = FALSE /\ UNCHANGED isInitialized
    BY <1>4 DEF Release
  <2>2. isInitialized
    BY <2>1 DEF InstanceInv, Initialising
  <2> QED
    BY <2>1, <2>2
<1>5. ASSUME NEW c \in Clients, Poison(c) \/ Join(c)
      PROVE  StopInv'
  <2>1. pc[c] \in {"poison", "join"} /\ UNCHANGED <<isInitialized, isRunning, releasing>>
    BY <1>5 DEF Poison, Join, Round, flagVars
  <2> QED
    BY <2>1
<1>6. ASSUME NEW t \in DOMAIN threads, Take(t)
      PROVE  StopInv'
  BY <1>6 DEF Take, flagVars, queueVars
<1>7. CASE UNCHANGED memVars
  BY <1>7 DEF memVars, flagVars, queueVars
<1> QED
  BY <1>1, <1>2, <1>3, <1>4, <1>5, <1>6, <1>7 DEF MemNext

-----------------------------------------------------------------------------
(* The array of tasks                                                      *)

\* Block q of a heap holds the first n tasks, and its size is a number of chunks.
Holds(heap, q, n) ==
  /\ q # NULL /\ heap[q].live
  /\ 0..(n - 1) \subseteq heap[q].stored
  /\ n <= heap[q].size /\ heap[q].size % REQ_LIST_BUFSIZE = 0

ArrayInv == MemoryHolds /\ Len(tasks) # 0 => Holds(blocks, request_queue, Len(tasks))

\* A realloc that succeeds returns a block of that size with what fits of the old.
LEMMA ReallocKeeps ==
  ASSUME TypeInv, NEW slots \in Nat \ {0}, NEW bytes \in Nat \ {0}, bytes = slots * PtrSize,
         NEW o \in Realloc(request_queue, bytes), o[2] # NULL
  PROVE  /\ o[2] \in 1..Len(o[1])
         /\ o[1][o[2]].live /\ o[1][o[2]].size = slots
         /\ \A s \in 0..(slots - 1) :
              request_queue # NULL /\ s \in blocks[request_queue].stored
                => s \in o[1][o[2]].stored
<1> DEFINE old == IF request_queue = NULL THEN {} ELSE blocks[request_queue].stored
           new == Block(slots, {s \in old : s < slots})
           freed == IF request_queue = NULL THEN blocks
                    ELSE [blocks EXCEPT ![request_queue].live = FALSE]
<1>1. bytes \div PtrSize = slots
  BY MultipleMod, MemoryAssumption DEF MemoryAssumption
<1>2. /\ blocks \in Seq(BlockType) /\ Len(blocks) \in Nat
      /\ request_queue # NULL => request_queue \in 1..Len(blocks)
  BY TypeParts DEF QueueTypes
<1>3. new.live /\ new.size = slots /\ new.stored = {s \in old : s < slots}
  BY DEF Block
<1>4. freed \in Seq(BlockType) /\ Len(freed) = Len(blocks)
  <2>1. CASE request_queue = NULL
    BY <1>2, <2>1
  <2>2. CASE request_queue # NULL
    <3> DEFINE b == [blocks[request_queue] EXCEPT !.live = FALSE]
    <3>1. b \in BlockType
      <4>1. blocks[request_queue] \in BlockType
        BY <1>2, <2>2
      <4> QED
        BY <4>1, FreeBlock
    <3>2. freed = [blocks EXCEPT ![request_queue] = b]
      BY <2>2
    <3> HIDE DEF b, freed
    <3> QED
      BY <1>2, <2>2, <3>1, <3>2
  <2> QED
    BY <2>1, <2>2
<1>5. new \in BlockType
  <2>1. old \in SUBSET Nat
    BY <1>2, BlockFields
  <2> HIDE DEF old
  <2> QED
    BY <2>1, NewBlock
<1>6. \/ o = <<freed, NULL>>
      \/ o = <<Append(freed, new), Len(blocks) + 1>>
      \/ request_queue # NULL /\ o = <<[blocks EXCEPT ![request_queue] = new], request_queue>>
      \/ o = <<blocks, NULL>>
  BY <1>1 DEF Realloc
<1>7. \A s \in 0..(slots - 1) :
        request_queue # NULL /\ s \in blocks[request_queue].stored => s \in new.stored
  BY <1>3
<1> HIDE DEF new, freed, old
<1>8. o[2] \in 1..Len(o[1]) /\ o[1][o[2]] = new
  <2>1. CASE o = <<Append(freed, new), Len(blocks) + 1>>
    BY <1>2, <1>4, <1>5, <2>1
  <2>2. CASE request_queue # NULL /\ o = <<[blocks EXCEPT ![request_queue] = new], request_queue>>
    <3> DEFINE replaced == [blocks EXCEPT ![request_queue] = new]
    <3>1. replaced \in Seq(BlockType) /\ Len(replaced) = Len(blocks)
          /\ replaced[request_queue] = new
      BY <1>2, <1>5, <2>2
    <3> HIDE DEF replaced
    <3>2. o[1] = replaced /\ o[2] = request_queue
      BY <2>2 DEF replaced
    <3> QED
      BY <1>2, <2>2, <3>1, <3>2
  <2> QED
    BY <1>6, <2>1, <2>2
<1> QED
  BY <1>3, <1>7, <1>8

\* thread_pool_submit keeps every task in its slot and adds the new one.
LEMMA StoreHolds ==
  ASSUME TypeInv, ArrayInv, NEW kind \in {"request", "sentinel"}, Store(kind), MemoryHolds'
  PROVE  Holds(blocks', request_queue', Len(tasks'))
<1> DEFINE n == Len(tasks)
<1>1. /\ blocks \in Seq(BlockType) /\ Bounded(blocks) /\ n \in Nat
      /\ request_queue \in {NULL} \cup 1..Len(blocks)
      /\ tasks' = Append(tasks, kind) /\ Len(tasks') = n + 1 /\ (failed => failed')
      /\ failed \in BOOLEAN
  BY TypeParts, StoreType DEF QueueTypes
<1>2. ~failed' /\ ~failed /\ n + 1 <= SafeCount
  BY <1>1 DEF MemoryHolds, tail
<1>3. SafeCount \in Nat
  <2>1. PICK D \in Nat \ {0} : D = REQ_LIST_BUFSIZE * PtrSize
    BY MemoryAssumption DEF MemoryAssumption
  <2>2. MaxU32 \div D \in Nat
    BY DivBounds, MemoryAssumption DEF MemoryAssumption
  <2> QED
    BY <2>1, <2>2, MemoryAssumption DEF SafeCount, MemoryAssumption
<1>4. MemoryHolds
  BY <1>1, <1>2, <1>3 DEF MemoryHolds, tail
<1> HIDE DEF n
<1>5. PICK o \in IF n % REQ_LIST_BUFSIZE = 0 THEN Realloc(request_queue, NewListBufSize(n))
                 ELSE {<<blocks, request_queue>>} :
        LET heap == o[1]
            q == IF o[2] = NULL THEN request_queue ELSE o[2]
            room == q # NULL /\ heap[q].live /\ n < heap[q].size
        IN  /\ blocks' = IF room THEN [heap EXCEPT ![q].stored = @ \cup {n}] ELSE heap
            /\ request_queue' = q
            /\ failed' = (failed \/ o[2] = NULL)
  BY DEF Store, NeedsGrowth, tail, n
<1>6. o[2] # NULL
  BY <1>2, <1>5
<1>7. /\ o[1] \in Seq(BlockType) /\ o[2] \in 1..Len(o[1]) /\ o[1][o[2]].live
      /\ n < o[1][o[2]].size /\ o[1][o[2]].size % REQ_LIST_BUFSIZE = 0
      /\ 0..(n - 1) \subseteq o[1][o[2]].stored
  <2>1. CASE n % REQ_LIST_BUFSIZE = 0
    <3> DEFINE slots == ((n + REQ_LIST_BUFSIZE) \div REQ_LIST_BUFSIZE) * REQ_LIST_BUFSIZE
               bytes == NewListBufSize(n)
    <3>1. bytes = slots * PtrSize /\ bytes \in Nat \ {0}
      BY <1>1, <1>2, <2>1, SizeFits
    <3>2. slots \in Nat \ {0} /\ n < slots /\ slots % REQ_LIST_BUFSIZE = 0
      <4>1. slots \in Nat /\ n < slots /\ slots % REQ_LIST_BUFSIZE = 0
        BY <1>1, NextMultiple, MemoryAssumption DEF MemoryAssumption
      <4> HIDE DEF slots
      <4> QED
        BY <1>1, <4>1
    <3>3. o \in Realloc(request_queue, bytes)
      BY <2>1
    <3> HIDE DEF slots, bytes
    <3>4. /\ o[2] \in 1..Len(o[1]) /\ o[1][o[2]].live /\ o[1][o[2]].size = slots
          /\ \A s \in 0..(slots - 1) :
               request_queue # NULL /\ s \in blocks[request_queue].stored
                 => s \in o[1][o[2]].stored
      BY <1>6, <3>1, <3>2, <3>3, ReallocKeeps
    <3>5. o[1] \in Seq(BlockType)
      BY <3>1, <3>3, ReallocType
    <3>6. 0..(n - 1) \subseteq o[1][o[2]].stored
      <4>1. CASE n = 0
        BY <4>1
      <4>2. CASE n # 0
        <5>1. request_queue # NULL /\ 0..(n - 1) \subseteq blocks[request_queue].stored
          BY <1>4, <4>2 DEF ArrayInv, Holds, n
        <5>2. \A s \in 0..(n - 1) : s \in 0..(slots - 1)
          BY <1>1, <3>2
        <5> QED
          BY <3>4, <5>1, <5>2
      <4> QED
        BY <4>1, <4>2
    <3> QED
      BY <3>2, <3>4, <3>5, <3>6
  <2>2. CASE n % REQ_LIST_BUFSIZE # 0
    <3>1. o[1] = blocks /\ o[2] = request_queue
      BY <1>5, <2>2
    <3>2. 0 % REQ_LIST_BUFSIZE = 0
      BY MemoryAssumption DEF MemoryAssumption
    <3>3. n # 0
      BY <2>2, <3>2
    <3>4. Holds(blocks, request_queue, n)
      BY <1>4, <3>3 DEF ArrayInv, n
    <3>5. request_queue \in 1..Len(blocks)
      BY <1>1, <3>4 DEF Holds
    <3>6. blocks[request_queue].size \in Nat
      BY <1>1, <3>5, BlockFields
    <3>7. n < blocks[request_queue].size
      BY <1>1, <2>2, <3>4, <3>6 DEF Holds
    <3> QED
      BY <1>1, <3>1, <3>4, <3>5, <3>7 DEF Holds
  <2> QED
    BY <2>1, <2>2
<1> DEFINE heap == o[1]
           q == o[2]
           b == [heap[q] EXCEPT !.stored = @ \cup {n}]
<1>8. blocks' = [heap EXCEPT ![q] = b] /\ request_queue' = q
  BY <1>5, <1>6, <1>7
<1>9. heap \in Seq(BlockType) /\ q \in 1..Len(heap) /\ heap[q] \in BlockType
  BY <1>7
<1>10. b.live /\ b.size = heap[q].size /\ b.stored = heap[q].stored \cup {n}
  BY <1>7, <1>9 DEF BlockType
<1>11. heap[q].size \in Nat
  BY <1>9, BlockFields
<1>12. q # NULL
  BY <1>6
<1> HIDE DEF heap, q, b
<1>13. blocks'[q] = b
  BY <1>8, <1>9
<1>14. 0..n \subseteq b.stored
  BY <1>1, <1>7, <1>10 DEF heap, q
<1>15. n + 1 <= b.size /\ b.size % REQ_LIST_BUFSIZE = 0
  BY <1>1, <1>7, <1>10, <1>11 DEF heap, q
<1>16. Len(tasks') = n + 1 /\ 0..(Len(tasks') - 1) = 0..n
  BY <1>1
<1> QED
  BY <1>8, <1>10, <1>12, <1>13, <1>14, <1>15, <1>16 DEF Holds

\* No step takes a task out of the history, nor forgets that a realloc failed.
LEMMA QueueGrows ==
  ASSUME TypeInv, [MemNext]_memVars
  PROVE  /\ UNCHANGED <<tasks, failed>> \/ (\E kind \in {"request", "sentinel"} : Store(kind))
         /\ Len(tasks) <= Len(tasks') /\ (MemoryHolds' => MemoryHolds)
<1>1. UNCHANGED <<tasks, failed>> \/ (\E kind \in {"request", "sentinel"} : Store(kind))
  BY DEF MemNext, memVars, queueVars, GetInstance, InitQueue, InitThread, InitDone, Put, WalkBegin,
         WalkCount, WalkNext, Release, Poison, Join, Take
<1>2. tasks \in Seq({"request", "sentinel"}) /\ Len(tasks) \in Nat /\ failed \in BOOLEAN
  BY TypeParts DEF QueueTypes
<1>3. SafeCount \in Nat
  <2>1. PICK D \in Nat \ {0} : D = REQ_LIST_BUFSIZE * PtrSize
    BY MemoryAssumption DEF MemoryAssumption
  <2>2. MaxU32 \div D \in Nat
    BY DivBounds, MemoryAssumption DEF MemoryAssumption
  <2> QED
    BY <2>1, <2>2, MemoryAssumption DEF SafeCount, MemoryAssumption
<1>4. CASE UNCHANGED <<tasks, failed>>
  BY <1>2, <1>4 DEF MemoryHolds, tail
<1>5. ASSUME NEW kind \in {"request", "sentinel"}, Store(kind)
      PROVE  Len(tasks) <= Len(tasks') /\ (MemoryHolds' => MemoryHolds)
  <2>1. tasks' = Append(tasks, kind) /\ (failed => failed')
    BY <1>5, StoreType
  <2>2. Len(tasks') = Len(tasks) + 1
    BY <1>2, <2>1
  <2> QED
    BY <1>2, <1>3, <2>1, <2>2 DEF MemoryHolds, tail
<1> QED
  BY <1>1, <1>4, <1>5

LEMMA ArrayStep ==
  ASSUME TypeInv, InstanceInv, ArrayInv, [MemNext]_memVars
  PROVE  ArrayInv'
<1>1. MemoryHolds' => MemoryHolds
  BY QueueGrows
<1>2. CASE UNCHANGED <<queueVars>>
  BY <1>1, <1>2 DEF ArrayInv, queueVars
<1>3. ASSUME NEW kind \in {"request", "sentinel"}, Store(kind)
      PROVE  ArrayInv'
  BY <1>3, StoreHolds DEF ArrayInv
<1>4. ASSUME NEW c \in Clients, InitQueue(c)
      PROVE  ArrayInv'
  <2>1. tasks' = tasks /\ tasks = <<>>
    BY <1>4 DEF InitQueue, InstanceInv, Initialising, Goes
  <2> QED
    BY <2>1 DEF ArrayInv
<1>5. ASSUME NEW c \in Clients, Put(c) \/ Poison(c)
      PROVE  UNCHANGED queueVars \/ (\E kind \in {"request", "sentinel"} : Store(kind))
  BY <1>5 DEF Put, Poison
<1>6. ASSUME NEW c \in Clients,
             \/ GetInstance(c) \/ InitThread(c) \/ InitDone(c) \/ WalkBegin(c) \/ WalkCount(c)
             \/ WalkNext(c) \/ Release(c) \/ Join(c)
      PROVE  UNCHANGED queueVars
  BY <1>6 DEF GetInstance, InitThread, InitDone, WalkBegin, WalkCount, WalkNext, Release, Join
<1>7. ASSUME NEW t \in DOMAIN threads, Take(t)
      PROVE  UNCHANGED queueVars
  BY <1>7 DEF Take
<1> QED
  BY <1>2, <1>3, <1>4, <1>5, <1>6, <1>7 DEF MemNext, memVars

\* What the workers and the walks read of the array they have now.
LEMMA SlotHeld ==
  ASSUME TypeInv, ArrayInv, MemoryHolds, NEW s \in 0..(Len(tasks) - 1)
  PROVE  Slot(request_queue, s) = tasks[s + 1] /\ tasks[s + 1] \in {"request", "sentinel"}
<1>1. tasks \in Seq({"request", "sentinel"}) /\ Len(tasks) \in Nat
  BY TypeParts DEF QueueTypes
<1>2. Holds(blocks, request_queue, Len(tasks))
  BY <1>1 DEF ArrayInv
<1> QED
  BY <1>1, <1>2 DEF Slot, Holds

-----------------------------------------------------------------------------
(* Workers, walks and the join                                             *)

LEMMA WorkersStep ==
  ASSUME TypeInv, ArrayInv, StopInv, WorkersTakeTasks, [MemNext]_memVars
  PROVE  WorkersTakeTasks'
<1> SUFFICES ASSUME MemoryHolds'
             PROVE  \A t \in DOMAIN threads' : threads'[t] # "lost"
  BY DEF WorkersTakeTasks
<1>1. MemoryHolds
  BY QueueGrows
<1>2. threads \in Seq({"loop", "exited", "lost"}) /\ \A t \in DOMAIN threads : threads[t] # "lost"
  BY <1>1, TypeParts DEF ThreadTypes, WorkersTakeTasks
<1>3. ASSUME NEW t \in DOMAIN threads, Take(t)
      PROVE  \A u \in DOMAIN threads' : threads'[u] # "lost"
  <2> DEFINE kind == Slot(request_queue, head)
  <2>1. head \in 0..(Len(tasks) - 1)
    BY <1>3, TypeParts DEF Take, NotEmpty, QueueTypes, tail
  <2>2. kind = tasks[head + 1] /\ kind \in {"request", "sentinel"}
    BY <1>1, <2>1, SlotHeld
  <2>3. kind = "sentinel" => ~isRunning
    <3>1. Len(tasks) \in Nat /\ head + 1 \in 1..Len(tasks)
      BY <2>1, TypeParts DEF QueueTypes
    <3> HIDE DEF kind
    <3> QED
      BY <2>2, <3>1 DEF StopInv
  <2>4. threads' = [threads EXCEPT ![t] =
                      CASE kind = "request" -> "loop"
                        [] kind = "sentinel" /\ ~isRunning -> "exited"
                        [] OTHER -> "lost"]
    BY <1>3 DEF Take
  <2>5. threads' = [threads EXCEPT ![t] = "loop"] \/ threads' = [threads EXCEPT ![t] = "exited"]
    BY <2>2, <2>3, <2>4
  <2> QED
    BY <1>2, <2>5
<1>4. ASSUME NEW c \in Clients, InitThread(c)
      PROVE  \A u \in DOMAIN threads' : threads'[u] # "lost"
  BY <1>2, <1>4 DEF InitThread
<1>5. ASSUME NEW c \in Clients,
             \/ GetInstance(c) \/ InitQueue(c) \/ InitDone(c) \/ Put(c) \/ WalkBegin(c)
             \/ WalkCount(c) \/ WalkNext(c) \/ Release(c) \/ Poison(c) \/ Join(c)
      PROVE  UNCHANGED threads
  BY <1>5 DEF GetInstance, InitQueue, InitDone, Put, WalkBegin, WalkCount, WalkNext, Release,
              Poison, Join, threadVars
<1> QED
  BY <1>2, <1>3, <1>4, <1>5 DEF MemNext, memVars, threadVars

\* A walk goes on within the tasks it counted, which are still in the history.
WalkInv ==
  \A c \in Clients : pc[c] = "walk" => idx[c] \in 1..cnt[c] /\ cnt[c] <= Len(tasks)

LEMMA WalkStep ==
  ASSUME TypeInv, WalkInv, [MemNext]_memVars
  PROVE  WalkInv'
<1> USE DEF WalkInv, Goes, Moves
<1>1. /\ Len(tasks) \in Nat /\ Len(tasks') \in Nat /\ Len(tasks) <= Len(tasks')
      /\ idx \in [Clients -> Nat] /\ cnt \in [Clients -> Nat] /\ pc \in [Clients -> PCs]
  <2>1. TypeInv' /\ (TypeInv' => QueueTypes')
    BY NextTypeInv, TypeParts, PTL
  <2>2. tasks' \in Seq({"request", "sentinel"})
    BY <2>1 DEF QueueTypes
  <2> QED
    BY <2>2, QueueGrows, TypeParts DEF QueueTypes, ClientTypes
\* A client that walks goes on from where it was, and no other step moves it there.
<1>2. ASSUME UNCHANGED cnt,
             \A c \in Clients : pc'[c] = "walk" => pc[c] = "walk" /\ idx'[c] = idx[c]
      PROVE  WalkInv'
  BY <1>1, <1>2
<1>3. ASSUME NEW c \in Clients, WalkCount(c)
      PROVE  WalkInv'
  <2>1. /\ cnt' = [cnt EXCEPT ![c] = Len(tasks)] /\ idx' = [idx EXCEPT ![c] = 1]
        /\ pc' = [pc EXCEPT ![c] = IF Len(tasks) = 0 THEN "idle" ELSE "walk"]
        /\ tasks' = tasks
    BY <1>3 DEF WalkCount, tail, queueVars
  <2> QED
    BY <1>1, <2>1
<1>4. ASSUME NEW c \in Clients, WalkNext(c)
      PROVE  WalkInv'
  <2>1. /\ pc[c] = "walk" /\ UNCHANGED cnt
        /\ pc' = [pc EXCEPT ![c] = IF idx[c] = cnt[c] THEN "idle" ELSE "walk"]
        /\ idx' = [idx EXCEPT ![c] = idx[c] + 1]
    BY <1>4 DEF WalkNext, Round, WalkRounds, walkVars
  <2> QED
    BY <1>1, <2>1
<1>5. ASSUME NEW c \in Clients, GetInstance(c) \/ InitDone(c) \/ Put(c) \/ WalkBegin(c)
      PROVE  WalkInv'
  <2>1. UNCHANGED <<cnt, idx>>
    BY <1>5 DEF GetInstance, InitDone, Put, WalkBegin, walkVars
  <2>2. UNCHANGED pc \/ \E to \in {"idle", "initQueue", "count"} : pc' = [pc EXCEPT ![c] = to]
    BY <1>5 DEF GetInstance, InitDone, Put, WalkBegin
  <2> QED
    BY <1>1, <1>2, <2>1, <2>2
<1>6. ASSUME NEW c \in Clients,
             InitQueue(c) \/ InitThread(c) \/ Release(c) \/ Poison(c) \/ Join(c)
      PROVE  WalkInv'
  <2>1. UNCHANGED cnt /\ \A d \in Clients : d # c => idx'[d] = idx[d]
    BY <1>1, <1>6 DEF InitQueue, InitThread, Release, Poison, Join, Round, walkVars
  <2>2. \E to \in {"initThreads", "initDone", "poison", "join", "released"} :
          pc' = [pc EXCEPT ![c] = to]
    BY <1>6 DEF InitQueue, InitThread, Release, Poison, Join, Round
  <2>3. \A d \in Clients : pc'[d] = "walk" => d # c /\ pc[d] = "walk"
    BY <1>1, <2>2
  <2> QED
    BY <1>2, <2>1, <2>3
<1>7. ASSUME NEW t \in DOMAIN threads, Take(t)
      PROVE  WalkInv'
  BY <1>2, <1>7 DEF Take, walkVars
<1>8. CASE UNCHANGED memVars
  BY <1>2, <1>8 DEF memVars, walkVars
<1> QED
  BY <1>3, <1>4, <1>5, <1>6, <1>7, <1>8 DEF MemNext

\* The threads before the one that releaseAll waits for have ended, and at its
\* end all.
JoinInv ==
  \A c \in Clients :
    /\ pc[c] = "join" =>
         /\ idx[c] \in 1..THREAD_POOL_SIZE
         /\ \A i \in 1..(idx[c] - 1) : threads[i] = "exited"
    /\ pc[c] = "released" => \A i \in 1..THREAD_POOL_SIZE : threads[i] = "exited"

LEMMA JoinStep ==
  ASSUME SerialInit, TypeInv, InstanceInv, ThreadsInv, StopInv, JoinInv, [MemNext]_memVars
  PROVE  JoinInv'
<1> USE DEF JoinInv, Goes, Moves
<1>T. /\ threads \in Seq({"loop", "exited", "lost"}) /\ idx \in [Clients -> Nat]
      /\ pc \in [Clients -> PCs] /\ THREAD_POOL_SIZE \in Nat \ {0}
      /\ releasing \in BOOLEAN /\ isInitialized \in BOOLEAN
  BY TypeParts, MemoryAssumption DEF ThreadTypes, ClientTypes, MemoryAssumption
<1>1. ASSUME NEW c \in Clients, GetInstance(c) \/ WalkBegin(c) \/ Put(c)
      PROVE  JoinInv'
  <2>1. UNCHANGED <<threads, idx>>
    BY <1>1 DEF GetInstance, WalkBegin, Put, threadVars
  <2>2. UNCHANGED pc \/ \E to \in {"idle", "initQueue", "count"} : pc' = [pc EXCEPT ![c] = to]
    BY <1>1 DEF GetInstance, WalkBegin, Put
  <2> QED
    BY <1>T, <2>1, <2>2
<1>2. ASSUME NEW c \in Clients, InitQueue(c) \/ InitThread(c) \/ InitDone(c)
      PROVE  JoinInv'
  <2>1. ~isInitialized
    BY <1>2 DEF InitQueue, InitThread, InitDone, Round, InstanceInv, Initialising
  <2>2. \A d \in Clients : pc[d] \notin {"join", "released"}
    BY <2>1 DEF StopInv
  <2>3. \E to \in {"initThreads", "initDone", "idle"} : pc' = [pc EXCEPT ![c] = to]
    BY <1>2 DEF InitQueue, InitThread, InitDone, Round
  <2> QED
    BY <1>T, <2>2, <2>3
<1>3. ASSUME NEW c \in Clients, WalkCount(c) \/ WalkNext(c) \/ Release(c)
      PROVE  JoinInv'
  <2>1. UNCHANGED threads /\ \A d \in Clients : d # c => idx'[d] = idx[d]
    BY <1>T, <1>3 DEF WalkCount, WalkNext, Release, Round, threadVars
  <2>2. \E to \in {"idle", "walk", "poison"} : pc' = [pc EXCEPT ![c] = to]
    BY <1>3 DEF WalkCount, WalkNext, Release, Round
  <2>3. \A d \in Clients : pc'[d] \in {"join", "released"} => d # c /\ pc'[d] = pc[d]
    BY <1>T, <2>2
  <2> QED
    BY <2>1, <2>3
<1>4. ASSUME NEW c \in Clients, Poison(c)
      PROVE  JoinInv'
  <2>1. UNCHANGED threads /\ \A d \in Clients : d # c => idx'[d] = idx[d]
    BY <1>T, <1>4 DEF Poison, threadVars
  <2>2. pc' = [pc EXCEPT ![c] = IF idx[c] = THREAD_POOL_SIZE THEN "join" ELSE "poison"]
        /\ idx' = [idx EXCEPT ![c] = IF idx[c] = THREAD_POOL_SIZE THEN 1 ELSE @ + 1]
    BY <1>4 DEF Poison
  <2>3. pc'[c] = "join" => idx'[c] = 1
    BY <1>T, <2>2
  <2>4. pc'[c] \in {"join", "poison"} /\ \A d \in Clients : d # c => pc'[d] = pc[d]
    BY <1>T, <2>2
  <2> QED
    BY <1>T, <2>1, <2>3, <2>4
<1>5. ASSUME NEW c \in Clients, Join(c)
      PROVE  JoinInv'
  <2>1. pc[c] = "join" /\ UNCHANGED threads /\ threads[thread_pool[idx[c]]] = "exited"
    BY <1>5 DEF Join, Round, threadVars
  <2>2. pc' = [pc EXCEPT ![c] = IF idx[c] = THREAD_POOL_SIZE THEN "released" ELSE "join"]
        /\ idx' = [idx EXCEPT ![c] = @ + 1]
    BY <1>5 DEF Join, Round, Joins
  <2>3. Len(threads) = THREAD_POOL_SIZE
    BY <2>1 DEF StopInv, ThreadsInv
  <2>4. idx[c] \in 1..THREAD_POOL_SIZE /\ thread_pool[idx[c]] = idx[c]
    BY <2>1, <2>3 DEF ThreadsInv
  <2>5. \A i \in 1..idx[c] : threads[i] = "exited"
    BY <1>T, <2>1, <2>4
  <2>6. idx'[c] = idx[c] + 1 /\ \A d \in Clients : d # c => idx'[d] = idx[d] /\ pc'[d] = pc[d]
    BY <1>T, <2>2
  <2>7. pc'[c] = IF idx[c] = THREAD_POOL_SIZE THEN "released" ELSE "join"
    BY <1>T, <2>2
  <2>8. CASE idx[c] = THREAD_POOL_SIZE
    BY <2>1, <2>5, <2>6, <2>7, <2>8
  <2>9. CASE idx[c] # THREAD_POOL_SIZE
    <3>1. idx'[c] \in 1..THREAD_POOL_SIZE /\ 1..(idx'[c] - 1) = 1..idx[c]
      BY <1>T, <2>4, <2>6, <2>9
    <3> QED
      BY <2>1, <2>5, <2>6, <2>7, <2>9, <3>1
  <2> QED
    BY <2>8, <2>9
<1>6. ASSUME NEW t \in DOMAIN threads, Take(t)
      PROVE  JoinInv'
  <2>1. /\ UNCHANGED <<pc, idx>> /\ threads[t] = "loop"
        /\ \E r : threads' = [threads EXCEPT ![t] = r]
    BY <1>6 DEF Take
  <2>2. \A i : threads[i] = "exited" => threads'[i] = "exited"
    BY <1>T, <2>1
  <2> QED
    BY <2>1, <2>2
<1>7. CASE UNCHANGED memVars
  BY <1>7 DEF memVars, threadVars
<1> QED
  BY <1>1, <1>2, <1>3, <1>4, <1>5, <1>6, <1>7 DEF MemNext

-----------------------------------------------------------------------------

\* The inductive invariant of an instance initialised by one client at a time.
SerialInv ==
  /\ TypeInv
  /\ InstanceInv /\ ThreadsInv /\ StopInv
  /\ ArrayInv /\ WorkersTakeTasks
  /\ WalkInv /\ JoinInv

LEMMA InitSerialInv == MemInit => SerialInv
<1> SUFFICES ASSUME MemInit
             PROVE  SerialInv
  OBVIOUS
<1>1. TypeInv
  BY InitTypeInv
<1>2. /\ isInitialized = FALSE /\ tasks = <<>> /\ threads = <<>> /\ releasing = FALSE
      /\ \A c \in Clients : pc[c] = "start"
      /\ Len(tasks) = 0 /\ Len(threads) = 0 /\ DOMAIN threads = {}
  BY DEF MemInit
<1>3. InstanceInv /\ StopInv
  BY <1>2 DEF InstanceInv, StopInv, Initialising
<1>4. ThreadsInv
  BY <1>2, MemoryAssumption DEF ThreadsInv, MemoryAssumption
<1>5. ArrayInv /\ WorkersTakeTasks /\ WalkInv /\ JoinInv
  BY <1>2 DEF ArrayInv, WorkersTakeTasks, WalkInv, JoinInv
<1> QED
  BY <1>1, <1>3, <1>4, <1>5 DEF SerialInv

LEMMA SerialCorrect == ASSUME SerialInit PROVE MemSpec => []SerialInv
<1>1. SerialInv /\ [MemNext]_memVars => SerialInv'
  <2> SUFFICES ASSUME SerialInv, [MemNext]_memVars
               PROVE  SerialInv'
    OBVIOUS
  <2>1. TypeInv'
    BY NextTypeInv DEF SerialInv
  <2>2. InstanceInv' /\ ThreadsInv' /\ StopInv'
    BY InstanceStep, ThreadsStep, StopStep DEF SerialInv
  <2>3. ArrayInv' /\ WorkersTakeTasks' /\ WalkInv' /\ JoinInv'
    BY ArrayStep, WorkersStep, WalkStep, JoinStep DEF SerialInv
  <2> QED
    BY <2>1, <2>2, <2>3 DEF SerialInv
<1> QED
  BY InitSerialInv, <1>1, PTL DEF MemSpec

\* thread_pool_submit: as long as no realloc failed and the size in bytes is a
\* u32, the array has every task ever submitted in its slot, however often it
\* was moved.
THEOREM TasksInArrayCorrect == ASSUME SerialInit PROVE MemSpec => []TasksInArray
<1>1. SerialInv => TasksInArray
  BY SlotHeld DEF SerialInv, TasksInArray, tail
<1> QED
  BY SerialCorrect, <1>1, PTL

\* worker_thread: no worker follows anything but a task, nor calls the function
\* of a sentinel.
THEOREM WorkersTakeTasksCorrect == ASSUME SerialInit PROVE MemSpec => []WorkersTakeTasks
<1>1. SerialInv => WorkersTakeTasks
  BY DEF SerialInv
<1> QED
  BY SerialCorrect, <1>1, PTL

\* MMAP_File_Accessor_Wait_All and Cancel_All: while the array is where they
\* found it, their loops read no slot that holds no task.
THEOREM WalkWithinArrayCorrect == ASSUME SerialInit PROVE MemSpec => []WalkWithinArray
<1>1. SerialInv => WalkWithinArray
  <2> SUFFICES ASSUME SerialInv, MemoryHolds, NEW c \in Clients,
                      pc[c] = "walk", ptr[c] = request_queue
               PROVE  Slot(ptr[c], idx[c] - 1) # "junk"
    BY DEF WalkWithinArray
  <2>1. Len(tasks) \in Nat /\ cnt[c] \in Nat
    BY TypeParts DEF SerialInv, QueueTypes, ClientTypes
  <2>2. idx[c] - 1 \in 0..(Len(tasks) - 1)
    BY <2>1 DEF SerialInv, WalkInv
  <2> QED
    BY <2>2, SlotHeld DEF SerialInv
<1> QED
  BY SerialCorrect, <1>1, PTL

\* MMAP_File_Accessor_Release_All joins every thread that thread_pool_init made:
\* none is left when it returns.
THEOREM NoThreadLeftCorrect == ASSUME SerialInit PROVE MemSpec => []NoThreadLeft
<1>1. SerialInv => NoThreadLeft
  <2> SUFFICES ASSUME SerialInv, NEW c \in Clients, pc[c] = "released", NEW t \in DOMAIN threads
               PROVE  threads[t] = "exited"
    BY DEF NoThreadLeft
  <2>1. Len(threads) = THREAD_POOL_SIZE
    BY DEF SerialInv, StopInv, ThreadsInv
  <2>2. DOMAIN threads = 1..Len(threads)
    BY TypeParts DEF SerialInv, ThreadTypes
  <2> QED
    BY <2>1, <2>2 DEF SerialInv, JoinInv
<1> QED
  BY SerialCorrect, <1>1, PTL

=============================================================================
