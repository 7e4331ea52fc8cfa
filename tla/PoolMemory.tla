----------------------------- MODULE PoolMemory -----------------------------
(***************************************************************************)
(* The memory behind the thread pool of                                    *)
(* src/src/mmap_file_accessor/mmap_file_accessor.c: the initialisation of  *)
(* the single instance, the growth of request_queue by realloc, with its   *)
(* size in bytes kept in a u32, the walks of waitAll and cancelAll over an *)
(* unlocked copy of the pointer, the array of threads that releaseAll      *)
(* joins.  What the tasks do, and the tests of isRunning that are made     *)
(* outside the lock, are the subject of ThreadPool.                        *)
(***************************************************************************)
EXTENDS Naturals, Sequences

CONSTANTS
  THREAD_POOL_SIZE, REQ_LIST_BUFSIZE,
  PtrSize,        \* sizeof(task_t *)
  MaxU32,         \* largest value of a u32 (scaled down by TLC runs)
  Clients,        \* application threads
  MaxPuts,        \* bounds the requests put in
  AllocMayFail,   \* whether malloc and realloc may return NULL
  SerialInit      \* nobody asks for the instance while another initialises it

ASSUME MemoryAssumption ==
  /\ THREAD_POOL_SIZE \in Nat \ {0} /\ REQ_LIST_BUFSIZE \in Nat \ {0}
  /\ PtrSize \in Nat \ {0} /\ MaxU32 \in Nat /\ MaxPuts \in Nat
  /\ AllocMayFail \in BOOLEAN /\ SerialInit \in BOOLEAN

VARIABLES
  isInitialized, isRunning,
  blocks,         \* every block of memory the queue ever had
  request_queue,  \* the block it has now, or NULL
  tasks,          \* the kind of every task submitted, oldest first
  head,           \* tasks taken
  threads,        \* every thread created, and what became of it
  thread_pool,    \* the threads releaseAll will join
  pc, idx,        \* where each client is, and its loop index
  ptr, cnt,       \* the copies waitAll and cancelAll make
  releasing,      \* releaseAll was called
  failed          \* a realloc returned NULL (history)

flagVars == <<isInitialized, isRunning>>
queueVars == <<blocks, request_queue, tasks, failed>>
threadVars == <<threads, thread_pool>>
walkVars == <<ptr, cnt>>
memVars == <<flagVars, queueVars, head, threadVars, pc, idx, walkVars, releasing>>

NULL == 0
tail == Len(tasks)

Goes(c, from, to) == pc[c] = from /\ pc' = [pc EXCEPT ![c] = to]

\* i++ of a loop with so many rounds, which goes on at after when it ends.
Round(c, loop, rounds, after) ==
  /\ Goes(c, loop, IF idx[c] = rounds THEN after ELSE loop)
  /\ idx' = [idx EXCEPT ![c] = @ + 1]

-----------------------------------------------------------------------------
(* malloc and realloc.  A block knows which of its slots hold a task that  *)
(* was stored there; all its other slots, and those of a freed block, junk.*)

Block(slots, stored) == [live |-> TRUE, size |-> slots, stored |-> stored]

\* What slot s of block b holds.
Slot(b, s) ==
  IF b # NULL /\ blocks[b].live /\ s \in blocks[b].stored THEN tasks[s + 1]
  ELSE "junk"

\* What realloc may do, with the pointer it returns: grow the block where it
\* is, move it and free the old one, or fail.  A size of 0 frees the block.
Realloc(b, bytes) ==
  LET slots == bytes \div PtrSize
      old == IF b = NULL THEN {} ELSE blocks[b].stored
      new == Block(slots, {s \in old : s < slots})
      freed == IF b = NULL THEN blocks ELSE [blocks EXCEPT ![b].live = FALSE]
  IN  IF bytes = 0 THEN {<<freed, NULL>>}
      ELSE {<<Append(freed, new), Len(blocks) + 1>>}
             \cup {<<[blocks EXCEPT ![q] = new], q>> : q \in {b} \ {NULL}}
             \cup {<<blocks, p>> : p \in IF AllocMayFail THEN {NULL} ELSE {}}

-----------------------------------------------------------------------------
(* thread_pool_submit, under task_queue.lock                               *)

\* mutant: room for one more task only
NewListBufSize_OneMore(total) == (total + 1) * PtrSize

\* The u32 newListBufSize.
NewListBufSize(total) ==
  (((total + REQ_LIST_BUFSIZE) \div REQ_LIST_BUFSIZE) * REQ_LIST_BUFSIZE * PtrSize)
    % (MaxU32 + 1)

\* mutant: the test comes one task too late
NeedsGrowth_Late == tail % REQ_LIST_BUFSIZE = 1

NeedsGrowth == tail % REQ_LIST_BUFSIZE = 0

\* The task is stored at tail, whether the block has room for it or not.
Store(kind) ==
  \E outcome \in IF NeedsGrowth THEN Realloc(request_queue, NewListBufSize(tail))
                 ELSE {<<blocks, request_queue>>} :
    LET heap == outcome[1]
        q == IF outcome[2] = NULL THEN request_queue ELSE outcome[2]
        room == q # NULL /\ heap[q].live /\ tail < heap[q].size
    IN  /\ blocks' = IF room THEN [heap EXCEPT ![q].stored = @ \cup {tail}] ELSE heap
        /\ request_queue' = q
        /\ failed' = (failed \/ outcome[2] = NULL)
        /\ tasks' = Append(tasks, kind)

Put(c) ==
  /\ pc[c] = "idle" /\ tail < MaxPuts /\ isRunning
  /\ Store("request")
  /\ UNCHANGED <<flagVars, head, threadVars, pc, idx, walkVars, releasing>>

-----------------------------------------------------------------------------
(* worker_thread                                                           *)

\* mutant: the queue is not tested
NotEmpty_Untested == TRUE

NotEmpty == head < tail

\* One round of the loop: a sentinel ends a thread of a closing pool, a request
\* is served.  A thread that follows junk, or calls the NULL function of a
\* sentinel, is lost.
Take(t) ==
  LET kind == Slot(request_queue, head)
  IN  /\ threads[t] = "loop"
      /\ NotEmpty
      /\ head' = head + 1
      /\ threads' = [threads EXCEPT ![t] =
                       CASE kind = "request" -> "loop"
                         [] kind = "sentinel" /\ ~isRunning -> "exited"
                         [] OTHER -> "lost"]
      /\ UNCHANGED <<flagVars, queueVars, thread_pool, pc, idx, walkVars,
                     releasing>>

-----------------------------------------------------------------------------
(* MMAP_File_Accessor_Get_Instance and thread_pool_init                    *)

Initialising(c) == pc[c] \in {"initQueue", "initThreads", "initDone"}

GetInstance(c) ==
  /\ SerialInit => \A d \in Clients : ~Initialising(d)
  /\ Goes(c, "start", IF isInitialized THEN "idle" ELSE "initQueue")
  /\ UNCHANGED <<flagVars, queueVars, head, threadVars, idx, walkVars, releasing>>

InitQueue(c) ==
  /\ Goes(c, "initQueue", "initThreads")
  /\ isRunning' = TRUE
  /\ \/ /\ blocks' = Append(blocks, Block(REQ_LIST_BUFSIZE, {}))
        /\ request_queue' = Len(blocks')
     \/ AllocMayFail /\ UNCHANGED blocks /\ request_queue' = NULL
  /\ idx' = [idx EXCEPT ![c] = 1]
  /\ UNCHANGED <<isInitialized, tasks, failed, head, threadVars, walkVars,
                 releasing>>

InitThread(c) ==
  /\ Round(c, "initThreads", THREAD_POOL_SIZE, "initDone")
  /\ threads' = Append(threads, "loop")
  /\ thread_pool' = [thread_pool EXCEPT ![idx[c]] = Len(threads')]
  /\ UNCHANGED <<flagVars, queueVars, head, walkVars, releasing>>

InitDone(c) ==
  /\ Goes(c, "initDone", "idle")
  /\ isRunning' = TRUE
  /\ isInitialized' = TRUE
  /\ UNCHANGED <<queueVars, head, threadVars, idx, walkVars, releasing>>

-----------------------------------------------------------------------------
(* waitAll and cancelAll: copy the pointer, copy the count, follow the     *)
(* argument of every task.  What they do to each request is left out.      *)

WalkBegin(c) ==
  /\ ~releasing /\ request_queue # NULL
  /\ Goes(c, "idle", "count")
  /\ ptr' = [ptr EXCEPT ![c] = request_queue]
  /\ UNCHANGED <<flagVars, queueVars, head, threadVars, idx, cnt, releasing>>

WalkCount(c) ==
  /\ Goes(c, "count", IF tail = 0 THEN "idle" ELSE "walk")
  /\ cnt' = [cnt EXCEPT ![c] = tail]
  /\ idx' = [idx EXCEPT ![c] = 1]
  /\ UNCHANGED <<flagVars, queueVars, head, threadVars, ptr, releasing>>

\* mutant: the loop goes one round too far
WalkRounds_OneMore(c) == cnt[c] + 1

WalkRounds(c) == cnt[c]

\* Only the argument of a request can be followed.
WalkNext(c) ==
  /\ Slot(ptr[c], idx[c] - 1) = "request"
  /\ Round(c, "walk", WalkRounds(c), "idle")
  /\ UNCHANGED <<flagVars, queueVars, head, threadVars, walkVars, releasing>>

-----------------------------------------------------------------------------
(* releaseAll, which the application calls once                            *)

Release(c) ==
  /\ ~releasing /\ request_queue # NULL /\ tail # 0
  /\ Goes(c, "idle", "poison")
  /\ releasing' = TRUE
  /\ isRunning' = FALSE
  /\ idx' = [idx EXCEPT ![c] = 1]
  /\ UNCHANGED <<isInitialized, queueVars, head, threadVars, walkVars>>

\* A pool that runs drops the sentinel.
Poison(c) ==
  /\ pc[c] = "poison"
  /\ IF isRunning THEN UNCHANGED queueVars ELSE Store("sentinel")
  /\ LET last == idx[c] = THREAD_POOL_SIZE
     IN  /\ pc' = [pc EXCEPT ![c] = IF last THEN "join" ELSE "poison"]
         /\ idx' = [idx EXCEPT ![c] = IF last THEN 1 ELSE @ + 1]
  /\ UNCHANGED <<flagVars, head, threadVars, walkVars, releasing>>

\* mutant: the last thread is not joined
Joins_OneLess == THREAD_POOL_SIZE - 1

Joins == THREAD_POOL_SIZE

Join(c) ==
  /\ Round(c, "join", Joins, "released")
  /\ threads[thread_pool[idx[c]]] = "exited"
  /\ UNCHANGED <<flagVars, queueVars, head, threadVars, walkVars, releasing>>

-----------------------------------------------------------------------------

MemInit ==
  /\ isInitialized = FALSE /\ isRunning = FALSE
  /\ blocks = <<>> /\ request_queue = NULL /\ tasks = <<>> /\ failed = FALSE
  /\ head = 0
  /\ threads = <<>> /\ thread_pool = [i \in 1..THREAD_POOL_SIZE |-> NULL]
  /\ pc = [c \in Clients |-> "start"] /\ idx = [c \in Clients |-> 0]
  /\ ptr = [c \in Clients |-> NULL] /\ cnt = [c \in Clients |-> 0]
  /\ releasing = FALSE

MemNext ==
  \/ \E c \in Clients :
       \/ GetInstance(c) \/ InitQueue(c) \/ InitThread(c) \/ InitDone(c)
       \/ Put(c)
       \/ WalkBegin(c) \/ WalkCount(c) \/ WalkNext(c)
       \/ Release(c) \/ Poison(c) \/ Join(c)
  \/ \E t \in DOMAIN threads : Take(t)

MemSpec == MemInit /\ [][MemNext]_memVars

-----------------------------------------------------------------------------
(* Properties *)

\* The type of every variable; no more tasks are taken than were submitted.
MemTypeOK ==
  /\ isInitialized \in BOOLEAN /\ isRunning \in BOOLEAN
  /\ \A b \in DOMAIN blocks :
       /\ blocks[b].live \in BOOLEAN /\ blocks[b].size \in Nat
       /\ blocks[b].stored \subseteq 0..(blocks[b].size - 1)
  /\ request_queue \in {NULL} \cup DOMAIN blocks
  /\ tasks \in Seq({"request", "sentinel"}) /\ head \in 0..tail
  /\ threads \in Seq({"loop", "exited", "lost"})
  /\ thread_pool \in [1..THREAD_POOL_SIZE -> {NULL} \cup DOMAIN threads]
  /\ pc \in [Clients -> {"start", "initQueue", "initThreads", "initDone", "idle",
               "count", "walk", "poison", "join", "released"}]
  /\ idx \in [Clients -> Nat]
  /\ ptr \in [Clients -> {NULL} \cup DOMAIN blocks] /\ cnt \in [Clients -> Nat]
  /\ releasing \in BOOLEAN /\ failed \in BOOLEAN

\* As many tasks as there are slots whose size in bytes is a u32.
SafeCount == (MaxU32 \div (REQ_LIST_BUFSIZE * PtrSize)) * REQ_LIST_BUFSIZE

\* No allocation failed, and no size has wrapped.
MemoryHolds == ~failed /\ tail <= SafeCount

\* Every task ever submitted is still in the array, in its slot: it is stored
\* within the bounds realloc was asked for, and growth loses none.
TasksInArray ==
  MemoryHolds => \A s \in 0..(tail - 1) : Slot(request_queue, s) = tasks[s + 1]

\* A worker takes nothing but tasks out of the array.
WorkersTakeTasks ==
  MemoryHolds => \A t \in DOMAIN threads : threads[t] # "lost"

\* waitAll and cancelAll, with their unlocked copies of pointer and count, read
\* tasks as long as the array has not been moved away under them.
WalkWithinArray ==
  MemoryHolds =>
    \A c \in Clients : pc[c] = "walk" /\ ptr[c] = request_queue =>
      Slot(ptr[c], idx[c] - 1) # "junk"

\* Whatever they read is a request of the array.
WalkReadsRequests ==
  \A c \in Clients : pc[c] = "walk" => Slot(ptr[c], idx[c] - 1) = "request"

\* When releaseAll has returned, no thread of the pool is left.
NoThreadLeft ==
  (\E c \in Clients : pc[c] = "released") =>
    \A t \in DOMAIN threads : threads[t] = "exited"

=============================================================================
