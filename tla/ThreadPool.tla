----------------------------- MODULE ThreadPool -----------------------------
(***************************************************************************)
(* The thread pool of src/src/mmap_file_accessor/mmap_file_accessor.c:     *)
(* thread_pool_init, thread_pool_submit, worker_thread and the sentinel    *)
(* and join loops of mmap_release_all_resources.                           *)
(*                                                                         *)
(* One action stands for one critical section of task_queue.lock or        *)
(* info.lock: all they protect is read and written under the lock, except  *)
(* isRunning, totoalCnt and the counters in releaseAll, whose unlocked     *)
(* accesses are actions of their own.  A task_t is identified with the     *)
(* queue slot put in by its one submission: slot 0 is no task at all.      *)
(***************************************************************************)
EXTENDS Naturals, Sequences, FiniteSets

CONSTANTS
  THREAD_POOL_SIZE,   \* number of worker threads
  Clients,            \* application threads that call the accessor
  Requests,           \* the requests put in, each by one fresh task_t
  Sentinel,           \* a task with is_sentinel set
  REQ_LIST_BUFSIZE,   \* slots by which request_queue grows
  MaxU32,             \* largest value of a u32 (scaled down by TLC runs)
  ReallocMayFail      \* whether realloc may return NULL

ASSUME PoolAssumption ==
  /\ THREAD_POOL_SIZE \in Nat \ {0} /\ Sentinel \notin Requests
  /\ REQ_LIST_BUFSIZE \in Nat \ {0} /\ MaxU32 \in Nat
  /\ ReallocMayFail \in BOOLEAN

Workers == 1..THREAD_POOL_SIZE
Tasks == Requests \cup {Sentinel}

VARIABLES
  request_queue,      \* every task ever submitted, oldest first
  head, tail,         \* first slot not taken, first slot not written (from 0)
  todoCnt, totoalCnt, \* tasks not taken, tasks ever submitted
  isRunning, busyThreadNum, idleThreadNum, aliveThreadNum,
  wpc,                \* where each worker thread is
  request_task,       \* the slot of the task each worker last took
  finished,           \* slots whose function has returned (history)
  cpc,                \* where each client is inside the pool's functions
  ctask,              \* the request a client is submitting
  submitRes,          \* what thread_pool_submit returned for each request
  joinIdx, reg,       \* loop index and loaded counter of the one releaseAll
  released            \* releaseAll has returned

queueVars == <<request_queue, head, tail, todoCnt, totoalCnt>>
counterVars == <<busyThreadNum, idleThreadNum, aliveThreadNum>>
workerVars == <<wpc, request_task, finished>>
releaseVars == <<joinIdx, reg, released>>
clientVars == <<cpc, ctask, submitRes, releaseVars>>
poolVars == <<queueVars, counterVars, isRunning, workerVars, clientVars>>

\* A thread goes on from one place to another.
WorkerGoes(w, from, to) == wpc[w] = from /\ wpc' = [wpc EXCEPT ![w] = to]
ClientGoes(c, from, to) == cpc[c] = from /\ cpc' = [cpc EXCEPT ![c] = to]

-----------------------------------------------------------------------------
(* u32 arithmetic of the counters *)

Inc(x) == IF x = MaxU32 THEN 0 ELSE x + 1

\* mutant: a counter that is not unsigned
Dec_Signed(x) == x - 1

Dec(x) == IF x = 0 THEN MaxU32 ELSE x - 1

-----------------------------------------------------------------------------
(* thread_pool_submit *)

IsSentinel(s) == request_queue[s] = Sentinel

\* pthread_cond_signal(&not_empty) wakes one of the waiting workers, if any.
\* mutant: the signal is forgotten
SignalNotEmpty_Forgotten == UNCHANGED wpc

SignalNotEmpty ==
  LET waiting == {w \in Workers : wpc[w] = "wait"}
  IN  \/ waiting = {} /\ UNCHANGED wpc
      \/ \E w \in waiting : wpc' = [wpc EXCEPT ![w] = "fetch"]

NeedsGrowth == totoalCnt % REQ_LIST_BUFSIZE = 0

\* The locked section: grow the array when a chunk is full, store the task
\* whether or not that succeeded, wake one worker.  res is the return code.
\* The memory the task is stored in is the subject of PoolMemory.
Enqueue(t, res) ==
  /\ res = "OK" \/ (NeedsGrowth /\ ReallocMayFail /\ res = "NO_MEMORY")
  /\ request_queue' = Append(request_queue, t)
  /\ tail' = tail + 1
  /\ todoCnt' = todoCnt + 1
  /\ totoalCnt' = totoalCnt + 1
  /\ SignalNotEmpty
  /\ UNCHANGED <<head, counterVars, isRunning, request_task, finished>>

\* mutant: a closing pool keeps accepting
Accepts_Always == TRUE

\* The unlocked test a request has to pass.
Accepts == isRunning

\* A request is handed to thread_pool_submit, once.
Fresh(r) == submitRes[r] = "NONE" /\ \A d \in Clients : ctask[d] # r

SubmitAccepted(c, r) ==
  /\ Fresh(r) /\ Accepts
  /\ ClientGoes(c, "idle", "enqueue")
  /\ ctask' = [ctask EXCEPT ![c] = r]
  /\ UNCHANGED <<queueVars, counterVars, isRunning, workerVars, submitRes,
                 releaseVars>>

SubmitRejected(c, r) ==
  /\ Fresh(r) /\ ~Accepts /\ cpc[c] = "idle"
  /\ submitRes' = [submitRes EXCEPT ![r] = "ALREADY_EXISTS"]
  /\ UNCHANGED <<queueVars, counterVars, isRunning, workerVars, cpc, ctask,
                 releaseVars>>

SubmitEnqueue(c) ==
  /\ ClientGoes(c, "enqueue", "idle")
  /\ \E res \in {"OK", "NO_MEMORY"} :
       /\ Enqueue(ctask[c], res)
       /\ submitRes' = [submitRes EXCEPT ![ctask[c]] = res]
  /\ ctask' = [ctask EXCEPT ![c] = Sentinel]
  /\ UNCHANGED releaseVars

-----------------------------------------------------------------------------
(* worker_thread *)

Start(w) ==
  /\ WorkerGoes(w, "start", "fetch")
  /\ aliveThreadNum' = Inc(aliveThreadNum)
  /\ idleThreadNum' = Inc(idleThreadNum)
  /\ UNCHANGED <<queueVars, busyThreadNum, isRunning, request_task, finished,
                 clientVars>>

\* mutant: the head index stays where it was
AdvanceHead_Stays == UNCHANGED head /\ todoCnt' = todoCnt - 1

AdvanceHead == head' = head + 1 /\ todoCnt' = todoCnt - 1

\* Lock the queue, find it not empty, take the task at its head.
Take(w) ==
  /\ WorkerGoes(w, "fetch", "got")
  /\ todoCnt # 0
  /\ request_task' = [request_task EXCEPT ![w] = head + 1]
  /\ AdvanceHead
  /\ UNCHANGED <<request_queue, tail, totoalCnt, counterVars,
                 isRunning, finished, clientVars>>

\* A step that moves one worker and does nothing else.
OnlyGoes(w, from, to) ==
  /\ WorkerGoes(w, from, to)
  /\ UNCHANGED <<queueVars, counterVars, isRunning, request_task, finished,
                 clientVars>>

\* Lock the queue, find it empty, wait for not_empty.
Wait(w) == todoCnt = 0 /\ OnlyGoes(w, "fetch", "wait")

\* pthread_cond_wait may return with no signal; the loop tests again.
SpuriousWake(w) == OnlyGoes(w, "wait", "fetch")

\* mutants: the test looks at one of the two flags only
Quits_ClosingOnly(w) == ~isRunning
Quits_Never(w) == isRunning /\ IsSentinel(request_task[w])

Quits(w) == ~isRunning /\ IsSentinel(request_task[w])

Exit(w) == OnlyGoes(w, "got", "exited") /\ Quits(w)

BeginTask(w) ==
  /\ WorkerGoes(w, "got", "run")
  /\ ~Quits(w)
  /\ busyThreadNum' = Inc(busyThreadNum)
  /\ idleThreadNum' = Dec(idleThreadNum)
  /\ UNCHANGED <<queueVars, aliveThreadNum, isRunning, request_task, finished,
                 clientVars>>

\* The call of the task's function returns.
RunTask(w) ==
  /\ WorkerGoes(w, "run", "ran")
  /\ finished' = finished \cup {request_task[w]}
  /\ UNCHANGED <<queueVars, counterVars, isRunning, request_task, clientVars>>

\* mutant: the thread is never counted idle again
EndTask_StaysBusy(w) ==
  /\ WorkerGoes(w, "ran", "fetch")
  /\ busyThreadNum' = Dec(busyThreadNum)
  /\ UNCHANGED <<queueVars, idleThreadNum, aliveThreadNum, isRunning,
                 request_task, finished, clientVars>>

EndTask(w) ==
  /\ WorkerGoes(w, "ran", "fetch")
  /\ busyThreadNum' = Dec(busyThreadNum)
  /\ idleThreadNum' = Inc(idleThreadNum)
  /\ UNCHANGED <<queueVars, aliveThreadNum, isRunning, request_task, finished,
                 clientVars>>

\* worker_thread around the call of the task's function.
WorkerLoop(w) ==
  Start(w) \/ Take(w) \/ Wait(w) \/ Exit(w) \/ BeginTask(w) \/ EndTask(w)

Worker(w) == WorkerLoop(w) \/ RunTask(w)

-----------------------------------------------------------------------------
(* mmap_release_all_resources; the application calls it once.  With an     *)
(* empty queue it returns at once and changes nothing, which is no step.   *)

Release(c) ==
  /\ isRunning /\ totoalCnt # 0
  /\ ClientGoes(c, "idle", "poison")
  /\ isRunning' = FALSE
  /\ joinIdx' = 1
  /\ UNCHANGED <<queueVars, counterVars, workerVars, ctask, submitRes, reg,
                 released>>

\* mutant: one sentinel too few
LastSentinel_Short == joinIdx >= THREAD_POOL_SIZE - 1

LastSentinel == joinIdx >= THREAD_POOL_SIZE

\* One sentinel is submitted; its return code is overwritten or returned.
Poison(c) ==
  /\ ClientGoes(c, "poison", IF LastSentinel THEN "join" ELSE "poison")
  /\ \E res \in {"OK", "NO_MEMORY"} : Enqueue(Sentinel, res)
  /\ joinIdx' = IF LastSentinel THEN 1 ELSE joinIdx + 1
  /\ UNCHANGED <<ctask, submitRes, reg, released>>

Joinable(w) == wpc[w] = "exited"

\* pthread_join returns; idleThreadNum-- and aliveThreadNum-- follow without
\* info.lock, so each is a load and a store that workers may come between.
JoinAndLoadIdle(c) ==
  /\ ClientGoes(c, "join", "storeIdle")
  /\ Joinable(joinIdx)
  /\ reg' = idleThreadNum
  /\ UNCHANGED <<queueVars, counterVars, isRunning, workerVars, ctask,
                 submitRes, joinIdx, released>>

StoreIdle(c) ==
  /\ ClientGoes(c, "storeIdle", "loadAlive")
  /\ idleThreadNum' = Dec(reg)
  /\ UNCHANGED <<queueVars, busyThreadNum, aliveThreadNum, isRunning,
                 workerVars, ctask, submitRes, releaseVars>>

LoadAlive(c) ==
  /\ ClientGoes(c, "loadAlive", "storeAlive")
  /\ reg' = aliveThreadNum
  /\ UNCHANGED <<queueVars, counterVars, isRunning, workerVars, ctask,
                 submitRes, joinIdx, released>>

LastJoin == joinIdx = THREAD_POOL_SIZE

StoreAlive(c) ==
  /\ ClientGoes(c, "storeAlive", IF LastJoin THEN "idle" ELSE "join")
  /\ aliveThreadNum' = Dec(reg)
  /\ joinIdx' = IF LastJoin THEN joinIdx ELSE joinIdx + 1
  /\ released' = LastJoin
  /\ UNCHANGED <<queueVars, busyThreadNum, idleThreadNum, isRunning,
                 workerVars, ctask, submitRes, reg>>

\* The sentinel and join loops once releaseAll was entered.
ReleaseLoop(c) ==
  Poison(c) \/ JoinAndLoadIdle(c) \/ StoreIdle(c) \/ LoadAlive(c) \/ StoreAlive(c)

\* What a client does on its own once it is inside a function of the pool.
ClientStep(c) == SubmitEnqueue(c) \/ ReleaseLoop(c)

-----------------------------------------------------------------------------

\* thread_pool_init has returned: the queue is allocated, every thread is
\* created, and none has begun to run worker_thread.
PoolInit ==
  /\ request_queue = <<>>
  /\ head = 0 /\ tail = 0 /\ todoCnt = 0 /\ totoalCnt = 0 /\ isRunning = TRUE
  /\ busyThreadNum = 0 /\ idleThreadNum = 0 /\ aliveThreadNum = 0
  /\ wpc = [w \in Workers |-> "start"] /\ request_task = [w \in Workers |-> 0]
  /\ finished = {} /\ cpc = [c \in Clients |-> "idle"]
  /\ ctask = [c \in Clients |-> Sentinel]
  /\ submitRes = [r \in Requests |-> "NONE"] /\ joinIdx = 1 /\ reg = 0
  /\ released = FALSE

PoolNext ==
  \/ \E w \in Workers : Worker(w) \/ SpuriousWake(w)
  \/ \E c \in Clients : Release(c) \/ ClientStep(c)
  \/ \E c \in Clients, r \in Requests : SubmitAccepted(c, r) \/ SubmitRejected(c, r)

PoolSpec == PoolInit /\ [][PoolNext]_poolVars

\* Threads that can run do run: the scheduler is fair to every thread.  The
\* application need not submit or release, and no wakeup is spurious for ever.
PoolFairness ==
  /\ \A w \in Workers : WF_poolVars(Worker(w))
  /\ \A c \in Clients : WF_poolVars(ClientStep(c))

FairPoolSpec == PoolSpec /\ PoolFairness

-----------------------------------------------------------------------------
(* Properties *)

WorkerPC == {"start", "fetch", "wait", "got", "run", "ran", "exited"}
ClientPC == {"idle", "enqueue", "poison", "join", "storeIdle", "loadAlive",
             "storeAlive"}
U32 == 0..MaxU32

\* The type of every variable.  The counters are u32, whatever their value.
PoolTypeOK ==
  /\ request_queue \in Seq(Tasks)
  /\ head \in Nat /\ tail \in Nat /\ todoCnt \in Nat /\ totoalCnt \in Nat
  /\ isRunning \in BOOLEAN
  /\ busyThreadNum \in U32 /\ idleThreadNum \in U32 /\ aliveThreadNum \in U32
  /\ wpc \in [Workers -> WorkerPC] /\ request_task \in [Workers -> Nat]
  /\ cpc \in [Clients -> ClientPC] /\ ctask \in [Clients -> Tasks]
  /\ submitRes \in [Requests -> {"NONE", "OK", "NO_MEMORY", "ALREADY_EXISTS"}]
  /\ joinIdx \in 1..THREAD_POOL_SIZE /\ reg \in U32 /\ released \in BOOLEAN
  /\ finished \in SUBSET Nat

\* Worker w has taken slot s and its function has not returned; a worker that
\* exited keeps its sentinel.
Holds(w, s) == wpc[w] \in {"got", "run", "exited"} /\ request_task[w] = s

\* No task is lost and none is run twice: a slot was taken from the queue iff
\* it is finished or in the hands of a worker, never both, and no two workers
\* hold the same slot; head never passes tail.  (worker_thread takes a task
\* under the lock but tests and runs it after the unlock.)
HandedOutOnce ==
  /\ head <= tail
  /\ \A s \in 1..tail :
       (s <= head) <=> (s \in finished \/ \E w \in Workers : Holds(w, s))
  /\ \A w \in Workers : ~(Holds(w, request_task[w]) /\ request_task[w] \in finished)
  /\ \A v, w \in Workers :
       Holds(v, request_task[v]) /\ Holds(w, request_task[v]) => v = w

\* No worker calls the NULL function of a sentinel, although the test that
\* prevents it reads isRunning without a lock.
NoNullFunction ==
  \A w \in Workers : wpc[w] \in {"run", "ran"} => ~IsSentinel(request_task[w])

\* releaseAll drains the pool: when it has returned, a request that was never
\* run was put in behind every sentinel (by a client that had passed the test
\* of isRunning before releaseAll cleared it).
Drained ==
  released =>
    \A s \in 1..tail : ~IsSentinel(s) /\ s \notin finished =>
      \A t \in 1..tail : IsSentinel(t) => t < s

\* One signal for each task is enough: while a worker sleeps on not_empty, every
\* task in the queue has a worker that is about to take it.
SignalsSuffice ==
  \A w \in Workers : wpc[w] = "wait" =>
    todoCnt <= Cardinality({v \in Workers : wpc[v] = "fetch"})

\* releaseAll never joins in vain: the worker it joins has exited, or one that
\* can go on is neither asleep nor gone.
JoinNeverStuck ==
  (\E c \in Clients : cpc[c] = "join") =>
    Joinable(joinIdx) \/ \E w \in Workers : wpc[w] \notin {"wait", "exited"}

SentinelsBefore(s) == {t \in 1..(s - 1) : IsSentinel(t)}

\* A task in the queue is never left alone: unless a sentinel for each worker lies
\* before it, some worker is neither asleep nor gone.
TaskHasWorker ==
  \A s \in (head + 1)..tail :
    Cardinality(SentinelsBefore(s)) < THREAD_POOL_SIZE =>
      \E w \in Workers : wpc[w] \notin {"wait", "exited"}

\* A pool that is closing takes no request: none lies behind a sentinel.
NoTaskBehindSentinel ==
  \A s, t \in 1..tail : s < t /\ IsSentinel(s) => IsSentinel(t)

\* Until releaseAll starts to join, the counters say what the threads do.
CountersAgree ==
  (\A c \in Clients : cpc[c] \in {"idle", "enqueue", "poison"}) /\ ~released =>
    /\ busyThreadNum = Cardinality({w \in Workers : wpc[w] \in {"run", "ran"}})
    /\ aliveThreadNum =
         Cardinality({w \in Workers : wpc[w] # "start"})
    /\ idleThreadNum + busyThreadNum = aliveThreadNum

\* A request put in while releaseAll runs can only come from a client that had
\* passed the unlocked test of isRunning before: the closing pool takes at most
\* one from each client but the one that releases.
FewBehindSentinels ==
  Cardinality({s \in 1..tail : ~IsSentinel(s) /\ \E t \in 1..(s - 1) : IsSentinel(t)})
    < Cardinality(Clients)

\* A request the pool accepted is run to its end, unless a sentinel for each
\* worker lies before it, after which nobody is left to run it.
AcceptedIsRun ==
  \A r \in Requests :
    submitRes[r] = "OK" ~>
      \E s \in 1..tail :
        /\ request_queue[s] = r
        /\ \/ s \in finished
           \/ Cardinality(SentinelsBefore(s)) = THREAD_POOL_SIZE

\* releaseAll returns: each worker gets a sentinel and exits.
ReleaseReturns == ~isRunning ~> released

Idle == 0
InHand(w) ==
  IF wpc[w] \in {"got", "run", "exited"} THEN request_queue[request_task[w]]
  ELSE Idle

Abstract == INSTANCE TaskDispatch WITH
  Servers <- Workers,
  Items <- Tasks,
  Nothing <- Idle,
  line <- SubSeq(request_queue, head + 1, tail),
  inService <- [w \in Workers |-> InHand(w)],
  served <- [t \in Tasks |->
               Cardinality({s \in finished : request_queue[s] = t})]

\* The pool is a first-come first-served dispatcher that serves an item once.
DispatchSpec == Abstract!DispatchSpec

=============================================================================
