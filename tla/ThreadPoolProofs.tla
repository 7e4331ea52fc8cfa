-------------------------- MODULE ThreadPoolProofs --------------------------
(***************************************************************************)
(* Proofs about ThreadPool, for any number of workers, clients, requests.  *)
(***************************************************************************)
EXTENDS ThreadPool, FiniteSetTheorems, TLAPS

\* The u32 operations stay within u32.
LEMMA U32Closed ==
  ASSUME NEW x \in U32
  PROVE  Inc(x) \in U32 /\ Dec(x) \in U32
BY PoolAssumption DEF PoolAssumption, U32, Inc, Dec

-----------------------------------------------------------------------------
(* Type correctness *)

\* Storing a task in the queue keeps the types, whoever submits it.
LEMMA EnqueueType ==
  ASSUME PoolTypeOK, NEW t \in Tasks, NEW res, Enqueue(t, res)
  PROVE  /\ request_queue' \in Seq(Tasks)
         /\ head' \in Nat /\ tail' \in Nat /\ todoCnt' \in Nat
         /\ totoalCnt' \in Nat
         /\ wpc' \in [Workers -> WorkerPC]
         /\ request_task' \in [Workers -> Nat]
         /\ finished' \in SUBSET Nat
         /\ isRunning' \in BOOLEAN
         /\ busyThreadNum' \in U32 /\ idleThreadNum' \in U32
         /\ aliveThreadNum' \in U32
<1>1. wpc' \in [Workers -> WorkerPC]
  BY DEF PoolTypeOK, Enqueue, SignalNotEmpty, WorkerPC
<1> QED
  BY <1>1 DEF PoolTypeOK, Enqueue, counterVars

LEMMA InitType == PoolInit => PoolTypeOK
<1> SUFFICES ASSUME PoolInit
             PROVE  PoolTypeOK
  OBVIOUS
<1> USE PoolAssumption DEF PoolAssumption, PoolInit
<1>1. request_queue \in Seq(Tasks)
  OBVIOUS
<1>2. isRunning \in BOOLEAN /\ released \in BOOLEAN
  OBVIOUS
<1>3. /\ wpc \in [Workers -> WorkerPC] /\ request_task \in [Workers -> Nat]
      /\ cpc \in [Clients -> ClientPC] /\ ctask \in [Clients -> Tasks]
  BY DEF WorkerPC, ClientPC, Tasks
<1>4. joinIdx \in 1..THREAD_POOL_SIZE
  OBVIOUS
<1> QED
  BY <1>1, <1>2, <1>3, <1>4 DEF PoolTypeOK, U32

LEMMA NextType == PoolTypeOK /\ [PoolNext]_poolVars => PoolTypeOK'
<1> SUFFICES ASSUME PoolTypeOK, [PoolNext]_poolVars
             PROVE  PoolTypeOK'
  OBVIOUS
<1> USE PoolAssumption DEF PoolAssumption, PoolTypeOK, queueVars, counterVars, workerVars,
          releaseVars, clientVars, WorkerGoes, ClientGoes, OnlyGoes
<1>1. CASE UNCHANGED poolVars
  BY <1>1 DEF poolVars
<1>2. ASSUME NEW w \in Workers, Start(w)
      PROVE  PoolTypeOK'
  BY <1>2, U32Closed DEF Start, WorkerPC
<1>3. ASSUME NEW w \in Workers, Take(w)
      PROVE  PoolTypeOK'
  BY <1>3 DEF Take, AdvanceHead, WorkerPC
<1>4. ASSUME NEW w \in Workers, Wait(w) \/ SpuriousWake(w) \/ Exit(w)
      PROVE  PoolTypeOK'
  BY <1>4 DEF Wait, SpuriousWake, Exit, WorkerPC
<1>5. ASSUME NEW w \in Workers, BeginTask(w) \/ EndTask(w)
      PROVE  PoolTypeOK'
  BY <1>5, U32Closed DEF BeginTask, EndTask, WorkerPC
<1>6. ASSUME NEW w \in Workers, RunTask(w)
      PROVE  PoolTypeOK'
  BY <1>6 DEF RunTask, WorkerPC
<1>7. ASSUME NEW c \in Clients, NEW r \in Requests,
             SubmitAccepted(c, r) \/ SubmitRejected(c, r)
      PROVE  PoolTypeOK'
  <2>1. CASE SubmitAccepted(c, r)
    BY <2>1 DEF SubmitAccepted, ClientPC, Tasks
  <2>2. CASE SubmitRejected(c, r)
    BY <2>2 DEF SubmitRejected, ClientPC, Tasks
  <2> QED
    BY <1>7, <2>1, <2>2
<1>8. ASSUME NEW c \in Clients, SubmitEnqueue(c)
      PROVE  PoolTypeOK'
  <2>1. PICK res \in {"OK", "NO_MEMORY"} :
          /\ Enqueue(ctask[c], res)
          /\ submitRes' = [submitRes EXCEPT ![ctask[c]] = res]
    BY <1>8 DEF SubmitEnqueue
  <2>2. ctask[c] \in Tasks
    OBVIOUS
  <2>3. cpc' \in [Clients -> ClientPC] /\ ctask' \in [Clients -> Tasks]
    BY <1>8 DEF SubmitEnqueue, ClientPC, Tasks
  <2>4. submitRes' \in [Requests -> {"NONE", "OK", "NO_MEMORY", "ALREADY_EXISTS"}]
    BY <2>1
  <2> QED
    BY <1>8, <2>1, <2>2, <2>3, <2>4, EnqueueType DEF SubmitEnqueue
<1>9. ASSUME NEW c \in Clients, Release(c)
      PROVE  PoolTypeOK'
  <2>1. joinIdx' \in 1..THREAD_POOL_SIZE
    BY <1>9 DEF Release
  <2>3. isRunning' \in BOOLEAN
    BY <1>9 DEF Release
  <2>2. cpc' \in [Clients -> ClientPC]
    BY <1>9 DEF Release, ClientPC
  <2> QED
    BY <1>9, <2>1, <2>2, <2>3 DEF Release
<1>10. ASSUME NEW c \in Clients, Poison(c)
       PROVE  PoolTypeOK'
  <2>1. PICK res \in {"OK", "NO_MEMORY"} : Enqueue(Sentinel, res)
    BY <1>10 DEF Poison
  <2>2. cpc' \in [Clients -> ClientPC] /\ joinIdx' \in 1..THREAD_POOL_SIZE
    BY <1>10 DEF Poison, ClientPC, LastSentinel
  <2>3. Sentinel \in Tasks
    BY DEF Tasks
  <2> QED
    BY <1>10, <2>1, <2>2, <2>3, EnqueueType DEF Poison
<1>11. ASSUME NEW c \in Clients, JoinAndLoadIdle(c) \/ LoadAlive(c)
       PROVE  PoolTypeOK'
  BY <1>11 DEF JoinAndLoadIdle, LoadAlive, ClientPC
<1>12. ASSUME NEW c \in Clients, StoreIdle(c) \/ StoreAlive(c)
       PROVE  PoolTypeOK'
  <2>1. idleThreadNum' \in U32 /\ aliveThreadNum' \in U32 /\ reg' \in U32
    BY <1>12, U32Closed DEF StoreIdle, StoreAlive
  <2>2. cpc' \in [Clients -> ClientPC]
    BY <1>12 DEF StoreIdle, StoreAlive, ClientPC
  <2>3. joinIdx' \in 1..THREAD_POOL_SIZE
    BY <1>12 DEF StoreIdle, StoreAlive, LastJoin
  <2>4. released' \in BOOLEAN
    BY <1>12 DEF StoreIdle, StoreAlive, LastJoin
  <2> QED
    BY <1>12, <2>1, <2>2, <2>3, <2>4 DEF StoreIdle, StoreAlive
<1> QED
  BY <1>1, <1>2, <1>3, <1>4, <1>5, <1>6, <1>7, <1>8, <1>9, <1>10, <1>11, <1>12
  DEF PoolNext, Worker, WorkerLoop, ClientStep, ReleaseLoop

\* Every variable keeps its type; in particular the counters stay u32.
THEOREM PoolTypeCorrect == PoolSpec => []PoolTypeOK
BY InitType, NextType, PTL DEF PoolSpec

-----------------------------------------------------------------------------
(* The queue's indices *)

\* The indices and counts of the queue agree with what is in it.
QueueInv ==
  /\ Len(request_queue) = tail
  /\ totoalCnt = tail
  /\ head + todoCnt = tail

LEMMA NextQueue == PoolTypeOK /\ QueueInv /\ [PoolNext]_poolVars => QueueInv'
<1> SUFFICES ASSUME PoolTypeOK, QueueInv, [PoolNext]_poolVars
             PROVE  QueueInv'
  OBVIOUS
<1> USE DEF PoolTypeOK, QueueInv, queueVars
<1>1. CASE UNCHANGED queueVars
  BY <1>1
<1>2. ASSUME NEW w \in Workers, Take(w)
      PROVE  QueueInv'
  BY <1>2 DEF Take, AdvanceHead
<1>3. ASSUME NEW t \in Tasks, NEW res, Enqueue(t, res)
      PROVE  QueueInv'
  BY <1>3 DEF Enqueue
<1>4. ASSUME NEW c \in Clients, SubmitEnqueue(c)
      PROVE  QueueInv'
  BY <1>4, <1>3 DEF SubmitEnqueue
<1>5. ASSUME NEW c \in Clients, Poison(c)
      PROVE  QueueInv'
  BY <1>5, <1>3 DEF Poison, Tasks
<1> QED
  BY <1>1, <1>2, <1>4, <1>5
  DEF PoolNext, Worker, WorkerLoop, ClientStep, ReleaseLoop, Start, Wait, Exit,
      BeginTask, EndTask, RunTask, SpuriousWake, OnlyGoes, Release,
      JoinAndLoadIdle, StoreIdle, LoadAlive, StoreAlive, SubmitAccepted,
      SubmitRejected, poolVars

\* The indices agree with the contents of the queue in every reachable state.
THEOREM QueueCorrect == PoolSpec => []QueueInv
<1>1. PoolInit => QueueInv
  BY DEF PoolInit, QueueInv
<1> QED
  BY <1>1, NextQueue, PoolTypeCorrect, PTL DEF PoolSpec

-----------------------------------------------------------------------------
(* No task is lost, none is run twice *)

\* The slots that are finished or in a worker's hands were taken.
HandsInv ==
  /\ finished \subseteq 1..head
  /\ \A w \in Workers :
       wpc[w] \in {"got", "run", "exited"} => request_task[w] \in 1..head
  /\ \A w \in Workers : wpc[w] = "ran" => request_task[w] \in finished

HandedInv == HandsInv /\ HandedOutOnce

\* A step that takes and finishes nothing keeps HandedInv, even if it appends.
LEMMA HandsStable ==
  ASSUME PoolTypeOK, HandedInv, UNCHANGED <<head, finished, request_task>>,
         tail' \in Nat, tail' >= tail,
         \A w \in Workers : (wpc'[w] \in {"got", "run", "exited"})
                              <=> (wpc[w] \in {"got", "run", "exited"}),
         \A w \in Workers : wpc'[w] = "ran" => wpc[w] = "ran"
  PROVE  HandedInv'
<1> USE DEF HandedInv, PoolTypeOK
<1>1. HandsInv'
  BY DEF HandsInv
<1>2. \A w \in Workers, s \in Nat : Holds(w, s)' <=> Holds(w, s)
  BY DEF Holds
<1>3. ASSUME NEW s \in 1..tail'
      PROVE  (s <= head) <=> (s \in finished \/ \E w \in Workers : Holds(w, s))
  <2>1. CASE s \in 1..tail
    BY <2>1 DEF HandedOutOnce
  <2>2. CASE s > tail
    BY <2>2 DEF HandedOutOnce, HandsInv, Holds
  <2> QED
    BY <2>1, <2>2
<1>4. HandedOutOnce'
  BY <1>2, <1>3 DEF HandedOutOnce
<1> QED
  BY <1>1, <1>4

LEMMA NextHands ==
  PoolTypeOK /\ QueueInv /\ HandedInv /\ [PoolNext]_poolVars => HandedInv'
<1> SUFFICES ASSUME PoolTypeOK, QueueInv, HandedInv, [PoolNext]_poolVars
             PROVE  HandedInv'
  OBVIOUS
<1> USE DEF PoolTypeOK, WorkerGoes, OnlyGoes, queueVars, workerVars
\* Clients that do not touch the queue.
<1>1. CASE UNCHANGED <<queueVars, workerVars>>
  BY <1>1, HandsStable
<1>2. ASSUME NEW w \in Workers,
             \/ Start(w) \/ Wait(w) \/ SpuriousWake(w) \/ Exit(w)
             \/ BeginTask(w) \/ EndTask(w)
      PROVE  HandedInv'
  <2>1. UNCHANGED <<head, tail, request_task, finished>>
    BY <1>2 DEF Start, Wait, SpuriousWake, Exit, BeginTask, EndTask
  <2>2. /\ \A v \in Workers : wpc'[v] # wpc[v] =>
             ((wpc'[v] \in {"got", "run", "exited"}) <=> (wpc[v] \in {"got", "run", "exited"}))
        /\ \A v \in Workers : wpc'[v] = "ran" => wpc[v] = "ran"
    BY <1>2 DEF Start, Wait, SpuriousWake, Exit, BeginTask, EndTask
  <2> QED
    BY <2>1, <2>2, HandsStable
<1>3. ASSUME NEW t, NEW res, Enqueue(t, res)
      PROVE  HandedInv'
  <2>1. UNCHANGED <<head, request_task, finished>> /\ tail' = tail + 1
    BY <1>3 DEF Enqueue
  <2>2. \A v \in Workers : wpc'[v] = wpc[v] \/ (wpc[v] = "wait" /\ wpc'[v] = "fetch")
    BY <1>3 DEF Enqueue, SignalNotEmpty
  <2> QED
    BY <2>1, <2>2, HandsStable
\* Slot head + 1 was in nobody's hands.
<1>4. ASSUME NEW w \in Workers, Take(w)
      PROVE  HandedInv'
  <2>1. /\ head' = head + 1 /\ head' <= tail /\ tail' = tail
        /\ finished' = finished
        /\ request_task' = [request_task EXCEPT ![w] = head + 1]
        /\ wpc[w] = "fetch" /\ wpc' = [wpc EXCEPT ![w] = "got"]
    BY <1>4 DEF Take, AdvanceHead, QueueInv
  <2>2. HandsInv'
    BY <2>1 DEF HandedInv, HandsInv
  <2>3. \A v \in Workers, s \in Nat :
          Holds(v, s)' <=> IF v = w THEN s = head + 1 ELSE Holds(v, s)
    BY <2>1 DEF Holds
  <2>4. ~\E v \in Workers : Holds(v, head + 1)
    BY DEF HandedInv, HandsInv, Holds
  <2>5. head + 1 \notin finished
    BY DEF HandedInv, HandsInv
  <2>6. ASSUME NEW s \in 1..tail'
        PROVE  (s <= head')
                 <=> (s \in finished' \/ \E v \in Workers : Holds(v, s)')
    <3>1. (s <= head) <=> (s \in finished \/ \E v \in Workers : Holds(v, s))
      BY <2>1 DEF HandedInv, HandedOutOnce
    <3>2. ~Holds(w, s)
      BY <2>1 DEF Holds
    <3> QED
      BY <2>1, <2>3, <2>4, <2>5, <3>1, <3>2
  <2>7. \A v \in Workers : ~(Holds(v, request_task[v])' /\ request_task'[v] \in finished')
    BY <2>1, <2>3, <2>5 DEF HandedInv, HandedOutOnce
  <2>8. \A u, v \in Workers :
          Holds(u, request_task[u])' /\ Holds(v, request_task[u])' => u = v
    BY <2>1, <2>3, <2>4 DEF HandedInv, HandedOutOnce, Holds
  <2> QED
    BY <2>1, <2>2, <2>6, <2>7, <2>8 DEF HandedInv, HandedOutOnce
\* A slot goes from its worker's hands to the finished ones.
<1>5. ASSUME NEW w \in Workers, RunTask(w)
      PROVE  HandedInv'
  <2>1. /\ UNCHANGED <<head, tail, request_task>>
        /\ finished' = finished \cup {request_task[w]}
        /\ wpc[w] = "run" /\ wpc' = [wpc EXCEPT ![w] = "ran"]
    BY <1>5 DEF RunTask
  <2>2. HandsInv'
    BY <2>1 DEF HandedInv, HandsInv
  <2>3. \A v \in Workers, s \in Nat :
          Holds(v, s)' <=> Holds(v, s) /\ v # w
    BY <2>1 DEF Holds
  <2>4. Holds(w, request_task[w])
    BY <2>1 DEF Holds
  <2>5. \A v \in Workers : Holds(v, request_task[w]) => v = w
    BY <2>4 DEF HandedInv, HandedOutOnce
  <2>6. ASSUME NEW s \in 1..tail
        PROVE  (s \in finished' \/ \E v \in Workers : Holds(v, s)')
                 <=> (s \in finished \/ \E v \in Workers : Holds(v, s))
    BY <2>1, <2>3, <2>4, <2>5 DEF Holds
  <2>7. \A v \in Workers : ~(Holds(v, request_task[v])' /\ request_task'[v] \in finished')
    BY <2>1, <2>3, <2>5 DEF HandedInv, HandedOutOnce
  <2>8. \A u, v \in Workers :
          Holds(u, request_task[u])' /\ Holds(v, request_task[u])' => u = v
    BY <2>1, <2>3 DEF HandedInv, HandedOutOnce
  <2> QED
    BY <2>1, <2>2, <2>6, <2>7, <2>8 DEF HandedInv, HandedOutOnce
<1> QED
  BY <1>1, <1>2, <1>3, <1>4, <1>5
  DEF PoolNext, Worker, WorkerLoop, ClientStep, ReleaseLoop, SubmitEnqueue,
      Poison, Release, JoinAndLoadIdle, StoreIdle, LoadAlive, StoreAlive,
      SubmitAccepted, SubmitRejected, poolVars

\* The inductive invariant behind HandedOutOnce.
THEOREM HandedCorrect == PoolSpec => []HandedInv
<1>1. PoolInit => HandedInv
  BY DEF PoolInit, HandedInv, HandsInv, HandedOutOnce, Holds
<1> QED
  BY <1>1, NextHands, PoolTypeCorrect, QueueCorrect, PTL DEF PoolSpec

\* Every slot taken is finished or in the hands of exactly one worker.
THEOREM HandedOutOnceCorrect == PoolSpec => []HandedOutOnce
<1>1. HandedInv => HandedOutOnce
  BY DEF HandedInv
<1> QED
  BY <1>1, HandedCorrect, PTL

-----------------------------------------------------------------------------
(* No NULL function is called *)

Releasing == {"poison", "join", "storeIdle", "loadAlive", "storeAlive"}

\* One client releases the pool, once; there are sentinels only after that.
ReleaseInv ==
  /\ \A s \in 1..tail : IsSentinel(s) => ~isRunning
  /\ \A c \in Clients : cpc[c] = "enqueue" => ctask[c] \in Requests
  /\ \A c \in Clients : cpc[c] \in Releasing => ~isRunning /\ ~released
  /\ \A c, d \in Clients : cpc[c] \in Releasing /\ cpc[d] \in Releasing => c = d
  /\ released => ~isRunning

\* What Enqueue does to the queue, slot by slot.
LEMMA EnqueueSlots ==
  ASSUME PoolTypeOK, QueueInv, NEW t \in Tasks, NEW res, Enqueue(t, res)
  PROVE  /\ tail' = tail + 1
         /\ \A s \in 1..tail : request_queue'[s] = request_queue[s]
         /\ request_queue'[tail + 1] = t
         /\ Len(request_queue') = tail + 1
BY DEF PoolTypeOK, QueueInv, Enqueue

LEMMA NextRelease ==
  PoolTypeOK /\ QueueInv /\ ReleaseInv /\ [PoolNext]_poolVars => ReleaseInv'
<1> SUFFICES ASSUME PoolTypeOK, QueueInv, ReleaseInv, [PoolNext]_poolVars
             PROVE  ReleaseInv'
  OBVIOUS
<1> USE DEF PoolTypeOK, WorkerGoes, ClientGoes, OnlyGoes, Releasing, queueVars,
          clientVars, releaseVars
<1>1. ASSUME UNCHANGED <<request_queue, tail, isRunning, clientVars>>
      PROVE  ReleaseInv'
  BY <1>1 DEF ReleaseInv, IsSentinel
<1>2. ASSUME NEW w \in Workers, Worker(w) \/ SpuriousWake(w)
      PROVE  ReleaseInv'
  BY <1>1, <1>2 DEF Worker, WorkerLoop, Start, Take, Wait, Exit, BeginTask,
     EndTask, RunTask, SpuriousWake
<1>3. ASSUME NEW c \in Clients, NEW r \in Requests,
             SubmitAccepted(c, r) \/ SubmitRejected(c, r)
      PROVE  ReleaseInv'
  <2>1. UNCHANGED <<request_queue, tail, isRunning, released>>
    BY <1>3 DEF SubmitAccepted, SubmitRejected
  <2>2. \A d \in Clients : /\ cpc'[d] \in Releasing <=> cpc[d] \in Releasing
                           /\ cpc'[d] = "enqueue" => ctask'[d] \in Requests
    BY <1>3 DEF SubmitAccepted, SubmitRejected, ReleaseInv
  <2> QED
    BY <2>1, <2>2 DEF ReleaseInv, IsSentinel
<1>4. ASSUME NEW c \in Clients, SubmitEnqueue(c)
      PROVE  ReleaseInv'
  <2>1. PICK res \in {"OK", "NO_MEMORY"} : Enqueue(ctask[c], res)
    BY <1>4 DEF SubmitEnqueue
  <2>2. ctask[c] \in Requests /\ ctask[c] # Sentinel
    BY <1>4, PoolAssumption DEF SubmitEnqueue, ReleaseInv, PoolAssumption
  <2>3. \A s \in 1..tail' : IsSentinel(s)' => s \in 1..tail /\ IsSentinel(s)
    BY <2>1, <2>2, EnqueueSlots DEF IsSentinel, Tasks
  <2>4. isRunning' = isRunning /\ released' = released
    BY <1>4, <2>1 DEF SubmitEnqueue, Enqueue
  <2> QED
    BY <1>4, <2>3, <2>4 DEF SubmitEnqueue, ReleaseInv
<1>5. ASSUME NEW c \in Clients, Release(c)
      PROVE  ReleaseInv'
  BY <1>5 DEF Release, ReleaseInv
<1>6. ASSUME NEW c \in Clients, Poison(c)
      PROVE  ReleaseInv'
  <2>1. isRunning' = isRunning /\ released' = released /\ ctask' = ctask
    BY <1>6 DEF Poison, Enqueue
  <2>2. ~isRunning /\ ~released
    BY <1>6 DEF Poison, ReleaseInv
  <2>3. \A d \in Clients : /\ cpc'[d] \in Releasing <=> cpc[d] \in Releasing
                           /\ cpc'[d] = "enqueue" <=> cpc[d] = "enqueue"
    BY <1>6 DEF Poison
  <2> QED
    BY <2>1, <2>2, <2>3 DEF ReleaseInv
<1>7. ASSUME NEW c \in Clients,
             JoinAndLoadIdle(c) \/ StoreIdle(c) \/ LoadAlive(c)
      PROVE  ReleaseInv'
  <2>1. UNCHANGED <<request_queue, tail, isRunning, released, ctask>>
    BY <1>7 DEF JoinAndLoadIdle, StoreIdle, LoadAlive
  <2>2. \A d \in Clients : /\ cpc'[d] \in Releasing <=> cpc[d] \in Releasing
                           /\ cpc'[d] = "enqueue" => cpc[d] = "enqueue"
    BY <1>7 DEF JoinAndLoadIdle, StoreIdle, LoadAlive
  <2> QED
    BY <2>1, <2>2 DEF ReleaseInv, IsSentinel
<1>8. ASSUME NEW c \in Clients, StoreAlive(c)
      PROVE  ReleaseInv'
  <2>1. UNCHANGED <<request_queue, tail, isRunning, ctask>> /\ ~isRunning
    BY <1>8 DEF StoreAlive, ReleaseInv
  <2>2. \A d \in Clients : /\ cpc'[d] \in Releasing => cpc[d] \in Releasing
                           /\ cpc'[d] = "enqueue" => cpc[d] = "enqueue"
    BY <1>8 DEF StoreAlive
  <2>3. \A d \in Clients : cpc[d] \in Releasing => d = c
    BY <1>8 DEF StoreAlive, ReleaseInv
  <2>4. released' => cpc'[c] = "idle"
    BY <1>8 DEF StoreAlive
  <2> QED
    BY <2>1, <2>2, <2>3, <2>4 DEF ReleaseInv, IsSentinel
<1>9. CASE UNCHANGED poolVars
  BY <1>1, <1>9 DEF poolVars
<1> QED
  BY <1>2, <1>3, <1>4, <1>5, <1>6, <1>7, <1>8, <1>9
  DEF PoolNext, ClientStep, ReleaseLoop

\* There are sentinels only once isRunning is cleared, by one client.
THEOREM ReleaseCorrect == PoolSpec => []ReleaseInv
<1>1. PoolInit => ReleaseInv
  BY DEF PoolInit, ReleaseInv, Releasing
<1> QED
  BY <1>1, NextRelease, PoolTypeCorrect, QueueCorrect, PTL DEF PoolSpec

\* A worker never calls the function of a sentinel: the test it makes without
\* a lock can only see isRunning too early, and then no sentinel is queued.
THEOREM NoNullFunctionCorrect == PoolSpec => []NoNullFunction
<1>1. PoolInit => NoNullFunction
  BY DEF PoolInit, NoNullFunction
<1>2. ASSUME PoolTypeOK, QueueInv, HandedInv, ReleaseInv, NoNullFunction,
             [PoolNext]_poolVars
      PROVE  NoNullFunction'
  <2> USE <1>2 DEF PoolTypeOK, WorkerGoes, OnlyGoes, queueVars, workerVars
  <2>1. \A w \in Workers :
          wpc[w] \in {"got", "run", "ran", "exited"} => request_task[w] \in 1..tail
    BY DEF HandedInv, HandsInv, HandedOutOnce
  <2>2. ASSUME \A s \in 1..tail : IsSentinel(s)' <=> IsSentinel(s),
               UNCHANGED request_task,
               \A w \in Workers : wpc'[w] \in {"run", "ran"}
                                    => wpc[w] \in {"run", "ran"}
        PROVE  NoNullFunction'
    BY <2>1, <2>2 DEF NoNullFunction, IsSentinel
  <2>3. ASSUME UNCHANGED <<queueVars, workerVars>>
        PROVE  NoNullFunction'
    BY <2>2, <2>3 DEF IsSentinel
  <2>4. ASSUME NEW w \in Workers,
               \/ Start(w) \/ Wait(w) \/ Exit(w) \/ EndTask(w) \/ RunTask(w)
               \/ SpuriousWake(w)
        PROVE  NoNullFunction'
    BY <2>2, <2>4 DEF Start, Wait, Exit, EndTask, RunTask, SpuriousWake, IsSentinel
  <2>5. ASSUME NEW w \in Workers, Take(w)
        PROVE  NoNullFunction'
    BY <2>5 DEF Take, NoNullFunction, IsSentinel
  <2>6. ASSUME NEW w \in Workers, BeginTask(w)
        PROVE  NoNullFunction'
    <3>1. ~IsSentinel(request_task[w])
      BY <2>1, <2>6 DEF BeginTask, Quits, ReleaseInv
    <3> QED
      BY <2>6, <3>1 DEF BeginTask, NoNullFunction, IsSentinel
  <2>7. ASSUME NEW t \in Tasks, NEW res, Enqueue(t, res)
        PROVE  NoNullFunction'
    <3>1. \A s \in 1..tail : IsSentinel(s)' <=> IsSentinel(s)
      BY <2>7, EnqueueSlots DEF IsSentinel
    <3>2. \A w \in Workers : wpc'[w] \in {"run", "ran"} => wpc[w] \in {"run", "ran"}
      BY <2>7 DEF Enqueue, SignalNotEmpty
    <3> QED
      BY <2>2, <2>7, <3>1, <3>2 DEF Enqueue
  <2>8. ASSUME NEW c \in Clients, SubmitEnqueue(c) \/ Poison(c)
        PROVE  NoNullFunction'
    BY <2>7, <2>8 DEF SubmitEnqueue, Poison, Tasks
  <2> QED
    BY <2>3, <2>4, <2>5, <2>6, <2>8
    DEF PoolNext, Worker, WorkerLoop, ClientStep, ReleaseLoop, Release,
        JoinAndLoadIdle, StoreIdle, LoadAlive, StoreAlive, SubmitAccepted,
        SubmitRejected, poolVars
<1> QED
  BY <1>1, <1>2, PoolTypeCorrect, QueueCorrect, HandedCorrect, ReleaseCorrect, PTL
  DEF PoolSpec

-----------------------------------------------------------------------------
(* releaseAll drains the pool *)

Sentinels == {s \in 1..tail : IsSentinel(s)}

\* There are no more sentinels than workers, and a worker that exited, as all
\* those that were joined have, holds one.
JoinInv ==
  /\ Cardinality(Sentinels) <= THREAD_POOL_SIZE
  /\ \A c \in Clients : cpc[c] = "poison" => Cardinality(Sentinels) = joinIdx - 1
  /\ \A w \in Workers : wpc[w] = "exited" => IsSentinel(request_task[w])
  /\ \A c \in Clients, w \in Workers :
       \/ cpc[c] = "join" /\ w < joinIdx
       \/ cpc[c] \in {"storeIdle", "loadAlive", "storeAlive"} /\ w <= joinIdx
       => wpc[w] = "exited"
  /\ released => \A w \in Workers : wpc[w] = "exited"

LEMMA SentinelsFinite ==
  ASSUME PoolTypeOK
  PROVE  IsFiniteSet(Sentinels) /\ Cardinality(Sentinels) \in Nat
<1>1. IsFiniteSet(1..tail)
  BY FS_Interval DEF PoolTypeOK
<1>2. Sentinels \in SUBSET (1..tail)
  BY DEF Sentinels
<1> QED
  BY <1>1, <1>2, FS_Subset, FS_CardinalityType

\* A step that leaves the queue alone, unblocks no exited worker and moves no
\* client to another round of the loops.
LEMMA JoinStable ==
  ASSUME PoolTypeOK, HandedInv, JoinInv,
         UNCHANGED <<request_queue, tail, joinIdx, released>>,
         \A w \in Workers :
           /\ wpc[w] = "exited" => wpc'[w] = "exited"
           /\ wpc'[w] = "exited" => IsSentinel(request_task'[w]),
         \A c \in Clients : cpc'[c] \in Releasing => cpc'[c] = cpc[c]
  PROVE  JoinInv'
<1>1. Sentinels' = Sentinels
  BY DEF Sentinels, IsSentinel
<1>2. \A w \in Workers : wpc'[w] = "exited" => IsSentinel(request_task[w])'
  BY DEF IsSentinel
<1> QED
  BY <1>1, <1>2 DEF JoinInv, Releasing

LEMMA NextJoin ==
  /\ PoolTypeOK /\ QueueInv /\ HandedInv /\ ReleaseInv /\ JoinInv
  /\ [PoolNext]_poolVars
  => JoinInv'
<1> SUFFICES ASSUME PoolTypeOK, QueueInv, HandedInv, ReleaseInv, JoinInv,
                    [PoolNext]_poolVars
             PROVE  JoinInv'
  OBVIOUS
<1> USE DEF PoolTypeOK, WorkerGoes, ClientGoes, OnlyGoes, queueVars,
          workerVars, clientVars, releaseVars
<1>1. CASE UNCHANGED poolVars
  BY <1>1, JoinStable DEF poolVars, JoinInv
<1>2. ASSUME NEW w \in Workers,
             \/ Start(w) \/ Wait(w) \/ SpuriousWake(w)
             \/ BeginTask(w) \/ EndTask(w) \/ RunTask(w)
      PROVE  JoinInv'
  BY <1>2, JoinStable
  DEF Start, Wait, SpuriousWake, BeginTask, EndTask, RunTask, JoinInv
<1>3. ASSUME NEW w \in Workers, Take(w)
      PROVE  JoinInv'
  BY <1>3, JoinStable DEF Take, JoinInv
<1>4. ASSUME NEW w \in Workers, Exit(w)
      PROVE  JoinInv'
  BY <1>4, JoinStable DEF Exit, Quits, JoinInv
<1>5. ASSUME NEW c \in Clients, NEW r \in Requests,
             SubmitAccepted(c, r) \/ SubmitRejected(c, r)
      PROVE  JoinInv'
  BY <1>5, JoinStable DEF SubmitAccepted, SubmitRejected, Releasing, JoinInv
\* What an appended task changes: the exited workers keep their sentinels.
<1>6. ASSUME NEW t \in Tasks, NEW res, Enqueue(t, res)
      PROVE  /\ \A w \in Workers : wpc'[w] = "exited" <=> wpc[w] = "exited"
             /\ \A w \in Workers : wpc'[w] = "exited" => IsSentinel(request_task[w])'
             /\ t # Sentinel => Sentinels' = Sentinels
             /\ t = Sentinel =>
                  Cardinality(Sentinels') = Cardinality(Sentinels) + 1
  <2>1. \A w \in Workers : wpc'[w] = "exited" <=> wpc[w] = "exited"
    BY <1>6 DEF Enqueue, SignalNotEmpty
  <2>2. \A w \in Workers : wpc[w] = "exited" => request_task[w] \in 1..tail
    BY DEF HandedInv, HandsInv, HandedOutOnce
  <2>3. \A w \in Workers : wpc'[w] = "exited" => IsSentinel(request_task[w])'
    BY <1>6, <2>1, <2>2, EnqueueSlots DEF Enqueue, IsSentinel, JoinInv
  <2>4. Sentinels' = IF t = Sentinel THEN Sentinels \cup {tail + 1} ELSE Sentinels
    BY <1>6, EnqueueSlots DEF Sentinels, IsSentinel
  <2>5. tail + 1 \notin Sentinels
    BY DEF Sentinels
  <2> QED
    BY <2>1, <2>3, <2>4, <2>5, SentinelsFinite, FS_AddElement
<1>7. ASSUME NEW c \in Clients, SubmitEnqueue(c)
      PROVE  JoinInv'
  <2>1. PICK res \in {"OK", "NO_MEMORY"} : Enqueue(ctask[c], res)
    BY <1>7 DEF SubmitEnqueue
  <2>2. ctask[c] \in Tasks /\ ctask[c] # Sentinel
    BY <1>7, PoolAssumption DEF SubmitEnqueue, ReleaseInv, PoolAssumption
  <2>3. \A d \in Clients : cpc'[d] \in Releasing => cpc'[d] = cpc[d]
    BY <1>7 DEF SubmitEnqueue, Releasing
  <2>4. UNCHANGED <<joinIdx, released>>
    BY <1>7 DEF SubmitEnqueue
  <2> QED
    BY <1>6, <2>1, <2>2, <2>3, <2>4 DEF JoinInv, Releasing
<1>8. ASSUME NEW c \in Clients, Release(c)
      PROVE  JoinInv'
  <2>1. Sentinels = {} /\ ~released /\ \A d \in Clients : cpc[d] \notin Releasing
    BY <1>8 DEF Release, ReleaseInv, Sentinels
  <2>2. Cardinality(Sentinels') = 0
    BY <1>8, <2>1, FS_EmptySet DEF Release, Sentinels, IsSentinel
  <2>3. /\ joinIdx' = 1 /\ released' = released /\ wpc' = wpc
        /\ request_task' = request_task /\ request_queue' = request_queue
    BY <1>8 DEF Release
  <2>4. \A d \in Clients : cpc'[d] \in Releasing => cpc'[d] = "poison"
    BY <1>8, <2>1 DEF Release
  <2> QED
    BY <2>1, <2>2, <2>3, <2>4, PoolAssumption
    DEF JoinInv, IsSentinel, Releasing, PoolAssumption
\* The only releasing client; the count of sentinels follows joinIdx.
<1>9. ASSUME NEW c \in Clients, Poison(c)
      PROVE  JoinInv'
  <2>1. PICK res \in {"OK", "NO_MEMORY"} : Enqueue(Sentinel, res)
    BY <1>9 DEF Poison
  <2>2. Sentinel \in Tasks
    BY DEF Tasks
  <2>3. Cardinality(Sentinels') = joinIdx
    BY <1>6, <1>9, <2>1, <2>2, SentinelsFinite DEF Poison, JoinInv
  <2>4. \A d \in Clients : cpc[d] \in Releasing => d = c
    BY <1>9 DEF Poison, ReleaseInv, Releasing
  <2>5. ~released /\ released' = released
    BY <1>9 DEF Poison, ReleaseInv, Releasing
  <2>6. \A d \in Clients :
          /\ cpc'[d] = "poison" => joinIdx' = joinIdx + 1
          /\ cpc'[d] = "join" => joinIdx' = 1
          /\ cpc'[d] \notin {"storeIdle", "loadAlive", "storeAlive"}
    BY <1>9, <2>4 DEF Poison, LastSentinel, Releasing
  <2>7. \A w \in Workers : wpc'[w] = "exited" => IsSentinel(request_task[w])'
    BY <1>6, <2>1, <2>2
  <2> QED
    BY <2>3, <2>5, <2>6, <2>7 DEF JoinInv, Workers
<1>10. ASSUME NEW c \in Clients,
              \/ JoinAndLoadIdle(c) \/ StoreIdle(c) \/ LoadAlive(c)
              \/ StoreAlive(c)
       PROVE  JoinInv'
  <2>1. UNCHANGED <<queueVars, workerVars>>
    BY <1>10 DEF JoinAndLoadIdle, StoreIdle, LoadAlive, StoreAlive
  <2>2. Sentinels' = Sentinels /\ \A w \in Workers :
          wpc'[w] = "exited" => IsSentinel(request_task[w])'
    BY <2>1 DEF Sentinels, IsSentinel, JoinInv
  <2>3. \A d \in Clients : cpc[d] \in Releasing => d = c
    BY <1>10 DEF JoinAndLoadIdle, StoreIdle, LoadAlive, StoreAlive, ReleaseInv,
       Releasing
  <2>4. \A d \in Clients : d # c => cpc'[d] \notin Releasing
    BY <1>10, <2>3 DEF JoinAndLoadIdle, StoreIdle, LoadAlive, StoreAlive
  <2>5. ~released
    BY <1>10 DEF JoinAndLoadIdle, StoreIdle, LoadAlive, StoreAlive, ReleaseInv,
       Releasing
  <2>6. CASE JoinAndLoadIdle(c)
    BY <2>1, <2>2, <2>4, <2>5, <2>6
    DEF JoinAndLoadIdle, Joinable, JoinInv, Releasing, Workers
  <2>7. CASE StoreIdle(c) \/ LoadAlive(c)
    BY <2>1, <2>2, <2>4, <2>5, <2>7 DEF StoreIdle, LoadAlive, JoinInv, Releasing
  <2>8. CASE StoreAlive(c)
    BY <2>1, <2>2, <2>4, <2>5, <2>8
    DEF StoreAlive, LastJoin, JoinInv, Releasing, Workers
  <2> QED
    BY <1>10, <2>6, <2>7, <2>8
<1> QED
  BY <1>1, <1>2, <1>3, <1>4, <1>5, <1>7, <1>8, <1>9, <1>10
  DEF PoolNext, Worker, WorkerLoop, ClientStep, ReleaseLoop

\* The sentinels that were queued bound the workers that exited.
THEOREM JoinCorrect == PoolSpec => []JoinInv
<1>1. PoolInit => JoinInv
  <2> SUFFICES ASSUME PoolInit
               PROVE  JoinInv
    OBVIOUS
  <2>1. Sentinels = {}
    BY DEF PoolInit, Sentinels
  <2> QED
    BY <2>1, FS_EmptySet, PoolAssumption
    DEF PoolInit, JoinInv, PoolAssumption
<1> QED
  BY <1>1, NextJoin, PoolTypeCorrect, QueueCorrect, HandedCorrect, ReleaseCorrect,
     PTL DEF PoolSpec

\* Once releaseAll has returned, all sentinels were taken: N workers exited,
\* each with a sentinel of its own, and there are at most N sentinels.
LEMMA SentinelsTaken ==
  ASSUME PoolTypeOK, HandedInv, JoinInv, released
  PROVE  \A t \in Sentinels : t <= head
<1> SUFFICES ASSUME NEW t \in Sentinels, ~(t <= head)
             PROVE  FALSE
  OBVIOUS
<1> DEFINE others == Sentinels \ {t}
           taken == [w \in Workers |-> request_task[w]]
<1>1. \A w \in Workers : wpc[w] = "exited" /\ IsSentinel(request_task[w])
  BY DEF JoinInv
<1>2. taken \in [Workers -> others]
  <2>1. \A w \in Workers : request_task[w] \in 1..head /\ head <= tail
    BY <1>1 DEF HandedInv, HandsInv, HandedOutOnce
  <2> QED
    BY <1>1, <2>1 DEF Sentinels, PoolTypeOK
<1>3. IsFiniteSet(others) /\ Cardinality(others) = Cardinality(Sentinels) - 1
  BY SentinelsFinite, FS_RemoveElement
<1>4. IsFiniteSet(Workers) /\ Cardinality(Workers) = THREAD_POOL_SIZE
  BY FS_Interval, PoolAssumption DEF Workers, PoolAssumption
<1>5. Cardinality(others) < Cardinality(Workers)
  BY <1>3, <1>4, SentinelsFinite, PoolAssumption DEF JoinInv, PoolAssumption
<1>6. \E v, w \in Workers : v # w /\ taken[v] = taken[w]
  <2> HIDE DEF others, taken
  <2> QED
    BY <1>2, <1>3, <1>4, <1>5, FS_PigeonHole
<1>7. \A v, w \in Workers : request_task[v] = request_task[w] => v = w
  BY <1>1 DEF HandedInv, HandedOutOnce, Holds
<1> QED
  BY <1>6, <1>7

\* When releaseAll has returned, only a request that was put in behind every
\* sentinel can be left unserved.
THEOREM DrainedCorrect == PoolSpec => []Drained
<1>1. PoolTypeOK /\ HandedInv /\ JoinInv => Drained
  <2> SUFFICES ASSUME PoolTypeOK, HandedInv, JoinInv, released,
                      NEW s \in 1..tail, ~IsSentinel(s), s \notin finished,
                      NEW t \in 1..tail, IsSentinel(t)
               PROVE  t < s
    BY DEF Drained
  <2>1. t <= head
    BY SentinelsTaken DEF Sentinels
  <2>2. ~\E w \in Workers : Holds(w, s)
    BY DEF JoinInv, Holds
  <2>3. ~(s <= head)
    BY <2>2 DEF HandedInv, HandedOutOnce
  <2> QED
    BY <2>1, <2>3 DEF PoolTypeOK
<1> QED
  BY <1>1, PoolTypeCorrect, HandedCorrect, JoinCorrect, PTL

-----------------------------------------------------------------------------
(* Submissions *)

\* A request that is being submitted is not in the queue yet, by one client;
\* one that is in the queue has its return code, and one slot.
SubmitInv ==
  /\ \A c \in Clients : ctask[c] \in Requests => submitRes[ctask[c]] = "NONE"
  /\ \A c, d \in Clients : ctask[c] \in Requests /\ ctask[c] = ctask[d] => c = d
  /\ \A s \in 1..tail : request_queue[s] \in Requests =>
       \/ submitRes[request_queue[s]] = "OK"
       \/ submitRes[request_queue[s]] = "NO_MEMORY" /\ ReallocMayFail
  /\ \A s, t \in 1..tail :
       request_queue[s] \in Requests /\ request_queue[s] = request_queue[t] => s = t

LEMMA NextSubmit ==
  PoolTypeOK /\ QueueInv /\ ReleaseInv /\ SubmitInv /\ [PoolNext]_poolVars => SubmitInv'
<1> SUFFICES ASSUME PoolTypeOK, QueueInv, ReleaseInv, SubmitInv, [PoolNext]_poolVars
             PROVE  SubmitInv'
  OBVIOUS
<1> USE DEF PoolTypeOK, ClientGoes, queueVars, clientVars, releaseVars
<1>1. ASSUME UNCHANGED <<request_queue, tail, ctask, submitRes>>
      PROVE  SubmitInv'
  BY <1>1 DEF SubmitInv
<1>2. ASSUME NEW w \in Workers, Worker(w) \/ SpuriousWake(w)
      PROVE  SubmitInv'
  BY <1>1, <1>2 DEF Worker, WorkerLoop, Start, Take, Wait, Exit, BeginTask,
     EndTask, RunTask, SpuriousWake, OnlyGoes
<1>3. ASSUME NEW c \in Clients, NEW r \in Requests, SubmitAccepted(c, r)
      PROVE  SubmitInv'
  BY <1>3 DEF SubmitAccepted, Fresh, SubmitInv
<1>4. ASSUME NEW c \in Clients, NEW r \in Requests, SubmitRejected(c, r)
      PROVE  SubmitInv'
  BY <1>4 DEF SubmitRejected, Fresh, SubmitInv
<1>5. ASSUME NEW c \in Clients, SubmitEnqueue(c)
      PROVE  SubmitInv'
  <2> DEFINE r == ctask[c]
  <2>1. r \in Requests /\ r # Sentinel /\ Sentinel \notin Requests
    BY <1>5, PoolAssumption DEF SubmitEnqueue, ReleaseInv, PoolAssumption
  <2>2. PICK res \in {"OK", "NO_MEMORY"} :
          Enqueue(r, res) /\ submitRes' = [submitRes EXCEPT ![r] = res]
    BY <1>5 DEF SubmitEnqueue
  <2>3. res = "OK" \/ (res = "NO_MEMORY" /\ ReallocMayFail)
    BY <2>2 DEF Enqueue
  <2>4. /\ tail' = tail + 1
        /\ \A s \in 1..tail : request_queue'[s] = request_queue[s]
        /\ request_queue'[tail + 1] = r
    BY <2>2, EnqueueSlots
  <2>5. \A s \in 1..tail : request_queue[s] # r
    BY <2>1 DEF SubmitInv
  <2>6. ctask' = [ctask EXCEPT ![c] = Sentinel]
    BY <1>5 DEF SubmitEnqueue
  <2>7. \A s \in 1..tail' : s \in 1..tail \/ s = tail + 1
    BY <2>4
  <2>8. \A s \in 1..tail' : request_queue'[s] \in Requests =>
          \/ submitRes'[request_queue'[s]] = "OK"
          \/ submitRes'[request_queue'[s]] = "NO_MEMORY" /\ ReallocMayFail
    BY <2>1, <2>2, <2>3, <2>4, <2>5, <2>7 DEF SubmitInv
  <2>9. ASSUME NEW s \in 1..tail', NEW t \in 1..tail', request_queue'[s] \in Requests,
               request_queue'[s] = request_queue'[t]
        PROVE  s = t
    <3>1. CASE s \in 1..tail /\ t \in 1..tail
      <4>1. request_queue[s] \in Requests /\ request_queue[s] = request_queue[t]
        BY <2>4, <2>9, <3>1
      <4> QED
        BY <3>1, <4>1 DEF SubmitInv
    <3>2. CASE s \in 1..tail /\ t = tail + 1
      <4>1. request_queue[s] = r
        BY <2>4, <2>9, <3>2
      <4> QED
        BY <2>5, <3>2, <4>1
    <3>3. CASE s = tail + 1 /\ t \in 1..tail
      <4>1. request_queue[t] = r
        BY <2>4, <2>9, <3>3
      <4> QED
        BY <2>5, <3>3, <4>1
    <3> QED
      BY <2>7, <3>1, <3>2, <3>3
  <2>10. \A d \in Clients : ctask'[d] \in Requests => d # c /\ ctask'[d] = ctask[d]
    BY <2>1, <2>6
  <2>11. \A d \in Clients : ctask'[d] \in Requests => submitRes'[ctask'[d]] = "NONE"
    BY <2>1, <2>2, <2>10 DEF SubmitInv
  <2> QED
    BY <2>8, <2>9, <2>10, <2>11 DEF SubmitInv
<1>6. ASSUME NEW c \in Clients, Poison(c)
      PROVE  SubmitInv'
  <2>1. PICK res \in {"OK", "NO_MEMORY"} : Enqueue(Sentinel, res)
    BY <1>6 DEF Poison
  <2>2. /\ tail' = tail + 1
        /\ \A s \in 1..tail : request_queue'[s] = request_queue[s]
        /\ request_queue'[tail + 1] = Sentinel
    BY <2>1, EnqueueSlots DEF Tasks
  <2>3. \A s \in 1..tail' : request_queue'[s] \in Requests =>
          s \in 1..tail /\ request_queue'[s] = request_queue[s]
    <3>1. \A s \in 1..tail' : s \in 1..tail \/ s = tail + 1
      BY <2>2
    <3> QED
      BY <2>2, <3>1, PoolAssumption DEF PoolAssumption
  <2>4. UNCHANGED <<ctask, submitRes>>
    BY <1>6 DEF Poison
  <2>5. \A s \in 1..tail' : request_queue'[s] \in Requests =>
          \/ submitRes'[request_queue'[s]] = "OK"
          \/ submitRes'[request_queue'[s]] = "NO_MEMORY" /\ ReallocMayFail
    BY <2>3, <2>4 DEF SubmitInv
  <2>6. ASSUME NEW s \in 1..tail', NEW t \in 1..tail', request_queue'[s] \in Requests,
               request_queue'[s] = request_queue'[t]
        PROVE  s = t
    <3>1. /\ s \in 1..tail /\ t \in 1..tail
          /\ request_queue[s] \in Requests /\ request_queue[s] = request_queue[t]
      BY <2>3, <2>6
    <3> QED
      BY <3>1 DEF SubmitInv
  <2> QED
    BY <2>4, <2>5, <2>6 DEF SubmitInv
<1>7. ASSUME NEW c \in Clients,
             \/ Release(c) \/ JoinAndLoadIdle(c) \/ StoreIdle(c)
             \/ LoadAlive(c) \/ StoreAlive(c)
      PROVE  SubmitInv'
  BY <1>1, <1>7 DEF Release, JoinAndLoadIdle, StoreIdle, LoadAlive, StoreAlive
<1>8. CASE UNCHANGED poolVars
  BY <1>1, <1>8 DEF poolVars
<1> QED
  BY <1>2, <1>3, <1>4, <1>5, <1>6, <1>7, <1>8 DEF PoolNext, ClientStep, ReleaseLoop

\* Each request has at most one slot, whoever submits it.
THEOREM SubmitCorrect == PoolSpec => []SubmitInv
<1>1. PoolInit => SubmitInv
  BY PoolAssumption DEF PoolInit, SubmitInv, PoolAssumption
<1> QED
  BY <1>1, NextSubmit, PoolTypeCorrect, QueueCorrect, ReleaseCorrect, PTL DEF PoolSpec

=============================================================================
