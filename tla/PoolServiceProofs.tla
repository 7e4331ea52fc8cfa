------------------------- MODULE PoolServiceProofs -------------------------
(***************************************************************************)
(* Proofs about what ThreadPool does for its submitters: it implements     *)
(* TaskDispatch, its counters say what its threads do, a closing pool      *)
(* takes few more requests, no worker oversleeps a task, and the joins of  *)
(* releaseAll are never stuck.                                             *)
(***************************************************************************)
EXTENDS ThreadPoolProofs, SequenceTheorems

HandPC == {"got", "run", "exited"}

-----------------------------------------------------------------------------
(* The refinement of TaskDispatch *)

Line == SubSeq(request_queue, head + 1, tail)
Hands == [w \in Workers |-> InHand(w)]
SlotsOf(t) == {s \in finished : request_queue[s] = t}
Served == [t \in Tasks |-> Cardinality(SlotsOf(t))]

\* What TaskDispatch sees of the workers and of the finished slots depends on
\* slots that were taken, and appending to the queue changes none of them.
LEMMA ServiceFrame ==
  ASSUME PoolTypeOK, HandedInv, UNCHANGED <<request_task, finished>>,
         \A s \in 1..tail : request_queue'[s] = request_queue[s],
         \A w \in Workers : wpc'[w] \in HandPC <=> wpc[w] \in HandPC
  PROVE  Hands' = Hands /\ Served' = Served
<1>1. \A s \in 1..head : request_queue'[s] = request_queue[s]
  BY DEF PoolTypeOK, HandedInv, HandedOutOnce
<1>2. \A w \in Workers : InHand(w)' = InHand(w)
  BY <1>1 DEF InHand, HandPC, HandedInv, HandsInv, Idle
<1>3. \A t \in Tasks : SlotsOf(t)' = SlotsOf(t)
  BY <1>1 DEF SlotsOf, HandedInv, HandsInv
<1> QED
  BY <1>2, <1>3 DEF Hands, Served

\* Enqueue puts its task at the end of the line.
LEMMA EnqueueArrives ==
  ASSUME PoolTypeOK, QueueInv, HandedInv, NEW t \in Tasks, NEW res, Enqueue(t, res)
  PROVE  Line' = Append(Line, t) /\ Hands' = Hands /\ Served' = Served
<1>1. /\ head \in Nat /\ tail \in Nat /\ head <= tail /\ head' = head
      /\ \A i \in 1..tail : request_queue[i] \in Tasks
  BY DEF PoolTypeOK, QueueInv, HandedInv, HandedOutOnce, Enqueue
<1>2. /\ tail' = tail + 1 /\ request_queue'[tail + 1] = t
      /\ \A s \in 1..tail : request_queue'[s] = request_queue[s]
  BY EnqueueSlots
<1>3. PICK n \in Nat : tail = head + n
  BY <1>1
<1>4. /\ Line \in Seq(Tasks) /\ Len(Line) = n
      /\ \A i \in 1..n : Line[i] = request_queue[head + i]
  <2>1. \A i \in (head + 1)..(head + n) : request_queue[i] \in Tasks
    BY <1>1, <1>3
  <2> QED
    BY <1>1, <1>3, <2>1, SubSeqProperties DEF Line
<1>5. /\ Line' \in Seq(Tasks) /\ Len(Line') = n + 1
      /\ \A i \in 1..(n + 1) : Line'[i] = request_queue'[head + i]
  <2>1. \A i \in (head + 1)..(head + n + 1) : request_queue'[i] \in Tasks
    BY <1>1, <1>2, <1>3
  <2> QED
    BY <1>1, <1>2, <1>3, <2>1, SubSeqProperties DEF Line
<1>6. /\ Append(Line, t) \in Seq(Tasks) /\ Len(Append(Line, t)) = n + 1
      /\ \A i \in 1..n : Append(Line, t)[i] = Line[i]
      /\ Append(Line, t)[n + 1] = t
  BY <1>4
<1>7. ASSUME NEW i \in 1..(n + 1)
      PROVE  Line'[i] = Append(Line, t)[i]
  <2>1. CASE i \in 1..n
    <3>1. head + i \in 1..tail
      BY <1>1, <1>3, <2>1
    <3>2. Line'[i] = request_queue[head + i]
      BY <1>2, <1>5, <3>1
    <3> QED
      BY <1>4, <1>6, <2>1, <3>2
  <2>2. CASE i = n + 1
    <3>1. head + i = tail + 1
      BY <1>1, <1>3, <2>2
    <3> QED
      BY <1>2, <1>5, <1>6, <2>2, <3>1
  <2> QED
    <3>1. i \in 1..n \/ i = n + 1
      BY <1>3, <1>7
    <3> QED
      BY <2>1, <2>2, <3>1
<1>8. Line' = Append(Line, t)
  BY <1>5, <1>6, <1>7, SeqEqual
<1>9. Hands' = Hands /\ Served' = Served
  BY <1>2, ServiceFrame DEF PoolTypeOK, Enqueue, SignalNotEmpty, HandPC
<1> QED
  BY <1>8, <1>9

\* Take gives the first of the line to a free worker.
LEMMA TakeBegins ==
  ASSUME PoolTypeOK, QueueInv, HandedInv, NEW w \in Workers, Take(w)
  PROVE  Abstract!Begin(w)
<1> USE DEF PoolTypeOK, WorkerGoes, queueVars
<1>1. /\ head' = head + 1 /\ head + 1 \in 1..Len(request_queue) /\ tail = Len(request_queue)
      /\ tail' = tail /\ request_queue' = request_queue /\ finished' = finished
      /\ request_task' = [request_task EXCEPT ![w] = head + 1]
      /\ wpc[w] = "fetch" /\ wpc' = [wpc EXCEPT ![w] = "got"]
  BY DEF Take, AdvanceHead, QueueInv
<1>2. Head(Line) = request_queue[head + 1] /\ Tail(Line) = SubSeq(request_queue, head + 2, tail)
  BY <1>1, HeadTailOfSubSeq DEF Line
<1>3. Line # <<>>
  <2>1. \A i \in (head + 1)..tail : request_queue[i] \in Tasks
    BY <1>1
  <2>2. Len(Line) = tail - head
    BY <1>1, <2>1, SubSeqProperties DEF Line
  <2> QED
    BY <1>1, <2>2
<1>4. Line' = Tail(Line)
  <2>1. head' + 1 = head + 2 /\ tail' = tail /\ request_queue' = request_queue
    BY <1>1
  <2>2. Line' = SubSeq(request_queue', head' + 1, tail')
    BY DEF Line
  <2> HIDE DEF PoolTypeOK
  <2> QED
    BY <1>2, <2>1, <2>2
<1>5. InHand(w) = Idle
  BY <1>1 DEF InHand
<1>6. Hands' = [Hands EXCEPT ![w] = Head(Line)]
  <2>1. InHand(w)' = Head(Line)
    BY <1>1, <1>2 DEF InHand
  <2>2. \A v \in Workers \ {w} : InHand(v)' = InHand(v)
    BY <1>1 DEF InHand, Idle
  <2> QED
    BY <2>1, <2>2 DEF Hands
<1>7. Served' = Served
  BY <1>1 DEF Served, SlotsOf
<1> QED
  BY <1>3, <1>4, <1>5, <1>6, <1>7 DEF Abstract!Begin, Line, Hands, Served, SlotsOf

\* RunTask completes the item in its worker's hands.
LEMMA RunTaskEnds ==
  ASSUME Idle \notin Tasks, PoolTypeOK, QueueInv, HandedInv, NoNullFunction,
         NEW w \in Workers, RunTask(w)
  PROVE  Abstract!End(w)
<1> USE DEF PoolTypeOK, WorkerGoes, queueVars
<1> DEFINE s == request_task[w]
           t == request_queue[s]
<1>1. /\ UNCHANGED <<request_queue, head, tail, request_task>>
      /\ finished' = finished \cup {s}
      /\ wpc[w] = "run" /\ wpc' = [wpc EXCEPT ![w] = "ran"]
  BY DEF RunTask
<1>2. s \in 1..head /\ s \notin finished
  BY <1>1 DEF HandedInv, HandsInv, HandedOutOnce, Holds
<1>3. t \in Tasks
  BY <1>2 DEF QueueInv, HandedInv, HandedOutOnce
<1>4. InHand(w) = t /\ t # Idle
  BY <1>1, <1>3 DEF InHand
<1>5. Hands' = [Hands EXCEPT ![w] = Idle]
  <2>1. InHand(w)' = Idle
    BY <1>1 DEF InHand
  <2>2. \A v \in Workers \ {w} : InHand(v)' = InHand(v)
    BY <1>1 DEF InHand, Idle
  <2> QED
    BY <2>1, <2>2 DEF Hands
<1>6. IsFiniteSet(SlotsOf(t))
  <2>1. IsFiniteSet(1..head)
    BY FS_Interval
  <2>2. SlotsOf(t) \in SUBSET (1..head)
    BY DEF SlotsOf, HandedInv, HandsInv
  <2> QED
    BY <2>1, <2>2, FS_Subset
<1>7. SlotsOf(t)' = SlotsOf(t) \cup {s}
  BY <1>1 DEF SlotsOf
<1>8. Cardinality(SlotsOf(t) \cup {s}) = Cardinality(SlotsOf(t)) + 1
  BY <1>2, <1>6, FS_AddElement DEF SlotsOf
<1>9. \A x \in Tasks \ {t} : {r \in finished' : request_queue'[r] = x} = SlotsOf(x)
  BY <1>1 DEF SlotsOf
<1>10. Served' = [Served EXCEPT ![t] = @ + 1]
  <2> DEFINE slots(x) == {r \in finished' : request_queue'[r] = x}
  <2>2. slots(t) = SlotsOf(t) \cup {s} /\ \A x \in Tasks \ {t} : slots(x) = SlotsOf(x)
    BY <1>1, <1>9 DEF SlotsOf
  <2>3. Served' = [x \in Tasks |-> Cardinality(slots(x))]
    BY DEF Served, SlotsOf
  <2> HIDE DEF t, s, slots, PoolTypeOK
  <2>4. \A x \in Tasks : Cardinality(slots(x)) =
          IF x = t THEN Cardinality(SlotsOf(t)) + 1 ELSE Cardinality(SlotsOf(x))
    BY <1>8, <2>2
  <2> QED
    BY <1>3, <2>3, <2>4 DEF Served
<1>11. Line' = Line
  BY <1>1 DEF Line
<1> QED
  BY <1>4, <1>5, <1>10, <1>11 DEF Abstract!End, Line, Hands, Served, SlotsOf

\* Every step of the pool is a step of the dispatcher, or invisible to it.
LEMMA NextDispatch ==
  ASSUME Idle \notin Tasks, PoolTypeOK, QueueInv, HandedInv, ReleaseInv, NoNullFunction,
         [PoolNext]_poolVars
  PROVE  Abstract!DispatchNext \/ (Line' = Line /\ Hands' = Hands /\ Served' = Served)
<1> DEFINE Stutter == Line' = Line /\ Hands' = Hands /\ Served' = Served
<1> USE DEF PoolTypeOK, WorkerGoes, OnlyGoes, queueVars, workerVars
<1>1. ASSUME UNCHANGED <<queueVars, workerVars>>
      PROVE  Stutter
  BY <1>1, ServiceFrame DEF Line
<1>2. ASSUME NEW w \in Workers,
             \/ Start(w) \/ Wait(w) \/ SpuriousWake(w) \/ Exit(w)
             \/ BeginTask(w) \/ EndTask(w)
      PROVE  Stutter
  <2>1. /\ UNCHANGED <<queueVars, request_task, finished>>
        /\ \A v \in Workers : wpc'[v] \in HandPC <=> wpc[v] \in HandPC
    BY <1>2 DEF Start, Wait, SpuriousWake, Exit, BeginTask, EndTask, HandPC
  <2> QED
    BY <2>1, ServiceFrame DEF Line
<1>3. ASSUME NEW w \in Workers, Take(w)
      PROVE  Abstract!DispatchNext
  BY <1>3, TakeBegins DEF Abstract!DispatchNext
<1>4. ASSUME NEW w \in Workers, RunTask(w)
      PROVE  Abstract!DispatchNext
  BY <1>4, RunTaskEnds DEF Abstract!DispatchNext
<1>5. ASSUME NEW t \in Tasks, NEW res, Enqueue(t, res)
      PROVE  Abstract!DispatchNext
  BY <1>5, EnqueueArrives
  DEF Abstract!DispatchNext, Abstract!Arrive, Line, Hands, Served, SlotsOf
<1>6. ASSUME NEW c \in Clients, SubmitEnqueue(c)
      PROVE  Abstract!DispatchNext
  BY <1>5, <1>6 DEF SubmitEnqueue
<1>7. ASSUME NEW c \in Clients, Poison(c)
      PROVE  Abstract!DispatchNext
  BY <1>5, <1>7 DEF Poison, Tasks
<1>8. ASSUME NEW c \in Clients,
             \/ Release(c) \/ JoinAndLoadIdle(c) \/ StoreIdle(c)
             \/ LoadAlive(c) \/ StoreAlive(c)
      PROVE  Stutter
  BY <1>1, <1>8 DEF Release, JoinAndLoadIdle, StoreIdle, LoadAlive, StoreAlive
<1>9. ASSUME NEW c \in Clients, NEW r \in Requests,
             SubmitAccepted(c, r) \/ SubmitRejected(c, r)
      PROVE  Stutter
  BY <1>1, <1>9 DEF SubmitAccepted, SubmitRejected
<1>10. CASE UNCHANGED poolVars
  BY <1>1, <1>10 DEF poolVars
<1> QED
  <2> HIDE DEF PoolTypeOK, WorkerGoes, OnlyGoes, queueVars, workerVars
  <2> QED
    BY <1>2, <1>3, <1>4, <1>6, <1>7, <1>8, <1>9, <1>10
    DEF PoolNext, Worker, WorkerLoop, ClientStep, ReleaseLoop

\* The pool implements TaskDispatch: tasks are taken in the order in which they
\* were submitted, by one worker each, and each is completed once, although the
\* workers run them outside the lock and several threads submit.
THEOREM DispatchCorrect ==
  ASSUME Idle \notin Tasks
  PROVE  PoolSpec => DispatchSpec
<1>1. PoolInit => Abstract!DispatchInit
  <2> SUFFICES ASSUME PoolInit
               PROVE  Abstract!DispatchInit
    OBVIOUS
  <2>1. Line = <<>>
    BY SubSeqEmpty DEF PoolInit, Line
  <2>2. Hands = [w \in Workers |-> Idle]
    BY DEF PoolInit, Hands, InHand
  <2>3. \A t \in Tasks : SlotsOf(t) = {}
    BY DEF PoolInit, SlotsOf
  <2>4. Served = [t \in Tasks |-> 0]
    BY <2>3, FS_EmptySet DEF Served
  <2> QED
    BY <2>1, <2>2, <2>4 DEF Abstract!DispatchInit, Line, Hands, Served, SlotsOf
<1>2. /\ PoolTypeOK /\ QueueInv /\ HandedInv /\ ReleaseInv /\ NoNullFunction
      /\ [PoolNext]_poolVars
      => [Abstract!DispatchNext]_(Abstract!dispatchVars)
  BY NextDispatch DEF Abstract!dispatchVars, Line, Hands, Served, SlotsOf
<1> QED
  BY <1>1, <1>2, PoolTypeCorrect, QueueCorrect, HandedCorrect, ReleaseCorrect,
     NoNullFunctionCorrect, PTL DEF PoolSpec, DispatchSpec, Abstract!DispatchSpec

-----------------------------------------------------------------------------
(* The counters *)

Busy == {w \in Workers : wpc[w] \in {"run", "ran"}}
Alive == {w \in Workers : wpc[w] # "start"}
Joining == \E c \in Clients : cpc[c] \notin {"idle", "enqueue", "poison"}

Counted ==
  /\ busyThreadNum = Cardinality(Busy)
  /\ aliveThreadNum = Cardinality(Alive)
  /\ idleThreadNum + busyThreadNum = aliveThreadNum

\* There are at most as many workers as threads, and the busy ones are alive.
LEMMA WorkersFinite ==
  /\ IsFiniteSet(Workers) /\ IsFiniteSet(Busy) /\ IsFiniteSet(Alive)
  /\ \A S \in SUBSET Workers : IsFiniteSet(S) /\ Cardinality(S) \in 0..THREAD_POOL_SIZE
<1>1. IsFiniteSet(Workers) /\ Cardinality(Workers) = THREAD_POOL_SIZE
  BY FS_Interval, PoolAssumption DEF Workers, PoolAssumption
<1>2. \A S \in SUBSET Workers : IsFiniteSet(S) /\ Cardinality(S) \in 0..THREAD_POOL_SIZE
  BY <1>1, PoolAssumption, FS_Subset, FS_CardinalityType DEF PoolAssumption
<1>3. Busy \in SUBSET Workers /\ Alive \in SUBSET Workers
  BY DEF Busy, Alive
<1> QED
  BY <1>1, <1>2, <1>3

\* Each worker's update of the counters follows its move.
LEMMA NextCounted ==
  ASSUME THREAD_POOL_SIZE <= MaxU32, PoolTypeOK, Counted, ~Joining, [PoolNext]_poolVars
  PROVE  Joining' \/ released' \/ Counted'
<1> USE DEF PoolTypeOK, WorkerGoes, OnlyGoes, ClientGoes, counterVars
<1>1. ASSUME UNCHANGED counterVars, Busy' = Busy, Alive' = Alive
      PROVE  Counted'
  BY <1>1 DEF Counted
<1>2. ASSUME NEW w \in Workers, Start(w)
      PROVE  Counted'
  <2>1. /\ aliveThreadNum' = Inc(aliveThreadNum) /\ idleThreadNum' = Inc(idleThreadNum)
        /\ busyThreadNum' = busyThreadNum
        /\ Busy' = Busy /\ Alive' = Alive \cup {w} /\ w \notin Alive
    BY <1>2 DEF Start, Busy, Alive
  <2>2. Cardinality(Alive') = Cardinality(Alive) + 1
    BY <2>1, WorkersFinite, FS_AddElement
  <2>3. Cardinality(Alive') <= THREAD_POOL_SIZE
    <3>1. Alive' \in SUBSET Workers
      BY DEF Alive
    <3> QED
      BY <3>1, WorkersFinite, PoolAssumption DEF PoolAssumption
  <2>4. busyThreadNum \in Nat /\ idleThreadNum \in Nat /\ aliveThreadNum \in Nat
    BY PoolAssumption DEF U32, PoolAssumption
  <2>5. aliveThreadNum # MaxU32 /\ idleThreadNum # MaxU32
    <3> HIDE DEF PoolTypeOK
    <3> QED
      BY <2>1, <2>2, <2>3, <2>4, PoolAssumption DEF Counted, PoolAssumption
  <2>6. aliveThreadNum' = aliveThreadNum + 1 /\ idleThreadNum' = idleThreadNum + 1
    BY <2>1, <2>5 DEF Inc
  <2> HIDE DEF PoolTypeOK
  <2> QED
    BY <2>1, <2>2, <2>4, <2>6 DEF Counted
<1>3. ASSUME NEW w \in Workers, BeginTask(w)
      PROVE  Counted'
  <2>1. /\ busyThreadNum' = Inc(busyThreadNum) /\ idleThreadNum' = Dec(idleThreadNum)
        /\ aliveThreadNum' = aliveThreadNum
        /\ Busy' = Busy \cup {w} /\ w \notin Busy /\ Alive' = Alive
        /\ Busy \cup {w} \subseteq Alive
    BY <1>3 DEF BeginTask, Busy, Alive
  <2>2. Cardinality(Busy') = Cardinality(Busy) + 1
    BY <2>1, WorkersFinite, FS_AddElement
  <2>3. Cardinality(Busy') <= Cardinality(Alive)
    BY <2>1, WorkersFinite, FS_Subset
  <2>4. Cardinality(Alive) \in 0..THREAD_POOL_SIZE
    BY WorkersFinite DEF Alive
  <2>5. busyThreadNum \in Nat /\ idleThreadNum \in Nat /\ aliveThreadNum \in Nat
    BY PoolAssumption DEF U32, PoolAssumption
  <2>6. busyThreadNum # MaxU32 /\ idleThreadNum # 0
    <3> HIDE DEF PoolTypeOK
    <3> QED
      BY <2>1, <2>2, <2>3, <2>4, <2>5, PoolAssumption DEF Counted, PoolAssumption
  <2>7. busyThreadNum' = busyThreadNum + 1 /\ idleThreadNum' = idleThreadNum - 1
    BY <2>1, <2>6 DEF Inc, Dec
  <2> HIDE DEF PoolTypeOK
  <2> QED
    BY <2>1, <2>2, <2>5, <2>7 DEF Counted
<1>4. ASSUME NEW w \in Workers, EndTask(w)
      PROVE  Counted'
  <2>1. /\ busyThreadNum' = Dec(busyThreadNum) /\ idleThreadNum' = Inc(idleThreadNum)
        /\ aliveThreadNum' = aliveThreadNum
        /\ Busy' = Busy \ {w} /\ w \in Busy /\ Alive' = Alive
    BY <1>4 DEF EndTask, Busy, Alive
  <2>2. Cardinality(Busy') = Cardinality(Busy) - 1
    BY <2>1, WorkersFinite, FS_RemoveElement
  <2>3. Cardinality(Busy') \in 0..THREAD_POOL_SIZE /\ Cardinality(Alive) \in 0..THREAD_POOL_SIZE
    <3>1. Busy' \in SUBSET Workers /\ Alive \in SUBSET Workers
      BY DEF Busy, Alive
    <3> QED
      BY <3>1, WorkersFinite
  <2>4. busyThreadNum \in Nat /\ idleThreadNum \in Nat /\ aliveThreadNum \in Nat
    BY PoolAssumption DEF U32, PoolAssumption
  <2>5. busyThreadNum # 0 /\ idleThreadNum # MaxU32
    <3> HIDE DEF PoolTypeOK
    <3> QED
      BY <2>2, <2>3, <2>4, PoolAssumption DEF Counted, PoolAssumption
  <2> HIDE DEF PoolTypeOK
  <2> QED
    BY <2>1, <2>2, <2>4, <2>5 DEF Counted, Inc, Dec
<1>5. ASSUME NEW w \in Workers,
             Take(w) \/ Wait(w) \/ Exit(w) \/ RunTask(w) \/ SpuriousWake(w)
      PROVE  Counted'
  <2>1. UNCHANGED counterVars /\ Busy' = Busy /\ Alive' = Alive
    BY <1>5 DEF Take, Wait, Exit, RunTask, SpuriousWake, Busy, Alive
  <2> QED
    BY <1>1, <2>1
<1>6. ASSUME NEW c \in Clients, SubmitEnqueue(c) \/ Poison(c)
      PROVE  Counted'
  <2>1. UNCHANGED counterVars /\ Busy' = Busy /\ Alive' = Alive
    BY <1>6 DEF SubmitEnqueue, Poison, Enqueue, SignalNotEmpty, Busy, Alive
  <2> QED
    BY <1>1, <2>1
<1>7. ASSUME NEW c \in Clients, Release(c)
      PROVE  Counted'
  BY <1>1, <1>7 DEF Release, workerVars, Busy, Alive
<1>8. ASSUME NEW c \in Clients,
             JoinAndLoadIdle(c) \/ StoreIdle(c) \/ LoadAlive(c) \/ StoreAlive(c)
      PROVE  FALSE
  BY <1>8 DEF JoinAndLoadIdle, StoreIdle, LoadAlive, StoreAlive, Joining
<1>9. ASSUME NEW c \in Clients, NEW r \in Requests,
             SubmitAccepted(c, r) \/ SubmitRejected(c, r)
      PROVE  Counted'
  BY <1>1, <1>9 DEF SubmitAccepted, SubmitRejected, workerVars, Busy, Alive
<1>10. CASE UNCHANGED poolVars
  BY <1>1, <1>10 DEF poolVars, workerVars, Busy, Alive
<1> QED
  <2> HIDE DEF PoolTypeOK, WorkerGoes, OnlyGoes, ClientGoes, counterVars
  <2> QED
    BY <1>2, <1>3, <1>4, <1>5, <1>6, <1>7, <1>8, <1>9, <1>10
    DEF PoolNext, Worker, WorkerLoop, ClientStep, ReleaseLoop

\* Only the join loop ends by leaving it, and then the pool is released.
LEMMA JoiningEnds ==
  ASSUME PoolTypeOK, ReleaseInv, [PoolNext]_poolVars, Joining
  PROVE  Joining' \/ released'
<1> USE DEF PoolTypeOK, ClientGoes
<1>1. PICK c \in Clients : cpc[c] \in {"join", "storeIdle", "loadAlive", "storeAlive"}
  BY DEF Joining, ClientPC
<1>2. CASE UNCHANGED cpc
  BY <1>2 DEF Joining
<1>3. ASSUME NEW d \in Clients, NEW pc,
             cpc[d] \in {"idle", "enqueue", "poison"}, cpc' = [cpc EXCEPT ![d] = pc]
      PROVE  Joining'
  BY <1>1, <1>3 DEF Joining
<1>4. ASSUME NEW d \in Clients, Release(d) \/ SubmitEnqueue(d) \/ Poison(d)
      PROVE  Joining'
  BY <1>3, <1>4 DEF Release, SubmitEnqueue, Poison
<1>5. ASSUME NEW d \in Clients, NEW r \in Requests,
             SubmitAccepted(d, r) \/ SubmitRejected(d, r)
      PROVE  Joining'
  BY <1>2, <1>3, <1>5 DEF SubmitAccepted, SubmitRejected
<1>6. ASSUME NEW d \in Clients,
             JoinAndLoadIdle(d) \/ StoreIdle(d) \/ LoadAlive(d) \/ StoreAlive(d)
      PROVE  Joining' \/ released'
  BY <1>6 DEF JoinAndLoadIdle, StoreIdle, LoadAlive, StoreAlive, Joining
<1>7. ASSUME NEW w \in Workers, Worker(w) \/ SpuriousWake(w)
      PROVE  UNCHANGED cpc
  BY <1>7 DEF Worker, WorkerLoop, Start, Take, Wait, Exit, BeginTask, EndTask,
     RunTask, SpuriousWake, OnlyGoes, clientVars
<1>8. CASE UNCHANGED poolVars
  BY <1>2, <1>8 DEF poolVars, clientVars
<1> QED
  <2> HIDE DEF PoolTypeOK, ClientGoes
  <2> QED
    BY <1>2, <1>4, <1>5, <1>6, <1>7, <1>8 DEF PoolNext, ClientStep, ReleaseLoop

\* A pool that was released stays so.
LEMMA ReleasedStays ==
  ASSUME PoolTypeOK, ReleaseInv, [PoolNext]_poolVars, released
  PROVE  released'
<1>1. \A c \in Clients : cpc[c] \notin Releasing
  BY DEF ReleaseInv
<1>2. ASSUME NEW c \in Clients, ReleaseLoop(c)
      PROVE  FALSE
  BY <1>1, <1>2 DEF ReleaseLoop, Poison, JoinAndLoadIdle, StoreIdle, LoadAlive,
     StoreAlive, ClientGoes, Releasing
<1>3. ASSUME NEW c \in Clients, Release(c) \/ SubmitEnqueue(c)
      PROVE  released' = released
  BY <1>3 DEF Release, SubmitEnqueue, releaseVars
<1>4. ASSUME NEW w \in Workers, Worker(w) \/ SpuriousWake(w)
      PROVE  released' = released
  BY <1>4 DEF Worker, WorkerLoop, Start, Take, Wait, Exit, BeginTask, EndTask,
     RunTask, SpuriousWake, OnlyGoes, clientVars, releaseVars
<1>5. ASSUME NEW c \in Clients, NEW r \in Requests,
             SubmitAccepted(c, r) \/ SubmitRejected(c, r)
      PROVE  released' = released
  BY <1>5 DEF SubmitAccepted, SubmitRejected, releaseVars
<1>6. CASE UNCHANGED poolVars
  BY <1>6 DEF poolVars, clientVars, releaseVars
<1> QED
  BY <1>2, <1>3, <1>4, <1>5, <1>6 DEF PoolNext, ClientStep

\* Until releaseAll joins, busyThreadNum counts the workers with a task,
\* aliveThreadNum those that have started, and idleThreadNum the rest of them:
\* the three updates, at different places of worker_thread, never drift apart
\* and never wrap, if the number of threads is a u32.
THEOREM CountersAgreeCorrect ==
  ASSUME THREAD_POOL_SIZE <= MaxU32
  PROVE  PoolSpec => []CountersAgree
<1> DEFINE I == Joining \/ released \/ Counted
<1>1. PoolInit => I
  <2> SUFFICES ASSUME PoolInit
               PROVE  Counted
    OBVIOUS
  <2>1. Busy = {} /\ Alive = {}
    BY DEF PoolInit, Busy, Alive
  <2> QED
    BY <2>1, FS_EmptySet DEF PoolInit, Counted
<1>2. PoolTypeOK /\ ReleaseInv /\ I /\ [PoolNext]_poolVars => I'
  <2> SUFFICES ASSUME PoolTypeOK, ReleaseInv, I, [PoolNext]_poolVars
               PROVE  Joining' \/ released' \/ Counted'
    OBVIOUS
  <2>1. CASE Joining
    BY <2>1, JoiningEnds
  <2>2. CASE released
    BY <2>2, ReleasedStays
  <2>3. CASE ~Joining /\ Counted
    BY <2>3, NextCounted
  <2> QED
    BY <2>1, <2>2, <2>3
<1>3. I => CountersAgree
  BY DEF CountersAgree, Joining, Counted, Busy, Alive
<1> QED
  BY <1>1, <1>2, <1>3, PoolTypeCorrect, ReleaseCorrect, PTL DEF PoolSpec

-----------------------------------------------------------------------------
(* Requests behind the sentinels *)

Behind == {s \in 1..tail : ~IsSentinel(s) /\ \E t \in 1..(s - 1) : IsSentinel(t)}
Pending == {c \in Clients : cpc[c] = "enqueue"}

\* The requests behind a sentinel and those that may still come there are from
\* different clients, none of which is the one that releases.
FewInv == ~isRunning => Cardinality(Behind) + Cardinality(Pending) < Cardinality(Clients)

LEMMA BehindFinite ==
  ASSUME PoolTypeOK, IsFiniteSet(Clients)
  PROVE  /\ IsFiniteSet(Behind) /\ Cardinality(Behind) \in Nat
         /\ IsFiniteSet(Pending) /\ Cardinality(Pending) \in Nat
<1>1. IsFiniteSet(1..tail)
  BY FS_Interval DEF PoolTypeOK
<1>2. Behind \in SUBSET (1..tail) /\ Pending \in SUBSET Clients
  BY DEF Behind, Pending
<1> QED
  BY <1>1, <1>2, FS_Subset, FS_CardinalityType

\* Enqueue puts at most its own task behind a sentinel.
LEMMA EnqueueBehind ==
  ASSUME PoolTypeOK, QueueInv, NEW t \in Tasks, NEW res, Enqueue(t, res)
  PROVE  Behind' = Behind \/ (t # Sentinel /\ Behind' = Behind \cup {tail + 1})
<1>1. /\ tail \in Nat /\ tail' = tail + 1 /\ request_queue'[tail + 1] = t
      /\ \A s \in 1..tail : request_queue'[s] = request_queue[s]
  BY EnqueueSlots DEF PoolTypeOK
<1>2. ASSUME NEW s \in 1..tail
      PROVE  s \in Behind' <=> s \in Behind
  <2>1. \A u \in 1..s : IsSentinel(u)' <=> IsSentinel(u)
    BY <1>1 DEF IsSentinel
  <2> QED
    BY <1>1, <2>1 DEF Behind
<1>3. Behind \subseteq 1..tail /\ Behind' \subseteq 1..(tail + 1)
  BY <1>1 DEF Behind
<1>4. t = Sentinel => tail + 1 \notin Behind'
  BY <1>1 DEF Behind, IsSentinel
<1>5. \A s \in 1..(tail + 1) : s \in 1..tail \/ s = tail + 1
  BY <1>1
<1> QED
  BY <1>2, <1>3, <1>4, <1>5

LEMMA NextFew ==
  ASSUME IsFiniteSet(Clients), PoolTypeOK, QueueInv, ReleaseInv, FewInv,
         [PoolNext]_poolVars
  PROVE  FewInv'
<1>F. /\ IsFiniteSet(Behind) /\ Cardinality(Behind) \in Nat
      /\ IsFiniteSet(Pending) /\ Cardinality(Pending) \in Nat
  BY BehindFinite
<1> USE DEF PoolTypeOK, ClientGoes, queueVars
<1>1. ASSUME UNCHANGED <<queueVars, isRunning>>, Pending' = Pending
      PROVE  FewInv'
  <2>1. Behind' = Behind
    BY <1>1 DEF Behind, IsSentinel
  <2> QED
    BY <1>1, <2>1 DEF FewInv
<1>2. ASSUME NEW w \in Workers, Worker(w) \/ SpuriousWake(w)
      PROVE  FewInv'
  <2>1. UNCHANGED <<request_queue, tail, isRunning, cpc>>
    BY <1>2 DEF Worker, WorkerLoop, Start, Take, Wait, Exit, BeginTask, EndTask,
       RunTask, SpuriousWake, OnlyGoes, clientVars
  <2>2. Behind' = Behind /\ Pending' = Pending
    BY <2>1 DEF Behind, Pending, IsSentinel
  <2> QED
    BY <2>1, <2>2 DEF FewInv
<1>3. ASSUME NEW c \in Clients, Release(c)
      PROVE  FewInv'
  <2>1. Behind' = {}
    BY <1>3 DEF Release, Behind, IsSentinel, ReleaseInv
  <2>2. Pending' \in SUBSET (Clients \ {c})
    BY <1>3 DEF Release, Pending
  <2>3. IsFiniteSet(Clients \ {c}) /\ Cardinality(Clients \ {c}) = Cardinality(Clients) - 1
    BY FS_RemoveElement
  <2>4. Cardinality(Pending') <= Cardinality(Clients) - 1 /\ IsFiniteSet(Pending')
    BY <2>2, <2>3, FS_Subset
  <2>5. Cardinality(Pending') \in Nat /\ Cardinality(Clients) \in Nat
    BY <2>4, FS_CardinalityType
  <2>6. Cardinality(Behind') = 0
    BY <2>1, FS_EmptySet
  <2> QED
    BY <2>4, <2>5, <2>6 DEF FewInv
\* A pending request is pending no more, and may be behind a sentinel.
<1>4. ASSUME NEW c \in Clients, SubmitEnqueue(c)
      PROVE  FewInv'
  <2> SUFFICES ASSUME ~isRunning
               PROVE  FewInv'
    BY <1>4 DEF SubmitEnqueue, Enqueue, FewInv
  <2>1. PICK res \in {"OK", "NO_MEMORY"} : Enqueue(ctask[c], res)
    BY <1>4 DEF SubmitEnqueue
  <2>2. Behind' = Behind \/ Behind' = Behind \cup {tail + 1}
    BY <2>1, EnqueueBehind
  <2>3. Cardinality(Behind') \in {Cardinality(Behind), Cardinality(Behind) + 1}
    <3>1. Cardinality(Behind \cup {tail + 1})
            \in {Cardinality(Behind), Cardinality(Behind) + 1}
      BY <1>F, FS_AddElement
    <3> QED
      BY <2>2, <3>1
  <2>4. Pending' = Pending \ {c} /\ c \in Pending
    BY <1>4 DEF SubmitEnqueue, Pending
  <2>5. Cardinality(Pending') = Cardinality(Pending) - 1
    BY <1>F, <2>4, FS_RemoveElement
  <2>6. Cardinality(Clients) \in Nat
    BY FS_CardinalityType
  <2> QED
    BY <1>F, <2>3, <2>5, <2>6 DEF FewInv
<1>5. ASSUME NEW c \in Clients, Poison(c)
      PROVE  FewInv'
  <2>1. PICK res \in {"OK", "NO_MEMORY"} : Enqueue(Sentinel, res)
    BY <1>5 DEF Poison
  <2>2. Behind' = Behind
    BY <2>1, EnqueueBehind DEF Tasks
  <2>3. Pending' = Pending
    BY <1>5 DEF Poison, Pending
  <2>4. isRunning' = isRunning
    BY <2>1 DEF Enqueue
  <2> QED
    BY <2>2, <2>3, <2>4 DEF FewInv
<1>6. ASSUME NEW c \in Clients,
             JoinAndLoadIdle(c) \/ StoreIdle(c) \/ LoadAlive(c) \/ StoreAlive(c)
      PROVE  FewInv'
  <2>1. UNCHANGED <<queueVars, isRunning>> /\ Pending' = Pending
    BY <1>6 DEF JoinAndLoadIdle, StoreIdle, LoadAlive, StoreAlive, Pending
  <2> QED
    BY <1>1, <2>1
\* A closing pool accepts nothing more.
<1>7. ASSUME NEW c \in Clients, NEW r \in Requests,
             SubmitAccepted(c, r) \/ SubmitRejected(c, r)
      PROVE  FewInv'
  <2>1. CASE SubmitAccepted(c, r)
    BY <2>1 DEF SubmitAccepted, Accepts, FewInv
  <2>2. CASE SubmitRejected(c, r)
    BY <1>1, <2>2 DEF SubmitRejected, Pending
  <2> QED
    BY <1>7, <2>1, <2>2
<1>8. CASE UNCHANGED poolVars
  BY <1>1, <1>8 DEF poolVars, clientVars, Pending
<1> QED
  <2> HIDE DEF PoolTypeOK, ClientGoes, queueVars
  <2> QED
    BY <1>2, <1>3, <1>4, <1>5, <1>6, <1>7, <1>8 DEF PoolNext, ClientStep, ReleaseLoop

\* However many requests race with releaseAll, fewer lie behind a sentinel than
\* there are clients: one at most from each client that had passed the unlocked
\* test of isRunning, and none from the client that releases.
THEOREM FewBehindSentinelsCorrect ==
  ASSUME IsFiniteSet(Clients), Clients # {}
  PROVE  PoolSpec => []FewBehindSentinels
<1>1. PoolInit => FewInv
  BY DEF PoolInit, FewInv
<1>2. PoolTypeOK /\ QueueInv /\ ReleaseInv /\ FewInv /\ [PoolNext]_poolVars => FewInv'
  BY NextFew
<1>3. PoolTypeOK /\ ReleaseInv /\ FewInv => FewBehindSentinels
  <2> SUFFICES ASSUME PoolTypeOK, ReleaseInv, FewInv
               PROVE  Cardinality(Behind) < Cardinality(Clients)
    BY DEF FewBehindSentinels, Behind
  <2>1. Cardinality(Clients) \in Nat /\ Cardinality(Clients) # 0
    BY FS_EmptySet, FS_CardinalityType
  <2>2. CASE isRunning
    <3>1. Behind = {}
      BY <2>2 DEF Behind, ReleaseInv, PoolTypeOK
    <3> QED
      BY <2>1, <3>1, FS_EmptySet
  <2>3. CASE ~isRunning
    BY <2>1, <2>3, BehindFinite DEF FewInv
  <2> QED
    BY <2>2, <2>3
<1> QED
  BY <1>1, <1>2, <1>3, PoolTypeCorrect, QueueCorrect, ReleaseCorrect, PTL DEF PoolSpec

-----------------------------------------------------------------------------
(* Signals, and the joins of releaseAll                                    *)

Fetching == {v \in Workers : wpc[v] = "fetch"}

LEMMA FetchingFinite == IsFiniteSet(Fetching) /\ Cardinality(Fetching) \in Nat
<1>1. Fetching \in SUBSET Workers
  BY DEF Fetching
<1> QED
  BY <1>1, WorkersFinite, PoolAssumption, FS_CardinalityType DEF PoolAssumption

\* A task is added with a signal: nobody sleeps, or one sleeper goes to fetch.
LEMMA EnqueueSignals ==
  ASSUME PoolTypeOK, SignalsSuffice, NEW t, NEW res, Enqueue(t, res)
  PROVE  SignalsSuffice'
<1>1. todoCnt' = todoCnt + 1 /\ todoCnt \in Nat
  BY DEF Enqueue, PoolTypeOK
<1>2. CASE {w \in Workers : wpc[w] = "wait"} = {} /\ UNCHANGED wpc
  BY <1>2 DEF SignalsSuffice
<1>3. ASSUME NEW v \in Workers, wpc[v] = "wait", wpc' = [wpc EXCEPT ![v] = "fetch"]
      PROVE  SignalsSuffice'
  <2>1. Fetching' = Fetching \cup {v} /\ v \notin Fetching
    BY <1>3 DEF Fetching, PoolTypeOK
  <2>2. Cardinality(Fetching') = Cardinality(Fetching) + 1
    BY <2>1, FetchingFinite, FS_AddElement
  <2>3. todoCnt <= Cardinality(Fetching)
    BY <1>3 DEF SignalsSuffice, Fetching
  <2>4. todoCnt' <= Cardinality(Fetching')
    BY <1>1, <2>2, <2>3, FetchingFinite
  <2> QED
    BY <2>4 DEF SignalsSuffice, Fetching
<1> QED
  BY <1>2, <1>3 DEF Enqueue, SignalNotEmpty

LEMMA NextSignals ==
  ASSUME PoolTypeOK, SignalsSuffice, [PoolNext]_poolVars
  PROVE  SignalsSuffice'
<1>T. todoCnt \in Nat /\ wpc \in [Workers -> WorkerPC]
  BY DEF PoolTypeOK
<1> USE DEF WorkerGoes, OnlyGoes, ClientGoes, queueVars, workerVars
\* No task comes, nobody falls asleep, and who was about to fetch still is.
<1>1. ASSUME UNCHANGED todoCnt, Fetching \subseteq Fetching',
             \A w \in Workers : wpc'[w] = "wait" => wpc[w] = "wait"
      PROVE  SignalsSuffice'
  <2>1. Fetching' \in SUBSET Workers
    BY DEF Fetching
  <2>2. IsFiniteSet(Fetching')
    BY <2>1, WorkersFinite
  <2>3. Cardinality(Fetching) <= Cardinality(Fetching') /\ Cardinality(Fetching') \in Nat
    BY <1>1, <2>2, FS_Subset, FS_CardinalityType
  <2> QED
    BY <1>T, <1>1, <2>3, FetchingFinite DEF SignalsSuffice, Fetching
<1>2. ASSUME NEW w \in Workers,
             \/ Start(w) \/ SpuriousWake(w) \/ Exit(w) \/ BeginTask(w) \/ EndTask(w) \/ RunTask(w)
      PROVE  SignalsSuffice'
  <2>1. /\ UNCHANGED todoCnt /\ Fetching \subseteq Fetching'
        /\ \A v \in Workers : wpc'[v] = "wait" => wpc[v] = "wait"
    BY <1>T, <1>2 DEF Start, SpuriousWake, Exit, BeginTask, EndTask, RunTask, Fetching
  <2> QED
    BY <1>1, <2>1
\* One that was to fetch a task has fetched one.
<1>3. ASSUME NEW w \in Workers, Take(w)
      PROVE  SignalsSuffice'
  <2>1. Fetching' = Fetching \ {w} /\ w \in Fetching
    BY <1>T, <1>3 DEF Take, Fetching
  <2>2. Cardinality(Fetching') = Cardinality(Fetching) - 1
    BY <2>1, FetchingFinite, FS_RemoveElement
  <2>3. /\ todoCnt' = todoCnt - 1
        /\ \A v \in Workers : wpc'[v] = "wait" => wpc[v] = "wait"
    BY <1>T, <1>3 DEF Take, AdvanceHead
  <2>4. ASSUME NEW v \in Workers, wpc'[v] = "wait"
        PROVE  todoCnt' <= Cardinality(Fetching')
    <3>1. todoCnt <= Cardinality(Fetching)
      BY <2>3, <2>4 DEF SignalsSuffice, Fetching
    <3> QED
      BY <1>T, <2>2, <2>3, <3>1, FetchingFinite
  <2> QED
    BY <2>4 DEF SignalsSuffice, Fetching
\* A worker goes to sleep when there is no task.
<1>4. ASSUME NEW w \in Workers, Wait(w)
      PROVE  SignalsSuffice'
  <2>1. todoCnt' = 0
    BY <1>4 DEF Wait
  <2>2. Fetching' \in SUBSET Workers
    BY DEF Fetching
  <2>3. Cardinality(Fetching') \in Nat
    BY <2>2, WorkersFinite, FS_CardinalityType
  <2> QED
    BY <2>1, <2>3 DEF SignalsSuffice, Fetching
<1>5. ASSUME NEW c \in Clients, SubmitEnqueue(c) \/ Poison(c)
      PROVE  SignalsSuffice'
  BY <1>5, EnqueueSignals DEF SubmitEnqueue, Poison
<1>6. ASSUME UNCHANGED <<todoCnt, wpc>>
      PROVE  SignalsSuffice'
  BY <1>6 DEF SignalsSuffice
<1>7. ASSUME NEW c \in Clients,
             \/ Release(c) \/ JoinAndLoadIdle(c) \/ StoreIdle(c) \/ LoadAlive(c) \/ StoreAlive(c)
      PROVE  SignalsSuffice'
  BY <1>6, <1>7 DEF Release, JoinAndLoadIdle, StoreIdle, LoadAlive, StoreAlive
<1>8. ASSUME NEW c \in Clients, NEW r \in Requests, SubmitAccepted(c, r) \/ SubmitRejected(c, r)
      PROVE  SignalsSuffice'
  BY <1>6, <1>8 DEF SubmitAccepted, SubmitRejected
<1>9. CASE UNCHANGED poolVars
  BY <1>6, <1>9 DEF poolVars
<1> QED
  <2> HIDE DEF WorkerGoes, OnlyGoes, ClientGoes, queueVars, workerVars
  <2> QED
    BY <1>2, <1>3, <1>4, <1>5, <1>7, <1>8, <1>9
    DEF PoolNext, Worker, WorkerLoop, ClientStep, ReleaseLoop

\* One pthread_cond_signal for each task is enough, whatever wakes spuriously: while
\* a worker sleeps, no more tasks are queued than workers are about to take one.
THEOREM SignalsSufficeCorrect == PoolSpec => []SignalsSuffice
<1>1. PoolInit => SignalsSuffice
  BY DEF PoolInit, SignalsSuffice
<1> QED
  BY <1>1, NextSignals, PoolTypeCorrect, PTL DEF PoolSpec

JoinPC == {"join", "storeIdle", "loadAlive", "storeAlive"}

\* The function of a sentinel was not called, and the joins begin when there is a
\* sentinel for each worker.
PoisonedInv ==
  /\ \A s \in finished : ~IsSentinel(s)
  /\ \A c \in Clients : cpc[c] \in JoinPC => Cardinality(Sentinels) = THREAD_POOL_SIZE

LEMMA NextPoisoned ==
  ASSUME PoolTypeOK, QueueInv, HandedInv, ReleaseInv, JoinInv, NoNullFunction, PoisonedInv,
         [PoolNext]_poolVars
  PROVE  PoisonedInv'
<1>T. /\ cpc \in [Clients -> ClientPC] /\ joinIdx \in 1..THREAD_POOL_SIZE
      /\ head \in Nat /\ tail \in Nat /\ head <= tail /\ finished \subseteq 1..head
  BY DEF PoolTypeOK, HandedInv, HandsInv, HandedOutOnce
<1> USE DEF WorkerGoes, OnlyGoes, ClientGoes, queueVars, workerVars, clientVars, releaseVars
<1>1. ASSUME UNCHANGED <<request_queue, tail, finished>>,
             \A c \in Clients : cpc'[c] \in JoinPC => cpc[c] \in JoinPC
      PROVE  PoisonedInv'
  BY <1>1 DEF PoisonedInv, Sentinels, IsSentinel
<1>2. ASSUME NEW w \in Workers,
             \/ Start(w) \/ Take(w) \/ Wait(w) \/ SpuriousWake(w) \/ Exit(w)
             \/ BeginTask(w) \/ EndTask(w)
      PROVE  PoisonedInv'
  BY <1>1, <1>2 DEF Start, Take, Wait, SpuriousWake, Exit, BeginTask, EndTask
<1>3. ASSUME NEW w \in Workers, RunTask(w)
      PROVE  PoisonedInv'
  <2>1. /\ UNCHANGED <<request_queue, tail, cpc>> /\ finished' = finished \cup {request_task[w]}
        /\ ~IsSentinel(request_task[w])
    BY <1>3 DEF RunTask, NoNullFunction
  <2> QED
    BY <2>1 DEF PoisonedInv, Sentinels, IsSentinel
<1>4. ASSUME NEW c \in Clients,
             Release(c) \/ JoinAndLoadIdle(c) \/ StoreIdle(c) \/ LoadAlive(c) \/ StoreAlive(c)
      PROVE  PoisonedInv'
  <2>1. /\ UNCHANGED <<request_queue, tail, finished>>
        /\ \A d \in Clients : cpc'[d] \in JoinPC => cpc[d] \in JoinPC
    BY <1>T, <1>4 DEF Release, JoinAndLoadIdle, StoreIdle, LoadAlive, StoreAlive, JoinPC
  <2> QED
    BY <1>1, <2>1
<1>5. ASSUME NEW c \in Clients, NEW r \in Requests, SubmitAccepted(c, r) \/ SubmitRejected(c, r)
      PROVE  PoisonedInv'
  <2>1. /\ UNCHANGED <<request_queue, tail, finished>>
        /\ \A d \in Clients : cpc'[d] \in JoinPC => cpc[d] \in JoinPC
    BY <1>T, <1>5 DEF SubmitAccepted, SubmitRejected, JoinPC
  <2> QED
    BY <1>1, <2>1
\* The slots that were there stay as they are.
<1>6. ASSUME NEW t \in Tasks, NEW res, Enqueue(t, res)
      PROVE  /\ \A s \in finished' : ~IsSentinel(s)'
             /\ Sentinels' = IF t = Sentinel THEN Sentinels \cup {tail + 1} ELSE Sentinels
  <2>1. /\ tail' = tail + 1 /\ request_queue'[tail + 1] = t
        /\ \A s \in 1..tail : request_queue'[s] = request_queue[s]
    BY <1>6, EnqueueSlots
  <2>2. finished' = finished
    BY <1>6 DEF Enqueue
  <2>3. \A s \in finished' : ~IsSentinel(s)'
    BY <1>T, <2>1, <2>2 DEF PoisonedInv, IsSentinel
  <2>4. \A s \in 1..(tail + 1) : s \in 1..tail \/ s = tail + 1
    BY <1>T
  <2>5. \A s : s \in Sentinels' <=> s \in Sentinels \/ (s = tail + 1 /\ t = Sentinel)
    BY <1>T, <2>1, <2>4 DEF Sentinels, IsSentinel
  <2> QED
    BY <2>3, <2>5
<1>7. ASSUME NEW c \in Clients, SubmitEnqueue(c)
      PROVE  PoisonedInv'
  <2>1. PICK res \in {"OK", "NO_MEMORY"} : Enqueue(ctask[c], res)
    BY <1>7 DEF SubmitEnqueue
  <2>2. ctask[c] \in Tasks /\ ctask[c] # Sentinel
    BY <1>7, PoolAssumption DEF SubmitEnqueue, ReleaseInv, PoolAssumption, Tasks
  <2>3. /\ \A s \in finished' : ~IsSentinel(s)'
        /\ Sentinels' = Sentinels
    BY <1>6, <2>1, <2>2
  <2>4. \A d \in Clients : cpc'[d] \in JoinPC => cpc[d] \in JoinPC
    BY <1>T, <1>7 DEF SubmitEnqueue, JoinPC
  <2> QED
    BY <2>3, <2>4 DEF PoisonedInv
\* The last sentinel is the one of the last worker.
<1>8. ASSUME NEW c \in Clients, Poison(c)
      PROVE  PoisonedInv'
  <2>1. PICK res \in {"OK", "NO_MEMORY"} : Enqueue(Sentinel, res)
    BY <1>8 DEF Poison
  <2>2. /\ \A s \in finished' : ~IsSentinel(s)'
        /\ Sentinels' = Sentinels \cup {tail + 1}
    BY <1>6, <2>1 DEF Tasks
  <2>3. tail + 1 \notin Sentinels
    BY <1>T DEF Sentinels
  <2>4. Cardinality(Sentinels') = joinIdx
    <3>1. Cardinality(Sentinels') = Cardinality(Sentinels) + 1
      BY <2>2, <2>3, SentinelsFinite, FS_AddElement
    <3>2. Cardinality(Sentinels) = joinIdx - 1
      BY <1>8 DEF Poison, JoinInv
    <3> QED
      BY <1>T, <3>1, <3>2
  <2>5. cpc'[c] = "join" => joinIdx = THREAD_POOL_SIZE
    BY <1>T, <1>8, PoolAssumption DEF Poison, LastSentinel, PoolAssumption
  <2>6. cpc'[c] \in {"poison", "join"} /\ \A d \in Clients \ {c} : cpc'[d] = cpc[d]
    BY <1>T, <1>8 DEF Poison
  <2>7. \A d \in Clients \ {c} : cpc[d] \notin JoinPC
    BY <1>8 DEF Poison, ReleaseInv, Releasing, JoinPC
  <2> QED
    BY <2>2, <2>4, <2>5, <2>6, <2>7 DEF PoisonedInv, JoinPC
<1>9. CASE UNCHANGED poolVars
  BY <1>1, <1>9 DEF poolVars
<1> QED
  <2> HIDE DEF WorkerGoes, OnlyGoes, ClientGoes, queueVars, workerVars, clientVars, releaseVars
  <2> QED
    BY <1>2, <1>3, <1>4, <1>5, <1>7, <1>8, <1>9
    DEF PoolNext, Worker, WorkerLoop, ClientStep, ReleaseLoop

\* If a worker sleeps and every other sleeps or has exited, the queue is empty.
LEMMA SleepersLeaveNoTask ==
  ASSUME PoolTypeOK, QueueInv, SignalsSuffice,
         NEW v \in Workers, wpc[v] = "wait",
         \A w \in Workers : wpc[w] \in {"wait", "exited"}
  PROVE  head = tail
<1>1. Fetching = {}
  BY DEF Fetching
<1>2. todoCnt <= 0
  BY <1>1, FS_EmptySet DEF SignalsSuffice, Fetching
<1> QED
  BY <1>2 DEF PoolTypeOK, QueueInv

\* Then N sentinels were taken by fewer than N workers.
LEMMA SleepersLeaveNoJoin ==
  ASSUME PoolTypeOK, QueueInv, HandedInv, PoisonedInv, SignalsSuffice,
         NEW c \in Clients, cpc[c] = "join",
         \A w \in Workers : wpc[w] \in {"wait", "exited"}
  PROVE  \A v \in Workers : wpc[v] = "exited"
<1> SUFFICES ASSUME NEW v \in Workers, wpc[v] = "wait"
             PROVE  FALSE
  OBVIOUS
<1>1. head = tail
  BY SleepersLeaveNoTask
<1>2. ASSUME NEW s \in Sentinels
      PROVE  \E w \in Workers \ {v} : wpc[w] = "exited" /\ request_task[w] = s
  <2>1. s \in 1..tail /\ s <= head /\ s \notin finished
    BY <1>1 DEF Sentinels, PoisonedInv, PoolTypeOK
  <2>2. PICK w \in Workers : Holds(w, s)
    BY <2>1 DEF HandedInv, HandedOutOnce
  <2> QED
    BY <2>2 DEF Holds
<1> DEFINE others == Workers \ {v}
           taker == [s \in Sentinels |-> CHOOSE w \in others : request_task[w] = s]
<1>3. taker \in [Sentinels -> others] /\ \A s \in Sentinels : request_task[taker[s]] = s
  BY <1>2
<1>4. IsFiniteSet(Workers) /\ Cardinality(Workers) = THREAD_POOL_SIZE
  BY FS_Interval, PoolAssumption DEF Workers, PoolAssumption
<1>5. IsFiniteSet(others) /\ Cardinality(others) = THREAD_POOL_SIZE - 1
  BY <1>4, FS_RemoveElement
<1>6. Cardinality(Sentinels) = THREAD_POOL_SIZE /\ IsFiniteSet(Sentinels)
  BY SentinelsFinite DEF PoisonedInv, JoinPC
<1>7. Cardinality(others) < Cardinality(Sentinels)
  BY <1>5, <1>6, PoolAssumption DEF PoolAssumption
<1> QED
  <2> HIDE DEF others, taker
  <2>1. \E s, t \in Sentinels : s # t /\ taker[s] = taker[t]
    BY <1>3, <1>5, <1>6, <1>7, FS_PigeonHole
  <2> QED
    BY <1>3, <2>1

\* releaseAll never joins in vain, with any number of workers and however many
\* requests race with it: a worker that has not exited sleeps only while another is
\* awake, for there is a sentinel for each and a signal for each sentinel.
THEOREM JoinNeverStuckCorrect == PoolSpec => []JoinNeverStuck
<1>1. PoolInit => PoisonedInv
  BY DEF PoolInit, PoisonedInv, JoinPC
<1>2. /\ PoolTypeOK /\ QueueInv /\ HandedInv /\ ReleaseInv /\ JoinInv /\ NoNullFunction
      /\ PoisonedInv /\ [PoolNext]_poolVars
      => PoisonedInv'
  BY NextPoisoned
<1>3. PoolTypeOK /\ QueueInv /\ HandedInv /\ PoisonedInv /\ SignalsSuffice => JoinNeverStuck
  <2> SUFFICES ASSUME PoolTypeOK, QueueInv, HandedInv, PoisonedInv, SignalsSuffice,
                      NEW c \in Clients, cpc[c] = "join",
                      \A w \in Workers : wpc[w] \in {"wait", "exited"}
               PROVE  Joinable(joinIdx)
    BY DEF JoinNeverStuck
  <2>1. joinIdx \in Workers
    BY DEF PoolTypeOK, Workers
  <2> QED
    BY <2>1, SleepersLeaveNoJoin DEF Joinable
<1> QED
  BY <1>1, <1>2, <1>3, PoolTypeCorrect, QueueCorrect, HandedCorrect, ReleaseCorrect,
     JoinCorrect, NoNullFunctionCorrect, SignalsSufficeCorrect, PTL DEF PoolSpec

\* Workers that have all exited took a sentinel each, before any task that is left.
LEMMA ExitedTookSentinels ==
  ASSUME PoolTypeOK, HandedInv, JoinInv, NEW s \in (head + 1)..tail,
         \A w \in Workers : wpc[w] = "exited"
  PROVE  THREAD_POOL_SIZE <= Cardinality(SentinelsBefore(s))
<1> DEFINE sentinels == SentinelsBefore(s)
           taken == [w \in Workers |-> request_task[w]]
<1>1. \A w \in Workers : request_task[w] \in sentinels
  <2>1. \A w \in Workers : request_task[w] \in 1..head
    BY DEF HandedInv, HandsInv, PoolTypeOK
  <2>2. head < s
    BY DEF PoolTypeOK
  <2> QED
    BY <2>1, <2>2 DEF JoinInv, SentinelsBefore, PoolTypeOK
<1>2. \A v, w \in Workers : request_task[v] = request_task[w] => v = w
  BY DEF HandedInv, HandedOutOnce, Holds
<1>3. taken \in [Workers -> sentinels] /\ \A v, w \in Workers : taken[v] = taken[w] => v = w
  BY <1>1, <1>2
<1>4. IsFiniteSet(Workers) /\ Cardinality(Workers) = THREAD_POOL_SIZE
  BY FS_Interval, PoolAssumption DEF Workers, PoolAssumption
<1>5. IsFiniteSet(sentinels) /\ Cardinality(sentinels) \in Nat
  <2>1. IsFiniteSet(1..(s - 1))
    BY FS_Interval DEF PoolTypeOK
  <2>2. sentinels \in SUBSET (1..(s - 1))
    BY DEF SentinelsBefore
  <2> QED
    BY <2>1, <2>2, FS_Subset, FS_CardinalityType
<1>6. ~(Cardinality(sentinels) < Cardinality(Workers))
  <2> HIDE DEF sentinels, taken
  <2> QED
    BY <1>3, <1>4, <1>5, FS_PigeonHole
<1> QED
  BY <1>4, <1>5, <1>6, PoolAssumption DEF PoolAssumption

\* What is safety in the claim that an accepted request is run: with any number of
\* workers and clients, a task that some worker can still reach is never in the queue
\* while all of them sleep or have exited, whatever signals and sentinels race.
THEOREM TaskHasWorkerCorrect == PoolSpec => []TaskHasWorker
<1>1. PoolTypeOK /\ QueueInv /\ HandedInv /\ JoinInv /\ SignalsSuffice => TaskHasWorker
  <2> SUFFICES ASSUME PoolTypeOK, QueueInv, HandedInv, JoinInv, SignalsSuffice,
                      NEW s \in (head + 1)..tail,
                      Cardinality(SentinelsBefore(s)) < THREAD_POOL_SIZE,
                      \A w \in Workers : wpc[w] \in {"wait", "exited"}
               PROVE  FALSE
    BY DEF TaskHasWorker
  <2>1. head # tail
    BY DEF PoolTypeOK
  <2>2. \A w \in Workers : wpc[w] = "exited"
    BY <2>1, SleepersLeaveNoTask
  <2>3. THREAD_POOL_SIZE <= Cardinality(SentinelsBefore(s))
    BY <2>2, ExitedTookSentinels
  <2>4. Cardinality(SentinelsBefore(s)) \in Nat
    <3>1. IsFiniteSet(1..(s - 1)) /\ SentinelsBefore(s) \in SUBSET (1..(s - 1))
      BY FS_Interval DEF SentinelsBefore, PoolTypeOK
    <3> QED
      BY <3>1, FS_Subset, FS_CardinalityType
  <2> QED
    BY <2>3, <2>4, PoolAssumption DEF PoolAssumption
<1> QED
  BY <1>1, PoolTypeCorrect, QueueCorrect, HandedCorrect, JoinCorrect, SignalsSufficeCorrect,
     PTL

=============================================================================
