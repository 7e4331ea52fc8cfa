------------------------ MODULE MmapLifecycleProofs ------------------------
(***************************************************************************)
(* Proofs about the requests of MmapAccessor: types, the loops over the    *)
(* queue, the timeout threads, and the refinement of RequestLifecycle.     *)
(***************************************************************************)
EXTENDS MmapAccessorProofs

OpPC == {"idle", "put", "waitLock", "waitCond", "waitJoin", "zeroTest",
         "zeroEnter", "zeroCond", "zeroRelock", "cancelLock", "allLock",
         "allCond", "cancelAll"}

Conds == {"waitCond", "zeroCond", "allCond"}

\* A step of the pool only ever appends to the queue.
LEMMA QueueGrows ==
  ASSUME PoolTypeOK, QueueInv, [PoolNext]_poolVars
  PROVE  tail' >= tail /\ \A s \in 1..tail : request_queue'[s] = request_queue[s]
<1> USE DEF PoolTypeOK, queueVars
<1>1. ASSUME UNCHANGED <<request_queue, tail>>
      PROVE  tail' >= tail /\ \A s \in 1..tail : request_queue'[s] = request_queue[s]
  BY <1>1
<1>2. ASSUME NEW w \in Workers, Worker(w) \/ SpuriousWake(w)
      PROVE  UNCHANGED <<request_queue, tail>>
  BY <1>2 DEF Worker, WorkerLoop, Start, Take, Wait, Exit, BeginTask, EndTask,
     RunTask, SpuriousWake, OnlyGoes
<1>3. ASSUME NEW c \in Clients, NEW r \in Requests,
             SubmitAccepted(c, r) \/ SubmitRejected(c, r)
      PROVE  UNCHANGED <<request_queue, tail>>
  BY <1>3 DEF SubmitAccepted, SubmitRejected
<1>4. ASSUME NEW c \in Clients, SubmitEnqueue(c)
      PROVE  \E t \in Tasks, res \in {"OK", "NO_MEMORY"} : Enqueue(t, res)
  BY <1>4 DEF SubmitEnqueue
<1>5. ASSUME NEW c \in Clients, Poison(c)
      PROVE  \E t \in Tasks, res \in {"OK", "NO_MEMORY"} : Enqueue(t, res)
  BY <1>5 DEF Poison, Tasks
<1>6. ASSUME NEW c \in Clients,
             \/ Release(c) \/ JoinAndLoadIdle(c) \/ StoreIdle(c)
             \/ LoadAlive(c) \/ StoreAlive(c)
      PROVE  UNCHANGED <<request_queue, tail>>
  BY <1>6 DEF Release, JoinAndLoadIdle, StoreIdle, LoadAlive, StoreAlive
<1>7. ASSUME \E t \in Tasks, res \in {"OK", "NO_MEMORY"} : Enqueue(t, res)
      PROVE  tail' >= tail /\ \A s \in 1..tail : request_queue'[s] = request_queue[s]
  <2>1. PICK t \in Tasks, res \in {"OK", "NO_MEMORY"} : Enqueue(t, res)
    BY <1>7
  <2> QED
    BY <2>1, EnqueueSlots
<1>8. CASE UNCHANGED poolVars
  BY <1>1, <1>8 DEF poolVars
<1> QED
  BY <1>1, <1>2, <1>3, <1>4, <1>5, <1>6, <1>7, <1>8 DEF PoolNext, ClientStep, ReleaseLoop

\* A signal moves one client, from a condition to where it resumes.
LEMMA SignalEffect ==
  ASSUME NEW r, NEW ops \in [Clients -> OpPC], Signal(r, ops),
         \A d \in Clients : op[d] \in Conds => ops[d] = op[d]
  PROVE  /\ op' \in [Clients -> OpPC]
         /\ \A d \in Clients :
              \/ op'[d] = ops[d]
              \/ op[d] = "waitCond" /\ op'[d] = "waitLock"
              \/ op[d] = "zeroCond" /\ op'[d] = "zeroRelock"
              \/ op[d] = "allCond" /\ op'[d] = "allLock"
<1>1. CASE op' = ops
  BY <1>1
<1>2. ASSUME NEW c \in WaitingFor(r), op' = [ops EXCEPT ![c] = Resume(op[c])]
      PROVE  /\ op' \in [Clients -> OpPC]
             /\ \A d \in Clients :
                  \/ op'[d] = ops[d]
                  \/ op[d] = "waitCond" /\ op'[d] = "waitLock"
                  \/ op[d] = "zeroCond" /\ op'[d] = "zeroRelock"
                  \/ op[d] = "allCond" /\ op'[d] = "allLock"
  BY <1>2 DEF WaitingFor, Resume, OpPC
<1> QED
  BY <1>1, <1>2 DEF Signal

-----------------------------------------------------------------------------
(* Types, and the loops of waitAll and cancelAll *)

Looping == {"allLock", "allCond", "cancelAll"}

\* A loop runs over slots that were in the queue when it began: all requests.
LoopInv ==
  \A c \in Clients : op[c] \in Looping =>
    /\ opIdx[c] \in 1..opCnt[c] /\ opCnt[c] <= tail
    /\ \A s \in 1..opCnt[c] : request_queue[s] \in Requests

\* A step that leaves the variables of the accessor alone, or most of them.
LEMMA LoopStable ==
  ASSUME PoolTypeOK, QueueInv, [PoolNext]_poolVars, LoopInv,
         opIdx \in [Clients -> Nat], opCnt \in [Clients -> Nat],
         \A c \in Clients : op'[c] \in Looping =>
           op[c] \in Looping /\ opIdx'[c] = opIdx[c] /\ opCnt'[c] = opCnt[c]
  PROVE  LoopInv'
<1>1. tail' >= tail /\ \A s \in 1..tail : request_queue'[s] = request_queue[s]
  BY QueueGrows
<1>2. ASSUME NEW c \in Clients, op'[c] \in Looping
      PROVE  /\ opIdx'[c] \in 1..opCnt'[c] /\ opCnt'[c] <= tail'
             /\ \A s \in 1..opCnt'[c] : request_queue'[s] \in Requests
  <2>1. /\ opIdx[c] \in 1..opCnt[c] /\ opCnt[c] <= tail
        /\ \A s \in 1..opCnt[c] : request_queue[s] \in Requests
        /\ opIdx'[c] = opIdx[c] /\ opCnt'[c] = opCnt[c]
    BY <1>2 DEF LoopInv
  <2>2. tail \in Nat /\ tail' \in Nat /\ opCnt[c] \in Nat
    BY NextType DEF PoolTypeOK
  <2> QED
    BY <1>1, <2>1, <2>2
<1> QED
  BY <1>2 DEF LoopInv

RequestTypes ==
  /\ direction \in [Requests -> {"READ", "WRITE"}]
  /\ status \in [Requests -> StatusSet] /\ fdOpen \in [Requests -> BOOLEAN]
  /\ buf \in [Requests -> {"NULL", "USER", "MAPPED", "UNMAPPED"}]
  /\ locked \in [Requests -> BOOLEAN]

CallTypes ==
  /\ op \in [Clients -> OpPC] /\ opReq \in [Clients -> Tasks]
  /\ \A c \in Clients : op[c] # "idle" => opReq[c] # Sentinel
  /\ opIdx \in [Clients -> Nat] /\ opCnt \in [Clients -> Nat]
  /\ timer \in [Clients -> {"none", "check", "sleep", "fire", "exited"}]

BodyTypes ==
  /\ body \in [Workers -> {"entry", "io", "publish", "cleanup"}]
  /\ ioOK \in [Workers -> BOOLEAN]

LEMMA TypeParts == MmapTypeOK <=> RequestTypes /\ CallTypes /\ BodyTypes
BY DEF MmapTypeOK, RequestTypes, CallTypes, BodyTypes, OpPC

\* What the requests are turned into.
LEMMA NextRequestTypes == RequestTypes /\ [MmapNext]_mmapVars => RequestTypes'
<1> SUFFICES ASSUME RequestTypes, [MmapNext]_mmapVars
             PROVE  RequestTypes'
  OBVIOUS
<1> USE DEF RequestTypes, requestVars, resourceVars, StatusSet
<1>1. ASSUME NEW w \in Workers,
             PoolStep(WorkerLoop(w)) \/ PoolStep(SpuriousWake(w)) \/ Body(w)
      PROVE  RequestTypes'
  <2>1. CASE SkipCancelled(w)
    BY <2>1 DEF SkipCancelled
  <2>2. CASE Publish(w)
    BY <2>2 DEF Publish, Outcome
  <2>3. CASE Cleanup(w)
    BY <2>3 DEF Cleanup, CloseFd
  <2> QED
    BY <1>1, <2>1, <2>2, <2>3 DEF PoolStep, Body, EnterBody, DoIO
<1>2. ASSUME NEW c \in Clients,
             \/ ReleaseAll(c) \/ PoolStep(ReleaseLoop(c)) \/ WaitAll(c) \/ CancelAll(c)
             \/ SpuriousResume(c)
      PROVE  RequestTypes'
  BY <1>2 DEF PoolStep, ReleaseAll, WaitAll, CancelAll, LoopOverAll, SpuriousResume
<1>3. ASSUME NEW c \in Clients, CallStep(c)
      PROVE  RequestTypes'
  <2>1. CASE PutStatus(c)
    BY <2>1 DEF PutStatus
  <2>2. CASE ZeroEnter(c) \/ ZeroRelock(c)
    BY <2>2 DEF ZeroEnter, ZeroRelock
  <2>3. CASE CancelLock(c) \/ CancelAllLock(c)
    BY <2>3 DEF CancelLock, CancelAllLock
  <2> QED
    BY <1>3, <2>1, <2>2, <2>3
    DEF CallStep, PutEnqueue, WaitLock, WaitJoin, ZeroTest, AllLock
<1>4. ASSUME NEW c \in Clients, Timer(c)
      PROVE  RequestTypes'
  BY <1>4 DEF Timer, TimerCheck, TimerExpire, TimerFire
<1>5. ASSUME NEW c \in Clients, NEW r \in Requests,
             \/ GetRequest(c, r) \/ AttachBuffer(c, r) \/ PutRequest(c, r)
             \/ WaitRequest(c, r) \/ WaitForever(c, r) \/ CancelRequest(c, r)
      PROVE  RequestTypes'
  <2>1. CASE GetRequest(c, r)
    BY <2>1 DEF GetRequest
  <2>2. CASE AttachBuffer(c, r)
    BY <2>2 DEF AttachBuffer
  <2> QED
    BY <1>5, <2>1, <2>2 DEF PutRequest, WaitRequest, WaitForever, CancelRequest
<1>6. CASE UNCHANGED mmapVars
  BY <1>6 DEF mmapVars
<1> QED
  BY <1>1, <1>2, <1>3, <1>4, <1>5, <1>6 DEF MmapNext

LEMMA NextBodyTypes == BodyTypes /\ [MmapNext]_mmapVars => BodyTypes'
<1> SUFFICES ASSUME BodyTypes, [MmapNext]_mmapVars
             PROVE  BodyTypes'
  OBVIOUS
<1> USE DEF BodyTypes, bodyVars
<1>1. ASSUME NEW w \in Workers,
             PoolStep(WorkerLoop(w)) \/ PoolStep(SpuriousWake(w)) \/ Body(w)
      PROVE  BodyTypes'
  BY <1>1 DEF PoolStep, Body, SkipCancelled, EnterBody, DoIO, Publish, Cleanup
<1>2. ASSUME UNCHANGED bodyVars
      PROVE  BodyTypes'
  BY <1>2
<1>3. ASSUME NEW c \in Clients,
             \/ ReleaseAll(c) \/ PoolStep(ReleaseLoop(c)) \/ WaitAll(c) \/ CancelAll(c)
             \/ SpuriousResume(c) \/ CallStep(c) \/ Timer(c)
      PROVE  UNCHANGED bodyVars
  BY <1>3 DEF PoolStep, ReleaseAll, WaitAll, CancelAll, LoopOverAll, SpuriousResume,
     CallStep, PutEnqueue, PutStatus, WaitLock, WaitJoin, ZeroTest, ZeroEnter,
     ZeroRelock, CancelLock, AllLock, CancelAllLock, Timer, TimerCheck, TimerExpire,
     TimerFire
<1>4. ASSUME NEW c \in Clients, NEW r \in Requests,
             \/ GetRequest(c, r) \/ AttachBuffer(c, r) \/ PutRequest(c, r)
             \/ WaitRequest(c, r) \/ WaitForever(c, r) \/ CancelRequest(c, r)
      PROVE  UNCHANGED bodyVars
  BY <1>4 DEF GetRequest, AttachBuffer, PutRequest, WaitRequest, WaitForever,
     CancelRequest
<1>5. CASE UNCHANGED mmapVars
  BY <1>5 DEF mmapVars
<1> QED
  BY <1>1, <1>2, <1>3, <1>4, <1>5 DEF MmapNext

\* A round of waitAll or cancelAll goes to the next request, or ends the loop.
LEMMA NextRoundTypes ==
  ASSUME PoolTypeOK, QueueInv, CallTypes, LoopInv, NEW c \in Clients,
         op[c] \in Looping, NextRound(c)
  PROVE  /\ opReq' \in [Clients -> Tasks] /\ opIdx' \in [Clients -> Nat]
         /\ \A d \in Clients : op[d] # "idle" => opReq'[d] # Sentinel
         /\ \A d \in Clients \ {c} : opIdx'[d] = opIdx[d]
         /\ ~LastRound(c) => opIdx'[c] \in 1..opCnt[c]
<1> USE DEF CallTypes, NextRound, LastRound
<1>1. /\ opIdx[c] \in 1..opCnt[c] /\ opCnt[c] <= tail /\ opCnt[c] \in Nat
      /\ \A s \in 1..opCnt[c] : request_queue[s] \in Requests
  BY DEF LoopInv
<1>2. CASE LastRound(c)
  BY <1>1, <1>2
<1>3. CASE ~LastRound(c)
  <2>1. opIdx[c] + 1 \in 1..opCnt[c]
    BY <1>1, <1>3
  <2>2. request_queue[opIdx[c] + 1] \in Requests /\ Sentinel \notin Requests
    BY <1>1, <2>1, PoolAssumption DEF PoolAssumption
  <2>3. /\ opIdx' = [opIdx EXCEPT ![c] = @ + 1]
        /\ opReq' = [opReq EXCEPT ![c] = request_queue[opIdx[c] + 1]]
    BY <1>3
  <2>4. request_queue[opIdx[c] + 1] \in Tasks
    BY <2>2 DEF Tasks
  <2> QED
    BY <1>1, <2>1, <2>2, <2>3, <2>4
<1> QED
  BY <1>2, <1>3

\* Where the calls are, what they are about, and the rounds they have left.
LEMMA NextCallTypes ==
  /\ PoolTypeOK /\ QueueInv /\ ReleaseInv /\ RequestTypes
  /\ CallTypes /\ LoopInv /\ [MmapNext]_mmapVars
  => CallTypes' /\ LoopInv'
<1> SUFFICES ASSUME PoolTypeOK, QueueInv, ReleaseInv, RequestTypes, CallTypes, LoopInv,
                    [MmapNext]_mmapVars
             PROVE  CallTypes' /\ LoopInv'
  OBVIOUS
<1>P. [PoolNext]_poolVars
  BY StepUsesPool
<1>S. Sentinel \notin Requests
  BY PoolAssumption DEF PoolAssumption
<1>1. ASSUME UNCHANGED callVars
      PROVE  CallTypes' /\ LoopInv'
  BY <1>1, <1>P, LoopStable DEF CallTypes, callVars, loopVars
\* One client goes from one place of a call to another, about the same request.
<1>2. ASSUME NEW c \in Clients, NEW pc \in OpPC, op[c] # "idle",
             pc \in Looping => op[c] \in Looping,
             op' = [op EXCEPT ![c] = pc], UNCHANGED <<loopVars, timer>>
      PROVE  CallTypes' /\ LoopInv'
  BY <1>2, <1>P, LoopStable DEF CallTypes, loopVars
<1>3. ASSUME NEW w \in Workers,
             PoolStep(WorkerLoop(w)) \/ PoolStep(SpuriousWake(w)) \/ Body(w)
      PROVE  CallTypes' /\ LoopInv'
  <2>1. CASE Publish(w)
    <3>1. Signal(Job(w), op) /\ UNCHANGED <<loopVars, timer>>
      BY <2>1 DEF Publish
    <3>2. /\ op' \in [Clients -> OpPC]
          /\ \A d \in Clients :
               \/ op'[d] = op[d]
               \/ op[d] = "waitCond" /\ op'[d] = "waitLock"
               \/ op[d] = "zeroCond" /\ op'[d] = "zeroRelock"
               \/ op[d] = "allCond" /\ op'[d] = "allLock"
      BY <3>1, SignalEffect DEF CallTypes
    <3> QED
      BY <3>1, <3>2, <1>P, LoopStable DEF CallTypes, loopVars, Looping
  <2> QED
    BY <1>1, <1>3, <2>1 DEF PoolStep, Body, SkipCancelled, EnterBody, DoIO, Cleanup
<1>4. ASSUME NEW c \in Clients,
             ReleaseAll(c) \/ PoolStep(ReleaseLoop(c)) \/ PutEnqueue(c)
      PROVE  CallTypes' /\ LoopInv'
  BY <1>1, <1>4 DEF ReleaseAll, PoolStep, PutEnqueue
<1>5. ASSUME NEW c \in Clients, NEW r \in Requests,
             GetRequest(c, r) \/ AttachBuffer(c, r)
      PROVE  CallTypes' /\ LoopInv'
  BY <1>1, <1>5 DEF GetRequest, AttachBuffer
<1>6. ASSUME NEW c \in Clients, NEW r \in Requests,
             \/ PutRequest(c, r) \/ WaitRequest(c, r)
             \/ WaitForever(c, r) \/ CancelRequest(c, r)
      PROVE  CallTypes' /\ LoopInv'
  <2>1. \E pc \in OpPC \ Looping :
          op' = [op EXCEPT ![c] = pc] /\ opReq' = [opReq EXCEPT ![c] = r]
    BY <1>6 DEF PutRequest, WaitRequest, WaitForever, CancelRequest, OpPC, Looping
  <2>2. /\ timer' \in [Clients -> {"none", "check", "sleep", "fire", "exited"}]
        /\ UNCHANGED <<opIdx, opCnt>>
    BY <1>6 DEF PutRequest, WaitRequest, WaitForever, CancelRequest, CallTypes
  <2>3. r \in Tasks /\ r # Sentinel
    BY <1>S DEF Tasks
  <2>4. CallTypes'
    <3>1. op' \in [Clients -> OpPC] /\ opReq' \in [Clients -> Tasks]
      BY <2>1, <2>3 DEF CallTypes
    <3>2. \A d \in Clients : op'[d] # "idle" => opReq'[d] # Sentinel
      BY <2>1, <2>3 DEF CallTypes
    <3> QED
      BY <2>2, <3>1, <3>2 DEF CallTypes
  <2>5. \A d \in Clients : op'[d] = op[d] \/ op'[d] \notin Looping
    BY <2>1 DEF CallTypes
  <2>6. opIdx \in [Clients -> Nat] /\ opCnt \in [Clients -> Nat]
    BY DEF CallTypes
  <2>7. LoopInv'
    BY <2>2, <2>5, <2>6, <1>P, LoopStable
  <2> QED
    BY <2>4, <2>7
<1>7. ASSUME NEW c \in Clients,
             \/ PutStatus(c) \/ WaitLock(c) \/ ZeroTest(c) \/ ZeroEnter(c)
             \/ ZeroRelock(c) \/ SpuriousResume(c)
      PROVE  CallTypes' /\ LoopInv'
  <2>1. /\ op[c] # "idle" /\ UNCHANGED <<loopVars, timer>>
        /\ \E pc \in OpPC : /\ op' = [op EXCEPT ![c] = pc]
                            /\ pc \in Looping => op[c] \in Looping
    BY <1>7 DEF PutStatus, WaitLock, ZeroTest, ZeroEnter, ZeroRelock, SpuriousResume,
       Resume, OpPC, Looping, loopVars
  <2> QED
    BY <1>2, <2>1
<1>8. ASSUME NEW c \in Clients, WaitJoin(c)
      PROVE  CallTypes' /\ LoopInv'
  BY <1>8, <1>P, LoopStable DEF WaitJoin, CallTypes, OpPC, Looping, loopVars
<1>9. ASSUME NEW c \in Clients, Timer(c)
      PROVE  CallTypes' /\ LoopInv'
  <2>1. timer' \in [Clients -> {"none", "check", "sleep", "fire", "exited"}]
    BY <1>9 DEF Timer, TimerCheck, TimerExpire, TimerFire, CallTypes
  <2>2. UNCHANGED loopVars
    BY <1>9 DEF Timer, TimerCheck, TimerExpire, TimerFire
  <2>3. /\ op' \in [Clients -> OpPC]
        /\ \A d \in Clients :
             \/ op'[d] = op[d]
             \/ op[d] = "waitCond" /\ op'[d] = "waitLock"
             \/ op[d] = "zeroCond" /\ op'[d] = "zeroRelock"
             \/ op[d] = "allCond" /\ op'[d] = "allLock"
    BY <1>9, SignalEffect DEF Timer, TimerCheck, TimerExpire, TimerFire, CallTypes
  <2> QED
    BY <2>1, <2>2, <2>3, <1>P, LoopStable DEF CallTypes, loopVars, Looping
<1>10. ASSUME NEW c \in Clients, CancelLock(c)
       PROVE  CallTypes' /\ LoopInv'
  <2> DEFINE ops == [op EXCEPT ![c] = "idle"]
  <2>1. Signal(opReq[c], ops) /\ op[c] = "cancelLock" /\ UNCHANGED <<loopVars, timer>>
    BY <1>10 DEF CancelLock
  <2>2. ops \in [Clients -> OpPC] /\ \A d \in Clients : op[d] \in Conds => ops[d] = op[d]
    BY <2>1 DEF CallTypes, OpPC, Conds
  <2>3. /\ op' \in [Clients -> OpPC]
        /\ \A d \in Clients :
             \/ op'[d] = ops[d]
             \/ op[d] = "waitCond" /\ op'[d] = "waitLock"
             \/ op[d] = "zeroCond" /\ op'[d] = "zeroRelock"
             \/ op[d] = "allCond" /\ op'[d] = "allLock"
    BY <2>1, <2>2, SignalEffect
  <2> QED
    BY <2>1, <2>3, <1>P, LoopStable DEF CallTypes, loopVars, Looping
<1>11. ASSUME NEW c \in Clients, WaitAll(c) \/ CancelAll(c)
       PROVE  CallTypes' /\ LoopInv'
  <2>1. /\ isRunning /\ totoalCnt # 0 /\ UNCHANGED <<poolVars, timer>>
        /\ opCnt' = [opCnt EXCEPT ![c] = totoalCnt]
        /\ opIdx' = [opIdx EXCEPT ![c] = 1]
        /\ opReq' = [opReq EXCEPT ![c] = request_queue[1]]
        /\ \E pc \in OpPC : op' = [op EXCEPT ![c] = pc]
    BY <1>11 DEF WaitAll, CancelAll, LoopOverAll, OpPC
  <2>2. /\ totoalCnt = tail /\ tail \in Nat /\ 1 \in 1..tail
        /\ \A s \in 1..tail : request_queue[s] \in Tasks
        /\ tail' = tail /\ request_queue' = request_queue
    BY <2>1 DEF QueueInv, PoolTypeOK, poolVars, queueVars
  <2>3. \A s \in 1..tail : request_queue[s] \in Requests
    BY <2>1, <2>2 DEF ReleaseInv, IsSentinel, Tasks
  <2>4. CallTypes'
    BY <2>1, <2>2, <2>3, <1>S DEF CallTypes
  <2>5. LoopInv'
    BY <2>1, <2>2, <2>3 DEF LoopInv, CallTypes
  <2> QED
    BY <2>4, <2>5
<1>12. ASSUME NEW c \in Clients, AllLock(c)
       PROVE  CallTypes' /\ LoopInv'
  <2>1. op[c] = "allLock" /\ UNCHANGED <<poolVars, opCnt, timer>>
    BY <1>12 DEF AllLock
  <2>2. CASE status[opReq[c]] = "SUBMITTED"
    BY <1>12, <2>1, <2>2, <1>2 DEF AllLock, OpPC, Looping, loopVars
  <2>3. CASE status[opReq[c]] # "SUBMITTED"
    <3>1. /\ op' = [op EXCEPT ![c] = IF LastRound(c) THEN "idle" ELSE "allLock"]
          /\ NextRound(c)
      BY <1>12, <2>3 DEF AllLock
    <3>2. /\ opReq' \in [Clients -> Tasks] /\ opIdx' \in [Clients -> Nat]
          /\ \A d \in Clients : op[d] # "idle" => opReq'[d] # Sentinel
          /\ \A d \in Clients \ {c} : opIdx'[d] = opIdx[d]
          /\ ~LastRound(c) => opIdx'[c] \in 1..opCnt[c]
      BY <2>1, <3>1, NextRoundTypes DEF Looping
    <3>3. CallTypes'
      BY <2>1, <3>1, <3>2 DEF CallTypes, OpPC
    <3>4. tail' = tail /\ request_queue' = request_queue
      BY <2>1 DEF poolVars, queueVars
    <3>5. LoopInv'
      BY <2>1, <3>1, <3>2, <3>4 DEF LoopInv, CallTypes, Looping
    <3> QED
      BY <3>3, <3>5
  <2> QED
    BY <2>2, <2>3
<1>13. ASSUME NEW c \in Clients, CancelAllLock(c)
       PROVE  CallTypes' /\ LoopInv'
  <2> DEFINE ops == [op EXCEPT ![c] = IF LastRound(c) THEN "idle" ELSE "cancelAll"]
  <2>1. /\ op[c] = "cancelAll" /\ UNCHANGED <<poolVars, opCnt, timer>>
        /\ Signal(opReq[c], ops) /\ NextRound(c)
    BY <1>13 DEF CancelAllLock
  <2>2. ops \in [Clients -> OpPC] /\ \A d \in Clients : op[d] \in Conds => ops[d] = op[d]
    BY <2>1 DEF CallTypes, OpPC, Conds
  <2>3. /\ op' \in [Clients -> OpPC]
        /\ \A d \in Clients :
             \/ op'[d] = ops[d]
             \/ op[d] = "waitCond" /\ op'[d] = "waitLock"
             \/ op[d] = "zeroCond" /\ op'[d] = "zeroRelock"
             \/ op[d] = "allCond" /\ op'[d] = "allLock"
    <3> HIDE DEF ops
    <3> QED
      BY <2>1, <2>2, SignalEffect
  <2>4. /\ opReq' \in [Clients -> Tasks] /\ opIdx' \in [Clients -> Nat]
        /\ \A d \in Clients : op[d] # "idle" => opReq'[d] # Sentinel
        /\ \A d \in Clients \ {c} : opIdx'[d] = opIdx[d]
        /\ ~LastRound(c) => opIdx'[c] \in 1..opCnt[c]
    BY <2>1, NextRoundTypes DEF Looping
  <2>5. CallTypes'
    BY <2>1, <2>3, <2>4 DEF CallTypes
  <2>6. tail' = tail /\ request_queue' = request_queue
    BY <2>1 DEF poolVars, queueVars
  <2>7. LoopInv'
    BY <2>1, <2>3, <2>4, <2>6 DEF LoopInv, CallTypes, Looping
  <2> QED
    BY <2>5, <2>7
<1>14. CASE UNCHANGED mmapVars
  BY <1>1, <1>14 DEF mmapVars
<1> QED
  BY <1>3, <1>4, <1>5, <1>6, <1>7, <1>8, <1>9, <1>10, <1>11, <1>12, <1>13, <1>14
  DEF MmapNext, CallStep

\* What is known of the pool in every state of the accessor.
PoolFacts ==
  PoolTypeOK /\ QueueInv /\ HandedInv /\ ReleaseInv /\ NoNullFunction /\ SubmitInv

LEMMA PoolFactsCorrect == MmapSpec => []PoolFacts
<1>1. PoolTypeOK /\ QueueInv /\ HandedInv /\ ReleaseInv /\ NoNullFunction /\ SubmitInv
        => PoolFacts
  BY DEF PoolFacts
<1> QED
  BY <1>1, AccessorUsesPool, PoolTypeCorrect, QueueCorrect, HandedCorrect,
     ReleaseCorrect, NoNullFunctionCorrect, SubmitCorrect, PTL

\* Every variable of the accessor keeps its type, and a loop over the queue
\* that has copied its length never meets a sentinel.
THEOREM MmapTypeCorrect == MmapSpec => []MmapTypeOK
<1>1. MmapInit => MmapTypeOK /\ LoopInv
  <2> SUFFICES ASSUME MmapInit
               PROVE  MmapTypeOK /\ LoopInv
    OBVIOUS
  <2>1. RequestTypes /\ BodyTypes
    BY DEF MmapInit, RequestTypes, BodyTypes, StatusSet
  <2>2. CallTypes /\ LoopInv
    BY DEF MmapInit, CallTypes, LoopInv, OpPC, Looping, Tasks
  <2> QED
    BY <2>1, <2>2, TypeParts
<1>2. PoolFacts /\ MmapTypeOK /\ LoopInv /\ [MmapNext]_mmapVars
        => MmapTypeOK' /\ LoopInv'
  <2> SUFFICES ASSUME PoolFacts, MmapTypeOK, LoopInv, [MmapNext]_mmapVars
               PROVE  MmapTypeOK' /\ LoopInv'
    OBVIOUS
  <2>1. RequestTypes /\ CallTypes /\ BodyTypes
    BY TypeParts
  <2>2. RequestTypes' /\ BodyTypes' /\ CallTypes' /\ LoopInv'
    BY <2>1, NextRequestTypes, NextBodyTypes, NextCallTypes DEF PoolFacts
  <2> QED
    BY <2>2 DEF MmapTypeOK, RequestTypes, CallTypes, BodyTypes, OpPC
<1> QED
  BY <1>1, <1>2, PoolFactsCorrect, PTL DEF MmapSpec

-----------------------------------------------------------------------------
(* The timeout threads *)

LEMMA NextTimer ==
  MmapTypeOK /\ TimerInsideWait /\ [MmapNext]_mmapVars => TimerInsideWait'
<1> SUFFICES ASSUME MmapTypeOK, TimerInsideWait, [MmapNext]_mmapVars
             PROVE  TimerInsideWait'
  OBVIOUS
<1> DEFINE Inside(pc) == pc \in {"waitLock", "waitCond", "waitJoin"}
<1>T. CallTypes
  BY TypeParts
<1> USE DEF CallTypes, callVars, loopVars
\* Steps that start no timeout thread, and in which nobody leaves a wait.
<1>1. ASSUME \A c \in Clients : timer'[c] \in {"check", "sleep", "fire"} =>
               timer[c] \in {"check", "sleep", "fire"},
             \A c \in Clients : Inside(op[c]) => Inside(op'[c])
      PROVE  TimerInsideWait'
  BY <1>1 DEF TimerInsideWait
\* A signal takes nobody out of a wait.
<1>2. ASSUME NEW r, NEW ops \in [Clients -> OpPC], Signal(r, ops),
             \A d \in Clients : op[d] \in Conds => ops[d] = op[d],
             \A d \in Clients : Inside(op[d]) => ops[d] = op[d]
      PROVE  \A c \in Clients : Inside(op[c]) => Inside(op'[c])
  BY <1>T, <1>2, SignalEffect
<1>3. ASSUME NEW w \in Workers,
             PoolStep(WorkerLoop(w)) \/ PoolStep(SpuriousWake(w)) \/ Body(w)
      PROVE  TimerInsideWait'
  <2>1. CASE Publish(w)
    <3>1. Signal(Job(w), op) /\ timer' = timer
      BY <2>1 DEF Publish
    <3> QED
      BY <1>T, <1>1, <1>2, <3>1
  <2> QED
    BY <1>T, <1>1, <1>3, <2>1 DEF PoolStep, Body, SkipCancelled, EnterBody, DoIO, Cleanup
<1>4. ASSUME NEW c \in Clients,
             \/ ReleaseAll(c) \/ PoolStep(ReleaseLoop(c)) \/ PutEnqueue(c)
             \/ WaitAll(c) \/ CancelAll(c)
      PROVE  TimerInsideWait'
  BY <1>T, <1>1, <1>4 DEF ReleaseAll, PoolStep, PutEnqueue, WaitAll, CancelAll,
     LoopOverAll, Ready
<1>5. ASSUME NEW c \in Clients, NEW r \in Requests,
             \/ GetRequest(c, r) \/ AttachBuffer(c, r) \/ PutRequest(c, r)
             \/ WaitForever(c, r) \/ CancelRequest(c, r)
      PROVE  TimerInsideWait'
  BY <1>T, <1>1, <1>5 DEF GetRequest, AttachBuffer, PutRequest, WaitForever,
     CancelRequest, Ready
<1>6. ASSUME NEW c \in Clients, NEW r \in Requests, WaitRequest(c, r)
      PROVE  TimerInsideWait'
  BY <1>T, <1>6 DEF WaitRequest, Ready, TimerInsideWait
<1>7. ASSUME NEW c \in Clients,
             \/ PutStatus(c) \/ WaitLock(c) \/ ZeroTest(c) \/ ZeroEnter(c)
             \/ ZeroRelock(c) \/ AllLock(c)
      PROVE  TimerInsideWait'
  BY <1>T, <1>1, <1>7 DEF PutStatus, WaitLock, ZeroTest, ZeroEnter, ZeroRelock, AllLock
<1>8. ASSUME NEW c \in Clients, SpuriousResume(c)
      PROVE  TimerInsideWait'
  BY <1>T, <1>1, <1>8 DEF SpuriousResume, Resume
<1>9. ASSUME NEW c \in Clients, WaitJoin(c)
      PROVE  TimerInsideWait'
  BY <1>T, <1>9 DEF WaitJoin, TimerJoined, TimerInsideWait
<1>10. ASSUME NEW c \in Clients, Timer(c)
       PROVE  TimerInsideWait'
  <2>1. \A d \in Clients : Inside(op[d]) => Inside(op'[d])
    BY <1>T, <1>2, <1>10 DEF Timer, TimerCheck, TimerExpire, TimerFire
  <2> QED
    BY <1>T, <1>1, <1>10, <2>1 DEF Timer, TimerCheck, TimerExpire, TimerFire
<1>11. ASSUME NEW c \in Clients, CancelLock(c) \/ CancelAllLock(c)
       PROVE  TimerInsideWait'
  <2>1. PICK pc \in {"idle", "cancelAll"} : Signal(opReq[c], [op EXCEPT ![c] = pc])
    BY <1>11 DEF CancelLock, CancelAllLock
  <2>2. op[c] \in {"cancelLock", "cancelAll"} /\ timer' = timer
    BY <1>11 DEF CancelLock, CancelAllLock
  <2>3. /\ [op EXCEPT ![c] = pc] \in [Clients -> OpPC]
        /\ \A d \in Clients : op[d] \in Conds => [op EXCEPT ![c] = pc][d] = op[d]
        /\ \A d \in Clients : Inside(op[d]) => [op EXCEPT ![c] = pc][d] = op[d]
    BY <1>T, <2>2 DEF OpPC, Conds
  <2>4. \A d \in Clients : Inside(op[d]) => Inside(op'[d])
    BY <1>2, <2>1, <2>3
  <2> QED
    BY <1>1, <2>2, <2>4
<1>12. CASE UNCHANGED mmapVars
  BY <1>1, <1>12 DEF mmapVars
<1> QED
  BY <1>3, <1>4, <1>5, <1>6, <1>7, <1>8, <1>9, <1>10, <1>11, <1>12
  DEF MmapNext, CallStep

\* A timeout thread never outlives the call whose frame its arguments are in.
THEOREM TimerInsideWaitCorrect == MmapSpec => []TimerInsideWait
<1>1. MmapInit => TimerInsideWait
  BY DEF MmapInit, TimerInsideWait
<1> QED
  BY <1>1, NextTimer, MmapTypeCorrect, PTL DEF MmapSpec

-----------------------------------------------------------------------------
(* What the steps of the accessor do to puts and to statuses *)

\* No client begins or ends a put.
SamePuts ==
  \A c \in Clients :
    /\ op'[c] = "put" <=> op[c] = "put"
    /\ op[c] = "put" => opReq'[c] = opReq[c]

\* Only PutRequest begins a put and only PutStatus ends one.
LEMMA PutFrame ==
  ASSUME MmapTypeOK, [MmapNext]_mmapVars
  PROVE  \/ SamePuts
         \/ \E c \in Clients, r \in Requests : PutRequest(c, r)
         \/ \E c \in Clients : PutStatus(c)
<1>T. CallTypes
  BY TypeParts
<1> USE DEF SamePuts, CallTypes, callVars, loopVars
<1>1. ASSUME UNCHANGED callVars
      PROVE  SamePuts
  BY <1>1
<1>2. ASSUME NEW r, NEW c \in Clients, NEW pc \in OpPC \ {"put"}, op[c] # "put",
             Signal(r, [op EXCEPT ![c] = pc]),
             \A d \in Clients : op[d] \in Conds => d # c
      PROVE  \A d \in Clients : op'[d] = "put" <=> op[d] = "put"
  <2> DEFINE ops == [op EXCEPT ![c] = pc]
  <2>1. ops \in [Clients -> OpPC] /\ \A d \in Clients : op[d] \in Conds => ops[d] = op[d]
    BY <1>T, <1>2
  <2>2. \A d \in Clients :
              \/ op'[d] = ops[d]
              \/ op[d] = "waitCond" /\ op'[d] = "waitLock"
              \/ op[d] = "zeroCond" /\ op'[d] = "zeroRelock"
              \/ op[d] = "allCond" /\ op'[d] = "allLock"
    BY <1>2, <2>1, SignalEffect
  <2> QED
    BY <1>T, <1>2, <2>2
<1>3. ASSUME NEW r, Signal(r, op)
      PROVE  \A d \in Clients : op'[d] = "put" <=> op[d] = "put"
  BY <1>T, <1>3, SignalEffect
<1>4. ASSUME NEW w \in Workers,
             PoolStep(WorkerLoop(w)) \/ PoolStep(SpuriousWake(w)) \/ Body(w)
      PROVE  SamePuts
  BY <1>1, <1>3, <1>4 DEF PoolStep, Body, SkipCancelled, EnterBody, DoIO, Publish, Cleanup
<1>5. ASSUME NEW c \in Clients,
             \/ ReleaseAll(c) \/ PoolStep(ReleaseLoop(c)) \/ PutEnqueue(c)
             \/ WaitAll(c) \/ CancelAll(c)
      PROVE  SamePuts
  BY <1>T, <1>1, <1>5 DEF ReleaseAll, PoolStep, PutEnqueue, WaitAll, CancelAll,
     LoopOverAll, Ready
<1>6. ASSUME NEW c \in Clients, NEW r \in Requests,
             \/ GetRequest(c, r) \/ AttachBuffer(c, r) \/ WaitRequest(c, r)
             \/ WaitForever(c, r) \/ CancelRequest(c, r)
      PROVE  SamePuts
  BY <1>T, <1>1, <1>6 DEF GetRequest, AttachBuffer, WaitRequest, WaitForever,
     CancelRequest, Ready
<1>7. ASSUME NEW c \in Clients,
             \/ WaitLock(c) \/ WaitJoin(c) \/ ZeroTest(c) \/ ZeroEnter(c)
             \/ ZeroRelock(c)
      PROVE  SamePuts
  BY <1>T, <1>7 DEF WaitLock, WaitJoin, ZeroTest, ZeroEnter, ZeroRelock
<1>8. ASSUME NEW c \in Clients, SpuriousResume(c)
      PROVE  SamePuts
  BY <1>T, <1>8 DEF SpuriousResume, Resume
<1>9. ASSUME NEW c \in Clients, Timer(c)
      PROVE  SamePuts
  BY <1>3, <1>9 DEF Timer, TimerCheck, TimerExpire, TimerFire
<1>10. ASSUME NEW c \in Clients, AllLock(c)
       PROVE  SamePuts
  BY <1>T, <1>10 DEF AllLock, NextRound
<1>11. ASSUME NEW c \in Clients, CancelLock(c) \/ CancelAllLock(c)
       PROVE  SamePuts
  <2>1. PICK pc \in {"idle", "cancelAll"} : Signal(opReq[c], [op EXCEPT ![c] = pc])
    BY <1>11 DEF CancelLock, CancelAllLock
  <2>2. op[c] \in {"cancelLock", "cancelAll"}
    BY <1>11 DEF CancelLock, CancelAllLock
  <2>3. pc \in OpPC \ {"put"} /\ \A d \in Clients : op[d] \in Conds => d # c
    BY <2>2 DEF OpPC, Conds
  <2>4. \A d \in Clients : op'[d] = "put" <=> op[d] = "put"
    BY <1>2, <2>1, <2>2, <2>3
  <2>5. \A d \in Clients : op[d] = "put" => opReq'[d] = opReq[d]
    BY <1>T, <1>11, <2>2 DEF CancelLock, CancelAllLock, NextRound
  <2> QED
    BY <2>4, <2>5
<1>12. CASE UNCHANGED mmapVars
  BY <1>1, <1>12 DEF mmapVars
<1> QED
  <2> HIDE DEF SamePuts, CallTypes, callVars, loopVars
  <2> QED
    BY <1>4, <1>5, <1>6, <1>7, <1>8, <1>9, <1>10, <1>11, <1>12 DEF MmapNext, CallStep

\* Only CancelRequest begins to cancel a request, which has been put in.
LEMMA CancelFrame ==
  ASSUME MmapTypeOK, [MmapNext]_mmapVars, NEW c \in Clients, op'[c] = "cancelLock"
  PROVE  \/ op[c] = "cancelLock" /\ opReq'[c] = opReq[c]
         \/ CancelRequest(c, opReq'[c])
<1> DEFINE Same == op[c] = "cancelLock" /\ opReq'[c] = opReq[c]
<1>T. CallTypes
  BY TypeParts
<1> USE DEF CallTypes, callVars, loopVars
<1>1. ASSUME UNCHANGED callVars
      PROVE  Same
  BY <1>1
<1>3. ASSUME NEW r, Signal(r, op)
      PROVE  op[c] = "cancelLock"
  BY <1>T, <1>3, SignalEffect
<1>4. ASSUME NEW w \in Workers,
             PoolStep(WorkerLoop(w)) \/ PoolStep(SpuriousWake(w)) \/ Body(w)
      PROVE  Same
  BY <1>1, <1>3, <1>4 DEF PoolStep, Body, SkipCancelled, EnterBody, DoIO, Publish, Cleanup
<1>5. ASSUME NEW d \in Clients,
             \/ ReleaseAll(d) \/ PoolStep(ReleaseLoop(d)) \/ PutEnqueue(d)
             \/ WaitAll(d) \/ CancelAll(d)
      PROVE  Same
  BY <1>T, <1>1, <1>5 DEF ReleaseAll, PoolStep, PutEnqueue, WaitAll, CancelAll,
     LoopOverAll, Ready
<1>6. ASSUME NEW d \in Clients, NEW r \in Requests,
             \/ GetRequest(d, r) \/ AttachBuffer(d, r) \/ WaitRequest(d, r)
             \/ WaitForever(d, r) \/ PutRequest(d, r)
      PROVE  Same
  BY <1>T, <1>1, <1>6 DEF GetRequest, AttachBuffer, WaitRequest, WaitForever,
     PutRequest, Ready
<1>7. ASSUME NEW d \in Clients,
             \/ WaitLock(d) \/ WaitJoin(d) \/ ZeroTest(d) \/ ZeroEnter(d)
             \/ ZeroRelock(d) \/ PutStatus(d)
      PROVE  Same
  BY <1>T, <1>7 DEF WaitLock, WaitJoin, ZeroTest, ZeroEnter, ZeroRelock, PutStatus
<1>8. ASSUME NEW d \in Clients, SpuriousResume(d)
      PROVE  Same
  BY <1>T, <1>8 DEF SpuriousResume, Resume
<1>9. ASSUME NEW d \in Clients, Timer(d)
      PROVE  Same
  BY <1>3, <1>9 DEF Timer, TimerCheck, TimerExpire, TimerFire
<1>10. ASSUME NEW d \in Clients, AllLock(d)
       PROVE  Same
  BY <1>T, <1>10 DEF AllLock, NextRound
<1>11. ASSUME NEW d \in Clients, CancelLock(d) \/ CancelAllLock(d)
       PROVE  Same
  <2>1. PICK pc \in {"idle", "cancelAll"} : Signal(opReq[d], [op EXCEPT ![d] = pc])
    BY <1>11 DEF CancelLock, CancelAllLock
  <2>2. op[d] \in {"cancelLock", "cancelAll"}
    BY <1>11 DEF CancelLock, CancelAllLock
  <2> DEFINE ops == [op EXCEPT ![d] = pc]
  <2>3. ops \in [Clients -> OpPC] /\ \A e \in Clients : op[e] \in Conds => ops[e] = op[e]
    BY <1>T, <2>2 DEF OpPC, Conds
  <2>4. op'[c] = ops[c]
    <3>2. Signal(opReq[d], ops)
      BY <2>1
    <3> HIDE DEF ops
    <3>1. op'[c] \notin Conds /\ op'[c] # "waitLock" /\ op'[c] # "zeroRelock"
          /\ op'[c] # "allLock"
      BY DEF Conds
    <3> QED
      BY <2>3, <3>1, <3>2, SignalEffect
  <2>5. c # d /\ op[c] = "cancelLock"
    BY <1>T, <2>4
  <2>6. opReq'[c] = opReq[c]
    BY <1>T, <1>11, <2>5 DEF CancelLock, CancelAllLock, NextRound
  <2> QED
    BY <2>5, <2>6
<1>12. ASSUME NEW d \in Clients, NEW r \in Requests, CancelRequest(d, r)
       PROVE  Same \/ CancelRequest(c, opReq'[c])
  BY <1>T, <1>12 DEF CancelRequest
<1>13. CASE UNCHANGED mmapVars
  BY <1>1, <1>13 DEF mmapVars
<1> QED
  BY <1>4, <1>5, <1>6, <1>7, <1>8, <1>9, <1>10, <1>11, <1>12, <1>13 DEF MmapNext, CallStep

\* The steps that change a status, and how.
LEMMA StatusFrame ==
  ASSUME MmapTypeOK, [MmapNext]_mmapVars
  PROVE  \/ status' = status
         \/ \E c \in Clients, r \in Requests : GetRequest(c, r)
         \/ \E c \in Clients, r \in Requests :
              AttachBuffer(c, r) /\ status' = [status EXCEPT ![r] = "IOFAIL"]
         \/ \E c \in Clients : PutStatus(c)
         \/ \E w \in Workers : Publish(w)
         \/ \E r \in Requests :
              /\ status[r] = "SUBMITTED" /\ status' = [status EXCEPT ![r] = "CANCEL"]
              /\ UNCHANGED poolVars
         \/ \E c \in Clients :
              /\ CancelLock(c) /\ status[opReq[c]] \notin {"IOSUCCESS", "IOFAIL"}
              /\ status' = [status EXCEPT ![opReq[c]] = "CANCEL"]
<1>T. RequestTypes /\ CallTypes
  BY TypeParts
<1> USE DEF RequestTypes, requestVars
<1>1. ASSUME NEW w \in Workers,
             \/ PoolStep(WorkerLoop(w)) \/ PoolStep(SpuriousWake(w))
             \/ SkipCancelled(w) \/ EnterBody(w) \/ DoIO(w) \/ Cleanup(w)
      PROVE  status' = status
  BY <1>1 DEF PoolStep, SkipCancelled, EnterBody, DoIO, Cleanup
<1>2. ASSUME NEW c \in Clients,
             \/ ReleaseAll(c) \/ PoolStep(ReleaseLoop(c)) \/ PutEnqueue(c)
             \/ WaitAll(c) \/ CancelAll(c) \/ SpuriousResume(c)
             \/ WaitLock(c) \/ WaitJoin(c) \/ ZeroTest(c) \/ ZeroEnter(c)
             \/ ZeroRelock(c) \/ AllLock(c) \/ TimerCheck(c) \/ TimerExpire(c)
      PROVE  status' = status
  BY <1>2 DEF ReleaseAll, PoolStep, PutEnqueue, WaitAll, CancelAll, LoopOverAll,
     SpuriousResume, WaitLock, WaitJoin, ZeroTest, ZeroEnter, ZeroRelock, AllLock,
     TimerCheck, TimerExpire
<1>3. ASSUME NEW c \in Clients, NEW r \in Requests,
             \/ PutRequest(c, r) \/ WaitRequest(c, r) \/ WaitForever(c, r)
             \/ CancelRequest(c, r)
      PROVE  status' = status
  BY <1>3 DEF PutRequest, WaitRequest, WaitForever, CancelRequest
<1>4. ASSUME NEW c \in Clients, NEW r \in Requests, AttachBuffer(c, r)
      PROVE  \/ status' = status
             \/ AttachBuffer(c, r) /\ status' = [status EXCEPT ![r] = "IOFAIL"]
  BY <1>4 DEF AttachBuffer
<1>5. ASSUME NEW c \in Clients, TimerFire(c) \/ CancelAllLock(c)
      PROVE  \/ status' = status
             \/ \E r \in Requests :
                  /\ status[r] = "SUBMITTED" /\ status' = [status EXCEPT ![r] = "CANCEL"]
                  /\ UNCHANGED poolVars
  <2>1. /\ UNCHANGED poolVars
        /\ status' = [status EXCEPT ![opReq[c]] =
                        IF @ = "SUBMITTED" THEN "CANCEL" ELSE @]
    BY <1>5 DEF TimerFire, CancelAllLock
  <2>2. CASE opReq[c] \in Requests /\ status[opReq[c]] = "SUBMITTED"
    BY <2>1, <2>2
  <2>3. CASE ~(opReq[c] \in Requests /\ status[opReq[c]] = "SUBMITTED")
    BY <1>T, <2>1, <2>3
  <2> QED
    BY <2>2, <2>3
<1>6. ASSUME NEW c \in Clients, CancelLock(c)
      PROVE  \/ status' = status
             \/ /\ CancelLock(c) /\ status[opReq[c]] \notin {"IOSUCCESS", "IOFAIL"}
                /\ status' = [status EXCEPT ![opReq[c]] = "CANCEL"]
  BY <1>T, <1>6 DEF CancelLock
<1>7. CASE UNCHANGED mmapVars
  BY <1>7 DEF mmapVars
<1> QED
  BY <1>1, <1>2, <1>3, <1>4, <1>5, <1>6, <1>7 DEF MmapNext, CallStep, Body, Timer

\* The steps that change a buffer, and how.
LEMMA BufFrame ==
  ASSUME MmapTypeOK, [MmapNext]_mmapVars, NEW r \in Requests
  PROVE  \/ buf'[r] = buf[r]
         \/ \E c \in Clients :
              /\ AttachBuffer(c, r)
              /\ buf'[r] = IF direction[r] = "WRITE" THEN "MAPPED" ELSE "USER"
         \/ \E c \in Clients :
              /\ PutStatus(c) /\ opReq[c] = r /\ SubmitFailed(r)
              /\ buf[r] = "MAPPED" /\ buf'[r] = "UNMAPPED"
         \/ \E w \in Workers : (SkipCancelled(w) \/ Cleanup(w)) /\ Job(w) = r
<1>T. RequestTypes /\ CallTypes
  BY TypeParts
<1> USE DEF RequestTypes, requestVars, resourceVars
<1>1. ASSUME NEW w \in Workers,
             \/ PoolStep(WorkerLoop(w)) \/ PoolStep(SpuriousWake(w))
             \/ EnterBody(w) \/ DoIO(w) \/ Publish(w)
      PROVE  buf' = buf
  BY <1>1 DEF PoolStep, EnterBody, DoIO, Publish
<1>2. ASSUME NEW w \in Workers, SkipCancelled(w) \/ Cleanup(w)
      PROVE  buf'[r] = buf[r] \/ Job(w) = r
  BY <1>T, <1>2 DEF SkipCancelled, Cleanup
<1>3. ASSUME NEW c \in Clients,
             \/ ReleaseAll(c) \/ PoolStep(ReleaseLoop(c)) \/ PutEnqueue(c)
             \/ WaitAll(c) \/ CancelAll(c) \/ SpuriousResume(c)
             \/ WaitLock(c) \/ WaitJoin(c) \/ ZeroTest(c) \/ ZeroEnter(c)
             \/ ZeroRelock(c) \/ AllLock(c) \/ CancelLock(c) \/ CancelAllLock(c)
             \/ Timer(c)
      PROVE  buf' = buf
  BY <1>3 DEF ReleaseAll, PoolStep, PutEnqueue, WaitAll, CancelAll, LoopOverAll,
     SpuriousResume, WaitLock, WaitJoin, ZeroTest, ZeroEnter, ZeroRelock, AllLock,
     CancelLock, CancelAllLock, Timer, TimerCheck, TimerExpire, TimerFire
<1>4. ASSUME NEW c \in Clients, NEW q \in Requests,
             \/ GetRequest(c, q) \/ PutRequest(c, q) \/ WaitRequest(c, q)
             \/ WaitForever(c, q) \/ CancelRequest(c, q)
      PROVE  buf' = buf
  BY <1>4 DEF GetRequest, PutRequest, WaitRequest, WaitForever, CancelRequest
<1>5. ASSUME NEW c \in Clients, NEW q \in Requests, AttachBuffer(c, q)
      PROVE  \/ buf'[r] = buf[r]
             \/ /\ AttachBuffer(c, r)
                /\ buf'[r] = IF direction[r] = "WRITE" THEN "MAPPED" ELSE "USER"
  <2>1. CASE q = r
    BY <1>T, <1>5, <2>1 DEF AttachBuffer
  <2>2. CASE q # r
    BY <1>T, <1>5, <2>2 DEF AttachBuffer
  <2> QED
    BY <2>1, <2>2
<1>6. ASSUME NEW c \in Clients, PutStatus(c)
      PROVE  \/ buf'[r] = buf[r]
             \/ /\ PutStatus(c) /\ opReq[c] = r /\ SubmitFailed(r)
                /\ buf[r] = "MAPPED" /\ buf'[r] = "UNMAPPED"
  <2>1. buf' = [buf EXCEPT ![opReq[c]] =
                  IF SubmitFailed(opReq[c]) /\ @ = "MAPPED" THEN "UNMAPPED" ELSE @]
    BY <1>6 DEF PutStatus
  <2> QED
    BY <1>T, <1>6, <2>1
<1>7. CASE UNCHANGED mmapVars
  BY <1>7 DEF mmapVars
<1> QED
  <2> HIDE DEF RequestTypes, requestVars, resourceVars
  <2> QED
    BY <1>1, <1>2, <1>3, <1>4, <1>5, <1>6, <1>7 DEF MmapNext, CallStep, Body

Begun(r) == status[r] \notin {"NONE", "INIT"}

\* A status never goes back to NONE or INIT.
LEMMA StatusMonotone ==
  ASSUME MmapTypeOK, [MmapNext]_mmapVars, NEW r \in Requests
  PROVE  /\ status[r] # "NONE" => status'[r] # "NONE"
         /\ Begun(r) => Begun(r)'
         /\ status[r] # "NONE" /\ status'[r] = "INIT" => status[r] = "INIT"
<1>T. RequestTypes
  BY TypeParts
<1> USE <1>T DEF RequestTypes, Begun
<1>1. ASSUME NEW c \in Clients, NEW q \in Requests, GetRequest(c, q)
      PROVE  status'[r] = status[r] \/ (status[r] = "NONE" /\ status'[r] = "INIT")
  BY <1>1 DEF GetRequest
<1>2. ASSUME NEW q, NEW new \in {"SUBMITTED", "IOSUCCESS", "IOFAIL", "CANCEL"},
             status' = [status EXCEPT ![q] = new]
      PROVE  status'[r] = status[r] \/ Begun(r)'
  BY <1>2
<1>3. ASSUME NEW c \in Clients, PutStatus(c)
      PROVE  status'[r] = status[r] \/ Begun(r)'
  BY <1>2, <1>3 DEF PutStatus
<1>4. ASSUME NEW w \in Workers, Publish(w)
      PROVE  status'[r] = status[r] \/ Begun(r)'
  BY <1>2, <1>4 DEF Publish, Outcome
<1>5. \/ status'[r] = status[r] \/ Begun(r)'
      \/ status[r] = "NONE" /\ status'[r] = "INIT"
  <2> HIDE DEF RequestTypes, Begun
  <2> QED
    BY <1>1, <1>2, <1>3, <1>4, StatusFrame
<1> QED
  BY <1>5

-----------------------------------------------------------------------------
(* Workers and the slots they serve *)

\* A worker that has a task keeps it until its function has returned.
LEMMA TaskStable ==
  ASSUME PoolFacts, [PoolNext]_poolVars, NEW w \in Workers, wpc[w] = "run"
  PROVE  /\ request_task'[w] = request_task[w] /\ Job(w)' = Job(w)
         /\ wpc'[w] = "run" \/ RunTask(w)
<1> USE DEF PoolTypeOK, queueVars, workerVars, WorkerGoes, OnlyGoes
<1>T. PoolTypeOK /\ QueueInv
  BY DEF PoolFacts
<1>1. ASSUME NEW v \in Workers, WorkerLoop(v) \/ SpuriousWake(v)
      PROVE  request_task'[w] = request_task[w] /\ wpc'[w] = "run"
  BY <1>T, <1>1 DEF WorkerLoop, Start, Take, Wait, Exit, BeginTask, EndTask, SpuriousWake
<1>2. ASSUME NEW v \in Workers, RunTask(v)
      PROVE  request_task'[w] = request_task[w] /\ (wpc'[w] = "run" \/ RunTask(w))
  BY <1>T, <1>2 DEF RunTask
<1>3. ASSUME NEW c \in Clients, NEW r \in Requests,
             SubmitAccepted(c, r) \/ SubmitRejected(c, r)
      PROVE  request_task'[w] = request_task[w] /\ wpc'[w] = "run"
  BY <1>3 DEF SubmitAccepted, SubmitRejected
<1>4. ASSUME NEW c \in Clients, SubmitEnqueue(c) \/ Poison(c)
      PROVE  request_task'[w] = request_task[w] /\ wpc'[w] = "run"
  BY <1>T, <1>4 DEF SubmitEnqueue, Poison, Enqueue, SignalNotEmpty
<1>5. ASSUME NEW c \in Clients,
             \/ Release(c) \/ JoinAndLoadIdle(c) \/ StoreIdle(c)
             \/ LoadAlive(c) \/ StoreAlive(c)
      PROVE  request_task'[w] = request_task[w] /\ wpc'[w] = "run"
  BY <1>5 DEF Release, JoinAndLoadIdle, StoreIdle, LoadAlive, StoreAlive
<1>6. ASSUME UNCHANGED poolVars
      PROVE  request_task'[w] = request_task[w] /\ wpc'[w] = "run"
  BY <1>6 DEF poolVars
<1>7. request_task'[w] = request_task[w] /\ (wpc'[w] = "run" \/ RunTask(w))
  <2> HIDE DEF queueVars, workerVars, WorkerGoes, OnlyGoes
  <2> QED
    BY <1>1, <1>2, <1>3, <1>4, <1>5, <1>6 DEF PoolNext, Worker, ClientStep, ReleaseLoop
<1>8. request_task[w] \in 1..tail
  BY <1>T DEF PoolFacts, HandedInv, HandsInv, QueueInv
<1> QED
  BY <1>T, <1>7, <1>8, QueueGrows DEF Job

\* Between its entry and its end, mmapRead or mmapWrite runs in a worker, and
\* what it has published is a status its request keeps away from INIT.
WorkerInv ==
  \A w \in Workers :
    /\ body[w] # "entry" => wpc[w] = "run"
    /\ body[w] = "cleanup" => Begun(Job(w))

\* The function of a task runs on a request, not on a sentinel.
LEMMA JobIsRequest ==
  ASSUME PoolFacts, NEW w \in Workers, wpc[w] = "run"
  PROVE  /\ Job(w) \in Requests /\ request_task[w] \in 1..tail
         /\ request_task[w] \notin finished
<1>1. request_task[w] \in 1..head /\ request_task[w] \in 1..tail
  BY DEF PoolFacts, HandedInv, HandsInv, QueueInv, PoolTypeOK
<1>2. request_queue[request_task[w]] \in Tasks
  BY <1>1 DEF PoolFacts, PoolTypeOK, QueueInv
<1>3. ~IsSentinel(request_task[w])
  BY DEF PoolFacts, NoNullFunction
<1>4. request_task[w] \notin finished
  BY DEF PoolFacts, HandedInv, HandedOutOnce, Holds
<1> QED
  BY <1>1, <1>2, <1>3, <1>4 DEF Job, Tasks, IsSentinel

LEMMA NextWorker ==
  PoolFacts /\ MmapTypeOK /\ WorkerInv /\ [MmapNext]_mmapVars => WorkerInv'
<1> SUFFICES ASSUME PoolFacts, MmapTypeOK, WorkerInv, [MmapNext]_mmapVars
             PROVE  WorkerInv'
  OBVIOUS
<1>T. RequestTypes /\ BodyTypes
  BY TypeParts
<1>P. [PoolNext]_poolVars
  BY StepUsesPool
\* Steps that leave mmapRead and mmapWrite where they are.
<1>1. ASSUME UNCHANGED body, \A w \in Workers : body[w] # "entry" => ~RunTask(w)
      PROVE  WorkerInv'
  <2> SUFFICES ASSUME NEW w \in Workers, body[w] # "entry"
               PROVE  wpc'[w] = "run" /\ (body[w] = "cleanup" => Begun(Job(w))')
    BY <1>1 DEF WorkerInv
  <2>1. wpc[w] = "run"
    BY DEF WorkerInv
  <2>2. wpc'[w] = "run" /\ Job(w)' = Job(w) /\ Job(w) \in Requests
    BY <1>1, <1>P, <2>1, TaskStable, JobIsRequest
  <2>3. body[w] = "cleanup" => Begun(Job(w))
    BY DEF WorkerInv
  <2> QED
    BY <2>2, <2>3, StatusMonotone DEF Begun
\* Worker v goes on in them.
<1>2. ASSUME NEW v \in Workers, NEW pc \in {"io", "publish", "cleanup"},
             UNCHANGED poolVars, body' = [body EXCEPT ![v] = pc], wpc[v] = "run",
             pc = "cleanup" => Begun(Job(v))'
      PROVE  WorkerInv'
  <2> SUFFICES ASSUME NEW w \in Workers, body'[w] # "entry"
               PROVE  wpc'[w] = "run" /\ (body'[w] = "cleanup" => Begun(Job(w))')
    BY DEF WorkerInv
  <2>1. wpc' = wpc /\ Job(w)' = Job(w) /\ Job(v)' = Job(v)
    BY <1>2 DEF poolVars, workerVars, queueVars, Job
  <2>2. CASE w = v
    BY <1>T, <1>2, <2>1, <2>2 DEF BodyTypes
  <2>3. CASE w # v
    <3>1. body'[w] = body[w]
      BY <1>T, <1>2, <2>3 DEF BodyTypes
    <3>2. wpc[w] = "run" /\ (body[w] = "cleanup" => Begun(Job(w)))
      BY <3>1 DEF WorkerInv
    <3>3. Job(w) \in Requests
      BY <3>2, JobIsRequest
    <3> QED
      BY <2>1, <3>1, <3>2, <3>3, StatusMonotone DEF Begun
  <2> QED
    BY <2>2, <2>3
<1>3. ASSUME NEW v \in Workers, PoolStep(WorkerLoop(v)) \/ PoolStep(SpuriousWake(v))
      PROVE  WorkerInv'
  <2>1. body' = body
    BY <1>3 DEF PoolStep, bodyVars
  <2>2. \A w \in Workers : ~RunTask(w)
    BY <1>3 DEF PoolFacts, PoolTypeOK, PoolStep, WorkerLoop, Start, Take, Wait, Exit,
       BeginTask, EndTask, SpuriousWake, RunTask, WorkerGoes, OnlyGoes
  <2> QED
    BY <1>1, <2>1, <2>2
<1>4. ASSUME NEW v \in Workers, SkipCancelled(v)
      PROVE  WorkerInv'
  <2>1. body' = body /\ body[v] = "entry" /\ RunTask(v)
    BY <1>4 DEF SkipCancelled, bodyVars
  <2>2. \A w \in Workers : body[w] # "entry" => ~RunTask(w)
    BY <2>1 DEF PoolFacts, PoolTypeOK, RunTask, WorkerGoes
  <2> QED
    BY <1>1, <2>1, <2>2
<1>5. ASSUME NEW v \in Workers, EnterBody(v)
      PROVE  WorkerInv'
  BY <1>2, <1>5 DEF EnterBody
<1>6. ASSUME NEW v \in Workers, DoIO(v)
      PROVE  WorkerInv'
  BY <1>T, <1>2, <1>6 DEF DoIO, WorkerInv
<1>7. ASSUME NEW v \in Workers, Publish(v)
      PROVE  WorkerInv'
  <2>1. wpc[v] = "run" /\ Job(v) \in Requests /\ UNCHANGED poolVars
    BY <1>7, JobIsRequest DEF Publish, WorkerInv
  <2>2. Job(v)' = Job(v)
    BY <2>1 DEF poolVars, workerVars, queueVars, Job
  <2>3. Begun(Job(v))'
    BY <1>T, <1>7, <2>1, <2>2 DEF Publish, Outcome, Begun, RequestTypes
  <2> QED
    BY <1>2, <1>7, <2>1, <2>3 DEF Publish
<1>8. ASSUME NEW v \in Workers, Cleanup(v)
      PROVE  WorkerInv'
  <2>1. RunTask(v) /\ body' = [body EXCEPT ![v] = "entry"]
    BY <1>8 DEF Cleanup
  <2> SUFFICES ASSUME NEW w \in Workers, body'[w] # "entry"
               PROVE  wpc'[w] = "run" /\ (body'[w] = "cleanup" => Begun(Job(w))')
    BY DEF WorkerInv
  <2>2. w # v /\ body'[w] = body[w] /\ wpc[w] = "run"
    BY <1>T, <2>1 DEF BodyTypes, WorkerInv
  <2>3. wpc'[w] = "run"
    BY <2>1, <2>2 DEF PoolFacts, PoolTypeOK, RunTask, WorkerGoes
  <2>4. Job(w)' = Job(w) /\ Job(w) \in Requests
    BY <1>P, <2>2, TaskStable, JobIsRequest
  <2>5. body[w] = "cleanup" => Begun(Job(w))
    BY DEF WorkerInv
  <2> QED
    BY <2>2, <2>3, <2>4, <2>5, StatusMonotone DEF Begun
\* A client's step ends no task.
<1>9. ASSUME UNCHANGED bodyVars, UNCHANGED finished
      PROVE  WorkerInv'
  <2>1. \A w \in Workers : body[w] # "entry" => ~RunTask(w)
    <3> SUFFICES ASSUME NEW w \in Workers, body[w] # "entry", RunTask(w)
                 PROVE  FALSE
      OBVIOUS
    <3>1. request_task[w] \in finished'
      BY DEF RunTask
    <3> QED
      BY <1>9, <3>1, JobIsRequest DEF WorkerInv
  <2> QED
    BY <1>1, <1>9, <2>1 DEF bodyVars
<1>10. ASSUME NEW c \in Clients,
              \/ ReleaseAll(c) \/ PoolStep(ReleaseLoop(c)) \/ PutEnqueue(c)
       PROVE  UNCHANGED bodyVars /\ UNCHANGED finished
  BY <1>10 DEF ReleaseAll, PoolStep, ReleaseLoop, Release, Poison, Enqueue,
     JoinAndLoadIdle, StoreIdle, LoadAlive, StoreAlive, PutEnqueue, SubmitEnqueue,
     workerVars
<1>11. ASSUME NEW c \in Clients,
              \/ WaitAll(c) \/ CancelAll(c) \/ SpuriousResume(c)
              \/ WaitLock(c) \/ WaitJoin(c) \/ ZeroTest(c) \/ ZeroEnter(c)
              \/ ZeroRelock(c) \/ AllLock(c) \/ CancelLock(c) \/ CancelAllLock(c)
              \/ Timer(c) \/ PutStatus(c)
       PROVE  UNCHANGED bodyVars /\ UNCHANGED finished
  BY <1>11 DEF WaitAll, CancelAll, LoopOverAll, SpuriousResume, WaitLock, WaitJoin,
     ZeroTest, ZeroEnter, ZeroRelock, AllLock, CancelLock, CancelAllLock, Timer,
     TimerCheck, TimerExpire, TimerFire, PutStatus, poolVars, workerVars
<1>12. ASSUME NEW c \in Clients, NEW r \in Requests,
              \/ GetRequest(c, r) \/ AttachBuffer(c, r) \/ PutRequest(c, r)
              \/ WaitRequest(c, r) \/ WaitForever(c, r) \/ CancelRequest(c, r)
       PROVE  UNCHANGED bodyVars /\ UNCHANGED finished
  BY <1>12 DEF GetRequest, AttachBuffer, PutRequest, PutSubmit, SubmitAccepted,
     SubmitRejected, WaitRequest, WaitForever, CancelRequest, poolVars, workerVars
<1>13. CASE UNCHANGED mmapVars
  BY <1>9, <1>13 DEF mmapVars, poolVars, workerVars
<1> QED
  BY <1>3, <1>4, <1>5, <1>6, <1>7, <1>8, <1>9, <1>10, <1>11, <1>12, <1>13
  DEF MmapNext, CallStep, Body

-----------------------------------------------------------------------------
(* Requests that are being put in or cancelled *)

InPut(r) == \E c \in Clients : op[c] = "put" /\ opReq[c] = r

\* A client that submits a task is inside the put of its request, which has a
\* buffer; a request that is being cancelled has been put in.
OwnerInv ==
  \A c \in Clients :
    /\ cpc[c] = "enqueue" => op[c] = "put" /\ opReq[c] = ctask[c]
    /\ op[c] = "put" =>
         /\ status[opReq[c]] # "NONE"
         /\ status[opReq[c]] = "INIT" => buf[opReq[c]] # "NULL"
    /\ op[c] = "cancelLock" => Begun(opReq[c])

\* Only PutRequest makes a client enqueue.
LEMMA EnqueueFrame ==
  ASSUME PoolTypeOK, [MmapNext]_mmapVars, NEW c \in Clients, cpc'[c] = "enqueue"
  PROVE  \/ cpc[c] = "enqueue" /\ ctask'[c] = ctask[c]
         \/ \E r \in Requests : PutRequest(c, r) /\ ctask'[c] = r
<1> DEFINE Same == cpc[c] = "enqueue" /\ ctask'[c] = ctask[c]
<1> USE DEF PoolTypeOK, ClientGoes
<1>1. ASSUME UNCHANGED <<cpc, ctask>>
      PROVE  Same
  BY <1>1
<1>2. ASSUME UNCHANGED poolVars
      PROVE  Same
  BY <1>1, <1>2 DEF poolVars, clientVars
<1>3. ASSUME NEW w \in Workers, PoolStep(WorkerLoop(w)) \/ PoolStep(SpuriousWake(w))
      PROVE  Same
  BY <1>1, <1>3 DEF PoolStep, WorkerLoop, Start, Take, Wait, Exit, BeginTask, EndTask,
     SpuriousWake, OnlyGoes, clientVars
<1>4. ASSUME NEW w \in Workers, Body(w)
      PROVE  Same
  BY <1>1, <1>2, <1>4 DEF Body, SkipCancelled, EnterBody, DoIO, Publish, Cleanup,
     RunTask, clientVars
<1>5. ASSUME NEW d \in Clients, ReleaseAll(d) \/ PoolStep(ReleaseLoop(d))
      PROVE  Same
  BY <1>5 DEF ReleaseAll, PoolStep, ReleaseLoop, Release, Poison, JoinAndLoadIdle,
     StoreIdle, LoadAlive, StoreAlive
<1>6. ASSUME NEW d \in Clients, PutEnqueue(d)
      PROVE  Same
  BY <1>6 DEF PutEnqueue, SubmitEnqueue
<1>7. ASSUME NEW d \in Clients,
             \/ PutStatus(d) \/ WaitLock(d) \/ WaitJoin(d)
             \/ ZeroTest(d) \/ ZeroEnter(d) \/ ZeroRelock(d)
             \/ CancelLock(d) \/ AllLock(d) \/ CancelAllLock(d)
             \/ WaitAll(d) \/ CancelAll(d) \/ SpuriousResume(d) \/ Timer(d)
      PROVE  Same
  BY <1>2, <1>7, RequestSteps
<1>8. ASSUME NEW d \in Clients, NEW r \in Requests,
             \/ GetRequest(d, r) \/ AttachBuffer(d, r)
             \/ WaitRequest(d, r) \/ WaitForever(d, r) \/ CancelRequest(d, r)
      PROVE  Same
  BY <1>2, <1>8, RequestSteps
<1>9. ASSUME NEW d \in Clients, NEW r \in Requests, PutRequest(d, r)
      PROVE  Same \/ (PutRequest(c, r) /\ ctask'[c] = r)
  BY <1>9 DEF PutRequest, PutSubmit, SubmitAccepted, SubmitRejected
<1>10. CASE UNCHANGED mmapVars
  BY <1>2, <1>10 DEF mmapVars
<1> QED
  <2> HIDE DEF PoolTypeOK, ClientGoes
  <2> QED
    BY <1>3, <1>4, <1>5, <1>6, <1>7, <1>8, <1>9, <1>10 DEF MmapNext, CallStep

LEMMA NextOwner ==
  /\ PoolFacts /\ MmapTypeOK /\ WorkerInv /\ OwnerInv /\ [MmapNext]_mmapVars
  => OwnerInv'
<1> SUFFICES ASSUME PoolFacts, MmapTypeOK, WorkerInv, OwnerInv, [MmapNext]_mmapVars,
                    NEW c \in Clients
             PROVE  /\ cpc'[c] = "enqueue" => op'[c] = "put" /\ opReq'[c] = ctask'[c]
                    /\ op'[c] = "put" =>
                         /\ status'[opReq'[c]] # "NONE"
                         /\ status'[opReq'[c]] = "INIT" => buf'[opReq'[c]] # "NULL"
                    /\ op'[c] = "cancelLock" => Begun(opReq[c])'
  BY DEF OwnerInv, Begun
<1>T. RequestTypes /\ CallTypes /\ PoolTypeOK
  BY TypeParts DEF PoolFacts
<1>1. ASSUME cpc'[c] = "enqueue"
      PROVE  op'[c] = "put" /\ opReq'[c] = ctask'[c]
  <2>1. ASSUME NEW r \in Requests, PutRequest(c, r), ctask'[c] = r
        PROVE  op'[c] = "put" /\ opReq'[c] = ctask'[c]
    BY <1>T, <2>1 DEF PutRequest, CallTypes
  <2>2. ASSUME cpc[c] = "enqueue", ctask'[c] = ctask[c]
        PROVE  op'[c] = "put" /\ opReq'[c] = ctask'[c]
    <3>1. op[c] = "put" /\ opReq[c] = ctask[c]
      BY <2>2 DEF OwnerInv
    <3>2. CASE SamePuts
      BY <2>2, <3>1, <3>2 DEF SamePuts
    <3>3. ASSUME NEW d \in Clients, NEW r \in Requests, PutRequest(d, r)
          PROVE  op'[c] = "put" /\ opReq'[c] = ctask'[c]
      BY <1>T, <2>2, <3>1, <3>3 DEF PutRequest, Ready, CallTypes
    <3>4. ASSUME NEW d \in Clients, PutStatus(d)
          PROVE  op'[c] = "put" /\ opReq'[c] = ctask'[c]
      BY <1>T, <2>2, <3>1, <3>4 DEF PutStatus, CallTypes, loopVars
    <3> QED
      BY <3>2, <3>3, <3>4, PutFrame
  <2> QED
    BY <1>1, <1>T, <2>1, <2>2, EnqueueFrame
\* A request that stays in a put keeps a buffer until it has been published.
<1>2. ASSUME op[c] = "put"
      PROVE  /\ status'[opReq[c]] # "NONE"
             /\ status'[opReq[c]] = "INIT" => buf'[opReq[c]] # "NULL"
  <2> DEFINE r == opReq[c]
  <2>1. /\ r \in Requests /\ status[r] # "NONE"
        /\ status[r] = "INIT" => buf[r] # "NULL"
    BY <1>2, <1>T DEF CallTypes, Tasks, OwnerInv
  <2>2. /\ status'[r] # "NONE"
        /\ status'[r] = "INIT" => status[r] = "INIT"
    BY <2>1, StatusMonotone
  <2>3. ASSUME status[r] = "INIT"
        PROVE  buf'[r] # "NULL"
    <3>1. ASSUME NEW w \in Workers, SkipCancelled(w) \/ Cleanup(w), Job(w) = r
          PROVE  FALSE
      BY <2>3, <3>1 DEF SkipCancelled, SkipsJob, Cleanup, WorkerInv, Begun
    <3> QED
      BY <2>1, <2>3, <3>1, BufFrame
  <2> QED
    BY <2>2, <2>3
<1>3. ASSUME op'[c] = "put"
      PROVE  /\ status'[opReq'[c]] # "NONE"
             /\ status'[opReq'[c]] = "INIT" => buf'[opReq'[c]] # "NULL"
  <2>1. CASE op[c] = "put" /\ opReq'[c] = opReq[c]
    BY <1>2, <2>1
  <2>2. ASSUME NEW d \in Clients, NEW r \in Requests, PutRequest(d, r)
        PROVE  \/ op[c] = "put" /\ opReq'[c] = opReq[c]
               \/ /\ status'[opReq'[c]] # "NONE"
                  /\ status'[opReq'[c]] = "INIT" => buf'[opReq'[c]] # "NULL"
    BY <1>3, <1>T, <2>2 DEF PutRequest, CallTypes, requestVars, resourceVars
  <2>3. ASSUME NEW d \in Clients, PutStatus(d)
        PROVE  op[c] = "put" /\ opReq'[c] = opReq[c]
    BY <1>3, <1>T, <2>3 DEF PutStatus, CallTypes, loopVars
  <2> QED
    BY <1>3, <2>1, <2>2, <2>3, PutFrame DEF SamePuts
<1>4. ASSUME op'[c] = "cancelLock"
      PROVE  Begun(opReq[c])'
  <2>1. CASE op[c] = "cancelLock" /\ opReq'[c] = opReq[c]
    <3>1. opReq[c] \in Requests /\ Begun(opReq[c])
      BY <1>T, <2>1 DEF CallTypes, Tasks, OwnerInv
    <3> QED
      BY <2>1, <3>1, StatusMonotone DEF Begun
  <2>2. CASE CancelRequest(c, opReq'[c])
    BY <2>2 DEF CancelRequest, Begun, requestVars
  <2> QED
    BY <1>4, <2>1, <2>2, CancelFrame
<1> QED
  BY <1>1, <1>3, <1>4

-----------------------------------------------------------------------------
(* Requests whose outcome is still to be published *)

\* The function of slot s has not published an outcome yet.
Unpublished(s) ==
  s \notin finished /\ \A w \in Workers : body[w] = "cleanup" => request_task[w] # s

\* Such a request, once its put has returned, is SUBMITTED or cancelled.
SlotInv ==
  \A s \in 1..tail :
    request_queue[s] \in Requests /\ Unpublished(s) /\ ~InPut(request_queue[s])
      => status[request_queue[s]] \in {"SUBMITTED", "CANCEL"}

\* A slot is new only when a client submits a request, or a sentinel.
LEMMA NewSlot ==
  ASSUME PoolTypeOK, QueueInv, ReleaseInv, [PoolNext]_poolVars, NEW s \in 1..tail',
         s \notin 1..tail, request_queue'[s] \in Requests
  PROVE  \E c \in Clients : SubmitEnqueue(c) /\ request_queue'[s] = ctask[c]
<1> USE DEF PoolTypeOK, queueVars
<1>1. tail' # tail
  OBVIOUS
<1>2. ASSUME NEW w \in Workers, Worker(w) \/ SpuriousWake(w)
      PROVE  FALSE
  BY <1>1, <1>2 DEF Worker, WorkerLoop, Start, Take, Wait, Exit, BeginTask, EndTask,
     RunTask, SpuriousWake, OnlyGoes
<1>3. ASSUME NEW c \in Clients, NEW r \in Requests,
             SubmitAccepted(c, r) \/ SubmitRejected(c, r)
      PROVE  FALSE
  BY <1>1, <1>3 DEF SubmitAccepted, SubmitRejected
<1>4. ASSUME NEW c \in Clients, SubmitEnqueue(c)
      PROVE  SubmitEnqueue(c) /\ request_queue'[s] = ctask[c]
  <2>1. PICK res \in {"OK", "NO_MEMORY"} : Enqueue(ctask[c], res)
    BY <1>4 DEF SubmitEnqueue
  <2>2. tail' = tail + 1 /\ request_queue'[tail + 1] = ctask[c]
    BY <2>1, EnqueueSlots
  <2> QED
    BY <1>4, <2>2
<1>5. ASSUME NEW c \in Clients, Poison(c)
      PROVE  FALSE
  <2>1. PICK res \in {"OK", "NO_MEMORY"} : Enqueue(Sentinel, res)
    BY <1>5 DEF Poison
  <2>2. tail' = tail + 1 /\ request_queue'[tail + 1] = Sentinel
    BY <2>1, EnqueueSlots DEF Tasks
  <2> QED
    BY <2>2, PoolAssumption DEF PoolAssumption
<1>6. ASSUME NEW c \in Clients,
             \/ Release(c) \/ JoinAndLoadIdle(c) \/ StoreIdle(c)
             \/ LoadAlive(c) \/ StoreAlive(c)
      PROVE  FALSE
  BY <1>1, <1>6 DEF Release, JoinAndLoadIdle, StoreIdle, LoadAlive, StoreAlive
<1>7. CASE UNCHANGED poolVars
  BY <1>1, <1>7 DEF poolVars
<1> QED
  BY <1>2, <1>3, <1>4, <1>5, <1>6, <1>7 DEF PoolNext, ClientStep, ReleaseLoop

\* A step of the pool takes no slot out of finished.
LEMMA FinishedGrows ==
  ASSUME [PoolNext]_poolVars
  PROVE  finished \subseteq finished'
BY DEF PoolNext, Worker, WorkerLoop, Start, Take, Wait, Exit, BeginTask, EndTask,
   RunTask, SpuriousWake, OnlyGoes, SubmitAccepted, SubmitRejected, ClientStep,
   SubmitEnqueue, Enqueue, ReleaseLoop, Release, Poison, JoinAndLoadIdle, StoreIdle,
   LoadAlive, StoreAlive, poolVars, workerVars

\* Only Cleanup leaves the end of mmapRead or mmapWrite, and finishes the slot.
LEMMA CleanupFrame ==
  ASSUME PoolFacts, MmapTypeOK, WorkerInv, [MmapNext]_mmapVars, NEW w \in Workers,
         body[w] = "cleanup"
  PROVE  \/ body'[w] = "cleanup" /\ request_task'[w] = request_task[w]
         \/ request_task[w] \in finished'
<1>T. BodyTypes
  BY TypeParts
<1>1. request_task'[w] = request_task[w]
  BY StepUsesPool, TaskStable DEF WorkerInv
<1>2. ASSUME NEW v \in Workers,
             PoolStep(WorkerLoop(v)) \/ PoolStep(SpuriousWake(v)) \/ Body(v)
      PROVE  body'[w] = "cleanup" \/ request_task[w] \in finished'
  BY <1>T, <1>2 DEF BodyTypes, PoolStep, bodyVars, Body, SkipCancelled, EnterBody, DoIO,
     Publish, Cleanup, RunTask
<1>3. ASSUME NEW c \in Clients,
             \/ ReleaseAll(c) \/ PoolStep(ReleaseLoop(c)) \/ WaitAll(c) \/ CancelAll(c)
             \/ SpuriousResume(c) \/ CallStep(c) \/ Timer(c)
      PROVE  UNCHANGED body
  BY <1>3 DEF PoolStep, ReleaseAll, WaitAll, CancelAll, LoopOverAll, SpuriousResume,
     CallStep, PutEnqueue, PutStatus, WaitLock, WaitJoin, ZeroTest, ZeroEnter,
     ZeroRelock, CancelLock, AllLock, CancelAllLock, Timer, TimerCheck, TimerExpire,
     TimerFire, bodyVars
<1>4. ASSUME NEW c \in Clients, NEW r \in Requests,
             \/ GetRequest(c, r) \/ AttachBuffer(c, r) \/ PutRequest(c, r)
             \/ WaitRequest(c, r) \/ WaitForever(c, r) \/ CancelRequest(c, r)
      PROVE  UNCHANGED body
  BY <1>4 DEF GetRequest, AttachBuffer, PutRequest, WaitRequest, WaitForever,
     CancelRequest, bodyVars
<1>5. CASE UNCHANGED mmapVars
  BY <1>1, <1>5 DEF mmapVars, bodyVars
<1> QED
  BY <1>1, <1>2, <1>3, <1>4, <1>5 DEF MmapNext

\* Every step leaves every put as it is, or begins one, or ends one.
LEMMA InPutFrame ==
  ASSUME MmapTypeOK, [MmapNext]_mmapVars, NEW r \in Requests
  PROVE  /\ InPut(r) => (InPut(r)' \/ \E c \in Clients : PutStatus(c) /\ opReq[c] = r)
         /\ InPut(r)' => (InPut(r) \/ \E c \in Clients : PutRequest(c, r))
<1>T. CallTypes
  BY TypeParts
<1>1. CASE SamePuts
  BY <1>1 DEF SamePuts, InPut
<1>2. ASSUME NEW c \in Clients, NEW q \in Requests, PutRequest(c, q)
      PROVE  /\ InPut(r) => InPut(r)'
             /\ InPut(r)' => InPut(r) \/ PutRequest(c, r)
  <2>1. op[c] = "idle" /\ \A d \in Clients \ {c} : op'[d] = op[d] /\ opReq'[d] = opReq[d]
    BY <1>T, <1>2 DEF PutRequest, Ready, CallTypes
  <2>2. opReq'[c] = q
    BY <1>T, <1>2 DEF PutRequest, CallTypes
  <2> QED
    BY <1>2, <2>1, <2>2 DEF InPut
<1>3. ASSUME NEW c \in Clients, PutStatus(c)
      PROVE  /\ InPut(r) => InPut(r)' \/ (PutStatus(c) /\ opReq[c] = r)
             /\ InPut(r)' => InPut(r)
  <2>1. /\ op'[c] = "idle" /\ opReq' = opReq
        /\ \A d \in Clients \ {c} : op'[d] = op[d]
    BY <1>T, <1>3 DEF PutStatus, CallTypes, loopVars
  <2> QED
    BY <1>3, <2>1 DEF InPut
<1> QED
  BY <1>1, <1>2, <1>3, PutFrame

LEMMA NextSlot ==
  /\ PoolFacts /\ MmapTypeOK /\ WorkerInv /\ OwnerInv /\ SlotInv /\ [MmapNext]_mmapVars
  => SlotInv'
<1> SUFFICES ASSUME PoolFacts, MmapTypeOK, WorkerInv, OwnerInv, SlotInv,
                    [MmapNext]_mmapVars, NEW s \in 1..tail', NEW r \in Requests,
                    r = request_queue'[s], Unpublished(s)', ~InPut(r)'
             PROVE  status'[r] \in {"SUBMITTED", "CANCEL"}
  BY DEF SlotInv, InPut
<1>T. RequestTypes /\ CallTypes /\ BodyTypes /\ PoolTypeOK /\ QueueInv /\ ReleaseInv
  BY TypeParts DEF PoolFacts
<1>P. [PoolNext]_poolVars
  BY StepUsesPool
\* A put that ends stores SUBMITTED or CANCEL.
<1>1. ASSUME NEW c \in Clients, PutStatus(c), opReq[c] = r
      PROVE  status'[r] \in {"SUBMITTED", "CANCEL"}
  BY <1>1, <1>T DEF PutStatus, RequestTypes
<1>2. CASE s \notin 1..tail
  <2>1. PICK c \in Clients : SubmitEnqueue(c) /\ r = ctask[c]
    BY <1>2, <1>P, <1>T, NewSlot
  <2>2. op[c] = "put" /\ opReq[c] = r
    BY <2>1 DEF OwnerInv, SubmitEnqueue, ClientGoes
  <2> QED
    BY <1>1, <2>2, InPutFrame DEF InPut
<1>3. CASE s \in 1..tail
  <2>1. r = request_queue[s]
    BY <1>3, <1>P, <1>T, QueueGrows
  <2>2. Unpublished(s)
    <3>1. s \notin finished
      BY <1>P, FinishedGrows DEF Unpublished
    <3>2. ASSUME NEW w \in Workers, body[w] = "cleanup", request_task[w] = s
          PROVE  FALSE
      BY <3>2, CleanupFrame DEF Unpublished
    <3> QED
      BY <3>1, <3>2 DEF Unpublished
  <2>3. CASE InPut(r)
    BY <1>1, <2>3, InPutFrame
  <2>4. CASE ~InPut(r)
    <3>1. status[r] \in {"SUBMITTED", "CANCEL"}
      BY <1>3, <2>1, <2>2, <2>4 DEF SlotInv
    <3>2. ASSUME NEW w \in Workers, Publish(w)
          PROVE  status'[r] = status[r]
      <4>1. wpc[w] = "run" /\ body'[w] = "cleanup"
        BY <1>T, <3>2 DEF Publish, WorkerInv, BodyTypes
      <4>2. request_task'[w] = request_task[w]
        BY <1>P, <4>1, TaskStable
      <4>3. request_task[w] # s
        BY <4>1, <4>2 DEF Unpublished
      <4>4. Job(w) # r
        BY <1>3, <2>1, <4>1, <4>3, JobIsRequest DEF Job, PoolFacts, SubmitInv
      <4> QED
        BY <1>T, <3>2, <4>4 DEF Publish, RequestTypes
    <3>3. ASSUME NEW c \in Clients, PutStatus(c)
          PROVE  status'[r] = status[r]
      BY <1>T, <2>4, <3>3 DEF PutStatus, InPut, RequestTypes
    <3>4. ASSUME NEW q, status' = [status EXCEPT ![q] = "CANCEL"]
          PROVE  status'[r] \in {status[r], "CANCEL"}
      BY <1>T, <3>4 DEF RequestTypes
    <3>5. ASSUME NEW c \in Clients, NEW q \in Requests, GetRequest(c, q) \/ AttachBuffer(c, q)
          PROVE  status'[r] = status[r]
      BY <1>T, <3>1, <3>5 DEF GetRequest, AttachBuffer, RequestTypes
    <3> QED
      BY <3>1, <3>2, <3>3, <3>4, <3>5, StatusFrame
  <2> QED
    BY <2>3, <2>4
<1> QED
  BY <1>2, <1>3

\* What the workers, the callers and the slots know of a request's status.
LEMMA OutcomeInvCorrect == MmapSpec => [](WorkerInv /\ OwnerInv /\ SlotInv)
<1>1. MmapInit => WorkerInv /\ OwnerInv /\ SlotInv
  <2> SUFFICES ASSUME MmapInit
               PROVE  WorkerInv /\ OwnerInv /\ SlotInv
    OBVIOUS
  <2>1. WorkerInv
    BY DEF MmapInit, WorkerInv
  <2>2. OwnerInv
    BY DEF MmapInit, PoolInit, OwnerInv
  <2>3. 1..tail = {}
    BY DEF MmapInit, PoolInit
  <2> QED
    BY <2>1, <2>2, <2>3 DEF SlotInv
<1>2. PoolFacts /\ MmapTypeOK /\ (WorkerInv /\ OwnerInv /\ SlotInv) /\ [MmapNext]_mmapVars
        => (WorkerInv /\ OwnerInv /\ SlotInv)'
  BY NextWorker, NextOwner, NextSlot
<1> QED
  BY <1>1, <1>2, PoolFactsCorrect, MmapTypeCorrect, PTL DEF MmapSpec

-----------------------------------------------------------------------------
(* The refinement of RequestLifecycle *)

\* The stage of a request is a function of its status and of its put.
LEMMA StageFrame ==
  ASSUME RequestTypes, NEW r \in Requests, status'[r] = status[r],
         InPut(r)' <=> InPut(r)
  PROVE  Stage(r)' = Stage(r)
BY DEF RequestTypes, StatusSet, Stage, InPut

\* A step that moves one request on, and no other, is a step of the lifecycle.
LEMMA StageAdvance ==
  ASSUME NEW r \in Requests, NEW from, NEW to, <<from, to>> \in Life!Moves,
         Stage(r) = from, Stage(r)' = to,
         \A q \in Requests \ {r} : Stage(q)' = Stage(q)
  PROVE  \E q \in Requests : Life!Advance(q)
<1> DEFINE stage == [q \in Requests |-> Stage(q)]
<1>1. [q \in Requests |-> Stage(q)'] = [stage EXCEPT ![r] = to]
  OBVIOUS
<1>2. stage[r] = from
  OBVIOUS
<1>3. Life!Advance(r)
  BY <1>1, <1>2 DEF Life!Advance
<1> QED
  BY <1>3

\* The settlement of a request whose put has returned: a pending one is
\* settled, a settled one stays as it is.
LEMMA StageSettles ==
  ASSUME RequestTypes, NEW r \in Requests,
         NEW new \in {"IOSUCCESS", "IOFAIL", "CANCEL"},
         status[r] \in {"SUBMITTED", "CANCEL"}, status[r] = "CANCEL" => new = "CANCEL",
         status' = [status EXCEPT ![r] = new],
         \A q \in Requests : InPut(q)' <=> InPut(q)
  PROVE  \/ \E q \in Requests : Life!Advance(q)
         \/ \A q \in Requests : Stage(q)' = Stage(q)
<1>1. \A q \in Requests \ {r} : Stage(q)' = Stage(q)
  BY StageFrame DEF RequestTypes
<1>2. status'[r] = new
  BY DEF RequestTypes
<1>3. CASE InPut(r) \/ status[r] = "CANCEL"
  <2>1. Stage(r)' = Stage(r)
    BY <1>2, <1>3 DEF Stage, InPut
  <2> QED
    BY <1>1, <2>1
<1>4. CASE ~InPut(r) /\ status[r] = "SUBMITTED"
  <2> DEFINE to == CASE new = "IOSUCCESS" -> "success"
                     [] new = "IOFAIL" -> "failure"
                     [] new = "CANCEL" -> "cancelled"
  <2>1. Stage(r) = "pending" /\ Stage(r)' = to
    BY <1>2, <1>4 DEF Stage, InPut
  <2>2. <<"pending", to>> \in Life!Moves
    BY DEF Life!Moves, Life!Settled
  <2> QED
    BY <1>1, <2>1, <2>2, StageAdvance
<1> QED
  BY <1>3, <1>4

\* When a function publishes, no other has published for its request.
LEMMA PublishesOnce ==
  ASSUME PoolFacts, MmapTypeOK, WorkerInv, SlotInv, NEW w \in Workers, Publish(w)
  PROVE  /\ Job(w) \in Requests
         /\ InPut(Job(w)) \/ status[Job(w)] \in {"SUBMITTED", "CANCEL"}
<1>1. wpc[w] = "run" /\ body[w] = "publish"
  BY DEF Publish, WorkerInv
<1>2. /\ Job(w) \in Requests /\ request_task[w] \in 1..tail
      /\ request_task[w] \notin finished
  BY <1>1, JobIsRequest
<1>3. ASSUME NEW v \in Workers, body[v] = "cleanup", request_task[v] = request_task[w]
      PROVE  FALSE
  <2>1. v # w /\ wpc[v] = "run"
    BY <1>1, <1>3 DEF WorkerInv
  <2> QED
    BY <1>1, <1>3, <2>1 DEF PoolFacts, HandedInv, HandedOutOnce, Holds
<1>4. Unpublished(request_task[w])
  BY <1>2, <1>3 DEF Unpublished
<1> QED
  BY <1>2, <1>4 DEF SlotInv, Job

\* Every step of the accessor is a step of the lifecycle of one request, or of
\* none.
LEMMA NextStage ==
  ASSUME PoolFacts, MmapTypeOK, WorkerInv, OwnerInv, SlotInv, [MmapNext]_mmapVars
  PROVE  \/ \E r \in Requests : Life!Advance(r)
         \/ \A r \in Requests : Stage(r)' = Stage(r)
<1> DEFINE Goal == \/ \E r \in Requests : Life!Advance(r)
                   \/ \A r \in Requests : Stage(r)' = Stage(r)
<1>T. RequestTypes /\ CallTypes
  BY TypeParts
<1>O. \A r \in Requests : InPut(r) =>
        status[r] # "NONE" /\ (status[r] = "INIT" => buf[r] # "NULL")
  BY DEF OwnerInv, InPut
\* No put begins or ends.
<1>1. CASE SamePuts
  <2>I. \A r \in Requests : InPut(r)' <=> InPut(r)
    BY <1>1 DEF SamePuts, InPut
  <2>1. CASE status' = status
    BY <1>T, <2>1, <2>I, StageFrame
  <2>2. ASSUME NEW c \in Clients, NEW r \in Requests, GetRequest(c, r)
        PROVE  Goal
    <3>1. status[r] = "NONE" /\ status' = [status EXCEPT ![r] = "INIT"] /\ ~InPut(r)
      BY <1>O, <2>2 DEF GetRequest
    <3>2. Stage(r) = "unused" /\ Stage(r)' = "ready"
      BY <1>T, <2>I, <3>1 DEF Stage, InPut, RequestTypes
    <3>3. \A q \in Requests \ {r} : Stage(q)' = Stage(q)
      BY <1>T, <2>I, <3>1, StageFrame DEF RequestTypes
    <3>4. <<"unused", "ready">> \in Life!Moves
      BY DEF Life!Moves
    <3> QED
      BY <3>2, <3>3, <3>4, StageAdvance
  <2>3. ASSUME NEW c \in Clients, NEW r \in Requests, AttachBuffer(c, r),
               status' = [status EXCEPT ![r] = "IOFAIL"]
        PROVE  Goal
    <3>1. status[r] = "INIT" /\ ~InPut(r)
      BY <1>O, <2>3 DEF AttachBuffer
    <3>2. Stage(r) = "ready" /\ Stage(r)' = "failure"
      BY <1>T, <2>3, <2>I, <3>1 DEF Stage, InPut, RequestTypes
    <3>3. \A q \in Requests \ {r} : Stage(q)' = Stage(q)
      BY <1>T, <2>3, <2>I, StageFrame DEF RequestTypes
    <3>4. <<"ready", "failure">> \in Life!Moves
      BY DEF Life!Moves
    <3> QED
      BY <3>2, <3>3, <3>4, StageAdvance
  <2>4. ASSUME NEW c \in Clients, PutStatus(c)
        PROVE  Goal
    BY <1>1, <1>T, <2>4 DEF PutStatus, SamePuts, CallTypes
  <2>5. ASSUME NEW w \in Workers, Publish(w)
        PROVE  Goal
    <3>1. PICK r \in Requests :
            r = Job(w) /\ (InPut(r) \/ status[r] \in {"SUBMITTED", "CANCEL"})
      BY <2>5, PublishesOnce
    <3>2. status' = [status EXCEPT ![r] = Outcome(r, ioOK[w])]
      BY <2>5, <3>1 DEF Publish
    <3>3. CASE InPut(r)
      <4>1. Stage(r)' = Stage(r)
        BY <2>I, <3>1, <3>3 DEF Stage, InPut
      <4>2. \A q \in Requests \ {r} : Stage(q)' = Stage(q)
        BY <1>T, <2>I, <3>2, StageFrame DEF RequestTypes
      <4> QED
        BY <4>1, <4>2
    <3>4. CASE status[r] \in {"SUBMITTED", "CANCEL"}
      <4>1. /\ Outcome(r, ioOK[w]) \in {"IOSUCCESS", "IOFAIL", "CANCEL"}
            /\ status[r] = "CANCEL" => Outcome(r, ioOK[w]) = "CANCEL"
        BY DEF Outcome
      <4> QED
        BY <1>T, <2>I, <3>1, <3>2, <3>4, <4>1, StageSettles
    <3> QED
      BY <3>1, <3>3, <3>4
  <2>6. ASSUME NEW r \in Requests, status[r] = "SUBMITTED",
               status' = [status EXCEPT ![r] = "CANCEL"]
        PROVE  Goal
    BY <1>T, <2>6, <2>I, StageSettles
  <2>7. ASSUME NEW c \in Clients, CancelLock(c),
               status[opReq[c]] \notin {"IOSUCCESS", "IOFAIL"},
               status' = [status EXCEPT ![opReq[c]] = "CANCEL"]
        PROVE  Goal
    <3>1. opReq[c] \in Requests /\ status[opReq[c]] \in {"SUBMITTED", "CANCEL"}
      BY <1>T, <2>7 DEF CancelLock, OwnerInv, Begun, CallTypes, RequestTypes, Tasks,
         StatusSet
    <3> QED
      BY <1>T, <2>7, <2>I, <3>1, StageSettles
  <2> QED
    BY <2>1, <2>2, <2>3, <2>4, <2>5, <2>6, <2>7, StatusFrame
\* A put begins.
<1>2. ASSUME NEW c \in Clients, NEW r \in Requests, PutRequest(c, r)
      PROVE  Goal
  <2>1. /\ op[c] = "idle" /\ op'[c] = "put" /\ opReq'[c] = r
        /\ \A d \in Clients \ {c} : op'[d] = op[d] /\ opReq'[d] = opReq[d]
        /\ status[r] = "INIT" /\ status' = status
    BY <1>T, <1>2 DEF PutRequest, Ready, CallTypes, requestVars
  <2>2. \A q \in Requests \ {r} : Stage(q)' = Stage(q)
    BY <1>T, <2>1, StageFrame DEF InPut
  <2>3. Stage(r)' = "pending"
    BY <2>1 DEF Stage
  <2>4. Stage(r) \in {"pending", "ready"}
    BY <2>1 DEF Stage
  <2>5. <<"ready", "pending">> \in Life!Moves
    BY DEF Life!Moves
  <2> QED
    BY <2>2, <2>3, <2>4, <2>5, StageAdvance
\* A put ends.
<1>3. ASSUME NEW c \in Clients, PutStatus(c)
      PROVE  Goal
  <2>0. opReq[c] \in Requests
    BY <1>T, <1>3 DEF PutStatus, CallTypes, Tasks
  <2>1. PICK r \in Requests : r = opReq[c]
    BY <2>0
  <2>2. /\ opReq[c] = r /\ op[c] = "put" /\ op'[c] = "idle" /\ opReq' = opReq
        /\ \A d \in Clients \ {c} : op'[d] = op[d]
        /\ status'[r] \in {"SUBMITTED", "CANCEL"}
        /\ \A q \in Requests \ {r} : status'[q] = status[q]
    BY <1>T, <1>3, <2>1 DEF PutStatus, CallTypes, RequestTypes, loopVars
  <2>3. \A q \in Requests \ {r} : Stage(q)' = Stage(q)
    BY <1>T, <2>2, StageFrame DEF InPut
  <2>4. Stage(r) = "pending"
    BY <2>2 DEF Stage
  <2>5. Stage(r)' \in {"pending", "cancelled"}
    BY <2>2 DEF Stage
  <2>6. <<"pending", "cancelled">> \in Life!Moves
    BY DEF Life!Moves, Life!Settled
  <2> QED
    BY <2>3, <2>4, <2>5, <2>6, StageAdvance
<1> QED
  BY <1>1, <1>2, <1>3, PutFrame

\* The mmap accessor implements RequestLifecycle: in whatever order the workers,
\* the timeout threads, cancelRequest, waitAll and cancelAll reach a request, it
\* is settled at most once after its put, and how it was is never revised.
THEOREM LifecycleCorrect == MmapSpec => Lifecycle
<1>1. MmapInit => Life!LifecycleInit
  BY DEF MmapInit, Life!LifecycleInit, Stage
<1>2. PoolFacts /\ MmapTypeOK /\ (WorkerInv /\ OwnerInv /\ SlotInv) /\ [MmapNext]_mmapVars
        => [\E r \in Requests : Life!Advance(r)]_([r \in Requests |-> Stage(r)])
  BY NextStage
<1> QED
  BY <1>1, <1>2, PoolFactsCorrect, MmapTypeCorrect, OutcomeInvCorrect, PTL
  DEF MmapSpec, Lifecycle, Life!LifecycleSpec

-----------------------------------------------------------------------------
(* Write buffers *)

Gone == {"NULL", "UNMAPPED"}

\* putRequest was told RET_NO_MEMORY and has unmapped the buffer.
TakenBack(r) == buf[r] = "UNMAPPED" /\ submitRes[r] = "NO_MEMORY"

\* A put that has submitted its task has the return code.
PutResultInv ==
  \A c \in Clients :
    op[c] = "put" => cpc[c] = "enqueue" \/ submitRes[opReq[c]] # "NONE"

\* Which buffer a request has: a write buffer is mapped, and unmapped only once
\* its put has failed; the buffer of a task in the queue is there, unless its put was
\* told that memory is short.
BufInv ==
  /\ \A r \in Requests :
       /\ status[r] = "NONE" => buf[r] = "NULL"
       /\ status[r] = "INIT" => buf[r] # "UNMAPPED"
       /\ direction[r] = "WRITE" => buf[r] # "USER"
  /\ \A c \in Clients : cpc[c] = "enqueue" => buf[ctask[c]] \notin Gone
  /\ \A s \in 1..tail :
       request_queue[s] \in Requests /\ s \notin finished
         => buf[request_queue[s]] \notin Gone \/ TakenBack(request_queue[s])

\* The pool revises no return code, and has one for what it has enqueued.
LEMMA ResultFrame ==
  ASSUME PoolTypeOK, SubmitInv, [PoolNext]_poolVars
  PROVE  /\ \A r \in Requests : submitRes[r] # "NONE" => submitRes'[r] = submitRes[r]
         /\ \A c \in Clients : cpc[c] = "enqueue" /\ ctask[c] \in Requests =>
              cpc'[c] = "enqueue" \/ submitRes'[ctask[c]] # "NONE"
<1> DEFINE Goal ==
      /\ \A r \in Requests : submitRes[r] # "NONE" => submitRes'[r] = submitRes[r]
      /\ \A c \in Clients : cpc[c] = "enqueue" /\ ctask[c] \in Requests =>
           cpc'[c] = "enqueue" \/ submitRes'[ctask[c]] # "NONE"
<1> USE DEF PoolTypeOK, ClientGoes
<1>1. ASSUME UNCHANGED <<cpc, submitRes>>
      PROVE  Goal
  BY <1>1
<1>2. ASSUME NEW w \in Workers, Worker(w) \/ SpuriousWake(w)
      PROVE  Goal
  BY <1>1, <1>2 DEF Worker, WorkerLoop, Start, Take, Wait, Exit, BeginTask, EndTask,
     RunTask, SpuriousWake, OnlyGoes, clientVars
<1>3. ASSUME NEW c \in Clients, NEW r \in Requests,
             SubmitAccepted(c, r) \/ SubmitRejected(c, r)
      PROVE  Goal
  BY <1>3 DEF SubmitAccepted, SubmitRejected, Fresh
<1>4. ASSUME NEW c \in Clients, SubmitEnqueue(c)
      PROVE  Goal
  BY <1>4 DEF SubmitEnqueue, SubmitInv
<1>5. ASSUME NEW c \in Clients, ReleaseLoop(c) \/ Release(c)
      PROVE  Goal
  BY <1>5 DEF ReleaseLoop, Release, Poison, JoinAndLoadIdle, StoreIdle, LoadAlive,
     StoreAlive
<1>6. CASE UNCHANGED poolVars
  BY <1>1, <1>6 DEF poolVars, clientVars
<1> QED
  <2> HIDE DEF PoolTypeOK, ClientGoes
  <2> QED
    BY <1>2, <1>3, <1>4, <1>5, <1>6 DEF PoolNext, ClientStep

LEMMA NextPutResult ==
  /\ PoolFacts /\ MmapTypeOK /\ OwnerInv /\ PutResultInv /\ [MmapNext]_mmapVars
  => PutResultInv'
<1> SUFFICES ASSUME PoolFacts, MmapTypeOK, OwnerInv, PutResultInv, [MmapNext]_mmapVars,
                    NEW c \in Clients, op'[c] = "put"
             PROVE  cpc'[c] = "enqueue" \/ submitRes'[opReq'[c]] # "NONE"
  BY DEF PutResultInv
<1>T. CallTypes /\ PoolTypeOK /\ SubmitInv
  BY TypeParts DEF PoolFacts
<1>P. [PoolNext]_poolVars
  BY StepUsesPool
<1>1. CASE op[c] = "put" /\ opReq'[c] = opReq[c]
  <2>1. /\ opReq[c] \in Requests
        /\ cpc[c] = "enqueue" => ctask[c] = opReq[c]
        /\ cpc[c] = "enqueue" \/ submitRes[opReq[c]] # "NONE"
    BY <1>1, <1>T DEF CallTypes, Tasks, OwnerInv, PutResultInv
  <2> QED
    BY <1>1, <1>P, <1>T, <2>1, ResultFrame
<1>2. ASSUME NEW d \in Clients, NEW r \in Requests, PutRequest(d, r)
      PROVE  \/ op[c] = "put" /\ opReq'[c] = opReq[c]
             \/ cpc'[c] = "enqueue" \/ submitRes'[opReq'[c]] # "NONE"
  BY <1>T, <1>2 DEF PutRequest, PutSubmit, SubmitAccepted, SubmitRejected, ClientGoes,
     CallTypes, PoolTypeOK
<1>3. ASSUME NEW d \in Clients, PutStatus(d)
      PROVE  op[c] = "put" /\ opReq'[c] = opReq[c]
  BY <1>T, <1>3 DEF PutStatus, CallTypes, loopVars
<1> QED
  BY <1>1, <1>2, <1>3, PutFrame DEF SamePuts

\* Only getRequest says what a request is for.
LEMMA DirectionFrame ==
  ASSUME MmapTypeOK, [MmapNext]_mmapVars, NEW r \in Requests
  PROVE  direction'[r] = direction[r] \/ \E c \in Clients : GetRequest(c, r)
<1>T. RequestTypes
  BY TypeParts
<1> USE DEF requestVars, resourceVars
<1>1. ASSUME NEW w \in Workers,
             PoolStep(WorkerLoop(w)) \/ PoolStep(SpuriousWake(w)) \/ Body(w)
      PROVE  direction' = direction
  BY <1>1 DEF PoolStep, Body, SkipCancelled, EnterBody, DoIO, Publish, Cleanup
<1>2. ASSUME NEW c \in Clients,
             \/ ReleaseAll(c) \/ PoolStep(ReleaseLoop(c)) \/ WaitAll(c) \/ CancelAll(c)
             \/ SpuriousResume(c) \/ CallStep(c) \/ Timer(c)
      PROVE  direction' = direction
  BY <1>2 DEF PoolStep, ReleaseAll, WaitAll, CancelAll, LoopOverAll, SpuriousResume,
     CallStep, PutEnqueue, PutStatus, WaitLock, WaitJoin, ZeroTest, ZeroEnter,
     ZeroRelock, CancelLock, AllLock, CancelAllLock, Timer, TimerCheck, TimerExpire,
     TimerFire
<1>3. ASSUME NEW c \in Clients, NEW q \in Requests,
             \/ AttachBuffer(c, q) \/ PutRequest(c, q)
             \/ WaitRequest(c, q) \/ WaitForever(c, q) \/ CancelRequest(c, q)
      PROVE  direction' = direction
  BY <1>3 DEF AttachBuffer, PutRequest, WaitRequest, WaitForever, CancelRequest
<1>4. ASSUME NEW c \in Clients, NEW q \in Requests, GetRequest(c, q)
      PROVE  direction'[r] = direction[r] \/ q = r
  BY <1>T, <1>4 DEF GetRequest, RequestTypes
<1>5. CASE UNCHANGED mmapVars
  BY <1>5 DEF mmapVars
<1> QED
  BY <1>1, <1>2, <1>3, <1>4, <1>5 DEF MmapNext

\* A worker in mmapRead or mmapWrite has a slot of its own in the queue.
LEMMA BodyHoldsSlot ==
  ASSUME PoolFacts, MmapTypeOK, WorkerInv, NEW w \in Workers, SkipCancelled(w) \/ Cleanup(w)
  PROVE  /\ RunTask(w) /\ Job(w) \in Requests /\ request_task[w] \in 1..tail
         /\ request_task[w] \in finished' /\ tail' = tail
<1>1. RunTask(w)
  BY DEF SkipCancelled, Cleanup
<1>2. wpc[w] = "run"
  BY <1>1 DEF RunTask, WorkerGoes
<1> QED
  BY <1>1, <1>2, JobIsRequest DEF RunTask, queueVars

LEMMA NextBuf ==
  /\ PoolFacts /\ MmapTypeOK /\ WorkerInv /\ OwnerInv
  /\ PutResultInv /\ BufInv /\ [MmapNext]_mmapVars
  => BufInv'
<1> SUFFICES ASSUME PoolFacts, MmapTypeOK, WorkerInv, OwnerInv,
                    PutResultInv, BufInv, [MmapNext]_mmapVars
             PROVE  BufInv'
  OBVIOUS
<1>T. RequestTypes /\ CallTypes /\ PoolTypeOK /\ QueueInv /\ ReleaseInv /\ SubmitInv
  BY TypeParts DEF PoolFacts
<1>P. [PoolNext]_poolVars
  BY StepUsesPool
<1>1. ASSUME NEW r \in Requests
      PROVE  /\ status'[r] = "NONE" => buf'[r] = "NULL"
             /\ status'[r] = "INIT" => buf'[r] # "UNMAPPED"
             /\ direction'[r] = "WRITE" => buf'[r] # "USER"
  <2>1. /\ status'[r] = "NONE" => status[r] = "NONE"
        /\ status'[r] = "INIT" => status[r] \in {"NONE", "INIT"}
    BY StatusMonotone DEF Begun
  <2>2. CASE buf'[r] = buf[r]
    BY <2>1, <2>2, DirectionFrame DEF BufInv, GetRequest
  <2>3. ASSUME NEW c \in Clients, AttachBuffer(c, r),
               buf'[r] = IF direction[r] = "WRITE" THEN "MAPPED" ELSE "USER"
        PROVE  status[r] = "INIT" /\ direction' = direction /\ buf'[r] # "UNMAPPED"
    BY <2>3 DEF AttachBuffer
  <2>4. ASSUME NEW c \in Clients, PutStatus(c), opReq[c] = r, buf'[r] = "UNMAPPED"
        PROVE  status'[r] \notin {"NONE", "INIT"}
    BY <1>T, <2>4 DEF PutStatus, RequestTypes
  <2>5. ASSUME NEW w \in Workers, SkipCancelled(w) \/ Cleanup(w), Job(w) = r
        PROVE  buf'[r] \in {"NULL", buf[r]}
    BY <1>T, <2>5 DEF SkipCancelled, Cleanup, RequestTypes
  <2>6. CASE buf'[r] = "NULL"
    BY <2>6
  <2> QED
    BY <2>1, <2>2, <2>3, <2>4, <2>5, <2>6, BufFrame
\* A buffer that is there goes when a put fails, or with its task.
<1>2. ASSUME NEW r \in Requests, buf[r] \notin Gone, buf'[r] \in Gone
      PROVE  \/ \E c \in Clients : PutStatus(c) /\ opReq[c] = r /\ SubmitFailed(r)
             \/ \E w \in Workers : (SkipCancelled(w) \/ Cleanup(w)) /\ Job(w) = r
  <2>1. ASSUME NEW c \in Clients, AttachBuffer(c, r)
        PROVE  FALSE
    BY <1>2, <2>1 DEF AttachBuffer, Gone
  <2> QED
    BY <1>2, <2>1, BufFrame
<1>3. ASSUME NEW c \in Clients, cpc'[c] = "enqueue"
      PROVE  buf'[ctask'[c]] \notin Gone
  <2>1. ASSUME NEW r \in Requests, PutRequest(c, r), ctask'[c] = r
        PROVE  buf'[r] \notin Gone
    BY <2>1 DEF PutRequest, requestVars, resourceVars, BufInv, Gone
  <2>2. ASSUME cpc[c] = "enqueue", ctask'[c] = ctask[c]
        PROVE  buf'[ctask[c]] \notin Gone
    <3> SUFFICES ASSUME buf'[ctask[c]] \in Gone
                 PROVE  FALSE
      OBVIOUS
    <3>1. PICK r \in Requests : r = ctask[c]
      BY <1>T, <2>2 DEF OwnerInv, CallTypes, Tasks
    <3>2. buf[r] \notin Gone /\ submitRes[r] = "NONE"
      BY <1>T, <2>2, <3>1 DEF BufInv, SubmitInv
    <3>3. ASSUME NEW d \in Clients, PutStatus(d), opReq[d] = r
          PROVE  FALSE
      BY <3>2, <3>3 DEF PutStatus, PutResultInv
    <3>4. ASSUME NEW w \in Workers, SkipCancelled(w) \/ Cleanup(w), Job(w) = r
          PROVE  FALSE
      BY <1>T, <3>2, <3>4, BodyHoldsSlot DEF SubmitInv, Job
    <3> QED
      BY <1>2, <3>1, <3>2, <3>3, <3>4
  <2> QED
    BY <1>3, <1>T, <2>1, <2>2, EnqueueFrame
<1>4. ASSUME NEW s \in 1..tail', NEW r \in Requests, r = request_queue'[s],
             s \notin finished', buf'[r] \in Gone
      PROVE  TakenBack(r)'
  <2>1. CASE s \in 1..tail
    <3>1. r = request_queue[s] /\ s \notin finished
      BY <1>4, <1>P, <1>T, <2>1, QueueGrows, FinishedGrows
    <3>2. /\ buf[r] \notin Gone \/ TakenBack(r)
          /\ submitRes[r] \in {"OK", "NO_MEMORY"}
      BY <1>T, <2>1, <3>1 DEF BufInv, SubmitInv
    <3>3. ASSUME NEW w \in Workers, SkipCancelled(w) \/ Cleanup(w), Job(w) = r
          PROVE  FALSE
      BY <1>4, <1>T, <2>1, <3>1, <3>3, BodyHoldsSlot DEF SubmitInv, Job
    <3>4. submitRes'[r] = submitRes[r]
      BY <1>P, <1>T, <3>2, ResultFrame
    <3>5. CASE buf[r] \notin Gone
      <4>1. PICK c \in Clients : PutStatus(c) /\ opReq[c] = r /\ SubmitFailed(r)
        BY <1>2, <1>4, <3>3, <3>5
      <4>2. buf'[r] = "UNMAPPED"
        BY <1>T, <1>4, <3>5, <4>1 DEF PutStatus, RequestTypes, Gone
      <4> QED
        BY <3>2, <3>4, <4>1, <4>2 DEF SubmitFailed, TakenBack
    <3>6. CASE TakenBack(r)
      <4>1. ASSUME NEW c \in Clients, AttachBuffer(c, r)
            PROVE  FALSE
        BY <3>6, <4>1 DEF AttachBuffer, TakenBack
      <4>2. ASSUME NEW c \in Clients, PutStatus(c), opReq[c] = r
            PROVE  buf'[r] = buf[r]
        BY <1>T, <3>6, <4>2 DEF PutStatus, RequestTypes, TakenBack
      <4>3. buf'[r] = buf[r]
        BY <3>3, <4>1, <4>2, BufFrame
      <4> QED
        BY <3>4, <3>6, <4>3 DEF TakenBack
    <3> QED
      BY <3>2, <3>5, <3>6
  <2>2. CASE s \notin 1..tail
    <3>1. PICK c \in Clients : SubmitEnqueue(c) /\ r = ctask[c]
      BY <1>4, <1>P, <1>T, <2>2, NewSlot
    <3>2. buf[r] \notin Gone
      BY <3>1 DEF BufInv, SubmitEnqueue, ClientGoes
    <3>3. tail' # tail
      BY <2>2
    <3>4. ASSUME NEW d \in Clients, PutStatus(d)
          PROVE  FALSE
      BY <3>3, <3>4 DEF PutStatus, poolVars, queueVars
    <3>5. ASSUME NEW w \in Workers, SkipCancelled(w) \/ Cleanup(w)
          PROVE  FALSE
      BY <3>3, <3>5, BodyHoldsSlot
    <3> QED
      BY <1>2, <1>4, <3>2, <3>4, <3>5
  <2> QED
    BY <2>1, <2>2
<1> QED
  BY <1>1, <1>3, <1>4 DEF BufInv

\* A worker finds a write buffer mapped when it calls msync and munmap on it, unless
\* the put of the request was told that realloc had failed: neither a put that is
\* rejected, nor a cancellation, nor another worker has unmapped it before.
THEOREM UnmappedOnlyByFailedPutCorrect == MmapSpec => []UnmappedOnlyByFailedPut
<1>1. MmapInit => PutResultInv /\ BufInv
  <2> SUFFICES ASSUME MmapInit
               PROVE  PutResultInv /\ BufInv
    OBVIOUS
  <2>1. PutResultInv
    BY DEF MmapInit, PutResultInv
  <2>2. 1..tail = {} /\ \A c \in Clients : cpc[c] # "enqueue"
    BY DEF MmapInit, PoolInit
  <2>3. \A r \in Requests : status[r] = "NONE" /\ buf[r] = "NULL"
    BY DEF MmapInit
  <2> QED
    BY <2>1, <2>2, <2>3 DEF BufInv
<1>2. /\ PoolFacts /\ MmapTypeOK /\ (WorkerInv /\ OwnerInv /\ SlotInv)
      /\ (PutResultInv /\ BufInv) /\ [MmapNext]_mmapVars
      => (PutResultInv /\ BufInv)'
  BY NextPutResult, NextBuf
<1>3. PoolFacts /\ MmapTypeOK /\ PutResultInv /\ BufInv => UnmappedOnlyByFailedPut
  <2> SUFFICES ASSUME PoolFacts, MmapTypeOK, BufInv, NEW w \in Workers,
                      wpc[w] = "run", direction[Job(w)] = "WRITE"
               PROVE  buf[Job(w)] = "MAPPED" \/ TakenBack(Job(w))
    BY DEF UnmappedOnlyByFailedPut, TakenBack
  <2>1. /\ Job(w) \in Requests /\ request_task[w] \in 1..tail
        /\ request_task[w] \notin finished
    BY JobIsRequest
  <2>2. buf[Job(w)] \notin Gone \/ TakenBack(Job(w))
    BY <2>1 DEF BufInv, Job
  <2>3. buf[Job(w)] # "USER"
    BY <2>1 DEF BufInv
  <2> QED
    BY <2>1, <2>2, <2>3 DEF MmapTypeOK, Gone
<1> QED
  BY <1>1, <1>2, <1>3, PoolFactsCorrect, MmapTypeCorrect, OutcomeInvCorrect, PTL
  DEF MmapSpec

=============================================================================
