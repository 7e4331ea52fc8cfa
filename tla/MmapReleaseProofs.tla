------------------------- MODULE MmapReleaseProofs -------------------------
(***************************************************************************)
(* Proofs about MmapAccessor: what a task function leaves of the mapping   *)
(* and the descriptor of its request, and what is left of them when        *)
(* releaseAll has returned.                                                *)
(***************************************************************************)
EXTENDS MmapLifecycleProofs

\* A request is in one put at a time, and until that has stored its status it
\* is not cancelled: it is INIT, or a worker has published its outcome.
PutInv ==
  /\ \A c, d \in Clients :
       op[c] = "put" /\ op[d] = "put" /\ opReq[c] = opReq[d] => c = d
  /\ \A r \in Requests : InPut(r) => status[r] \in {"INIT", "IOSUCCESS", "IOFAIL"}

\* A request holds no mapping, and no descriptor unless it was cancelled.
HoldsNothing(r) ==
  /\ buf[r] # "MAPPED"
  /\ fdOpen[r] => status[r] = "CANCEL"

\* Only write buffers are mapped, and a request whose task function has returned
\* holds nothing, and will not: its status is not INIT again, and a cancellation
\* is not overwritten by a put that is still to store its status.
DoneInv ==
  /\ \A r \in Requests : buf[r] = "MAPPED" => direction[r] = "WRITE" /\ status[r] # "NONE"
  /\ \A s \in finished : \A r \in Requests : request_queue[s] = r =>
       /\ Begun(r) /\ HoldsNothing(r)
       /\ fdOpen[r] => ~InPut(r)

\* A request that the pool took is in its queue.
QueuedInv ==
  \A r \in Requests : submitRes[r] = "OK" => \E s \in 1..tail : request_queue[s] = r

-----------------------------------------------------------------------------
(* One put at a time *)

LEMMA NextPut ==
  /\ PoolFacts /\ MmapTypeOK /\ OwnerInv /\ PutResultInv /\ PutInv /\ [MmapNext]_mmapVars
  => PutInv'
<1> SUFFICES ASSUME PoolFacts, MmapTypeOK, OwnerInv, PutResultInv, PutInv, [MmapNext]_mmapVars
             PROVE  PutInv'
  OBVIOUS
<1>T. RequestTypes /\ CallTypes
  BY TypeParts
\* thread_pool_submit takes a request once: one that is in a put is not fresh.
<1>1. ASSUME NEW c \in Clients, NEW r \in Requests, PutRequest(c, r)
      PROVE  ~InPut(r)
  <2>1. Fresh(r)
    BY <1>1 DEF PutRequest, PutSubmit, SubmitAccepted, SubmitRejected
  <2>2. ASSUME NEW d \in Clients, op[d] = "put", opReq[d] = r
        PROVE  FALSE
    BY <2>1, <2>2 DEF Fresh, OwnerInv, PutResultInv
  <2> QED
    BY <2>2 DEF InPut
<1>2. ASSUME NEW c \in Clients, NEW d \in Clients,
             op'[c] = "put", op'[d] = "put", opReq'[c] = opReq'[d]
      PROVE  c = d
  <2>1. CASE SamePuts
    BY <1>2, <2>1 DEF SamePuts, PutInv
  <2>2. ASSUME NEW e \in Clients, NEW r \in Requests, PutRequest(e, r)
        PROVE  c = d
    <3>1. opReq'[e] = r /\ \A f \in Clients \ {e} : op'[f] = op[f] /\ opReq'[f] = opReq[f]
      BY <1>T, <2>2 DEF PutRequest, CallTypes
    <3>2. \A f \in Clients : ~(op[f] = "put" /\ opReq[f] = r)
      BY <1>1, <2>2 DEF InPut
    <3> QED
      BY <1>2, <3>1, <3>2 DEF PutInv
  <2>3. ASSUME NEW e \in Clients, PutStatus(e)
        PROVE  c = d
    <3>1. /\ op'[e] = "idle" /\ opReq' = opReq
          /\ \A f \in Clients \ {e} : op'[f] = op[f]
      BY <1>T, <2>3 DEF PutStatus, CallTypes, loopVars
    <3> QED
      BY <1>2, <3>1 DEF PutInv
  <2> QED
    BY <2>1, <2>2, <2>3, PutFrame
<1>3. ASSUME NEW r \in Requests, InPut(r)'
      PROVE  status'[r] \in {"INIT", "IOSUCCESS", "IOFAIL"}
  <2>1. ASSUME NEW c \in Clients, PutRequest(c, r)
        PROVE  status'[r] = "INIT"
    BY <2>1 DEF PutRequest, requestVars
  <2>2. CASE InPut(r)
    <3>1. status[r] \in {"INIT", "IOSUCCESS", "IOFAIL"}
      BY <2>2 DEF PutInv
    <3>2. ASSUME NEW c \in Clients, NEW q \in Requests, GetRequest(c, q) \/ AttachBuffer(c, q)
          PROVE  status'[r] \in {status[r], "IOFAIL"}
      BY <1>T, <3>1, <3>2 DEF GetRequest, AttachBuffer, RequestTypes
    <3>3. ASSUME NEW c \in Clients, PutStatus(c)
          PROVE  status'[r] = status[r]
      <4>1. CASE opReq[c] = r
        <5>1. /\ op[c] = "put" /\ op'[c] = "idle" /\ opReq' = opReq
              /\ \A f \in Clients \ {c} : op'[f] = op[f]
          BY <1>T, <3>3 DEF PutStatus, CallTypes, loopVars
        <5>2. PICK d \in Clients : op'[d] = "put" /\ opReq'[d] = r
          BY <1>3 DEF InPut
        <5> QED
          BY <4>1, <5>1, <5>2 DEF PutInv
      <4>2. CASE opReq[c] # r
        BY <1>T, <3>3, <4>2 DEF PutStatus, RequestTypes
      <4> QED
        BY <4>1, <4>2
    <3>4. ASSUME NEW w \in Workers, Publish(w)
          PROVE  status'[r] \in {status[r], "IOSUCCESS", "IOFAIL"}
      BY <1>T, <3>1, <3>4 DEF Publish, Outcome, RequestTypes
    <3>5. ASSUME NEW q \in Requests, status[q] = "SUBMITTED",
                 status' = [status EXCEPT ![q] = "CANCEL"]
          PROVE  status'[r] = status[r]
      BY <1>T, <3>1, <3>5 DEF RequestTypes
    <3>6. ASSUME NEW c \in Clients, CancelLock(c), status[opReq[c]] \notin {"IOSUCCESS", "IOFAIL"},
                 status' = [status EXCEPT ![opReq[c]] = "CANCEL"]
          PROVE  status'[r] = status[r]
      <4>1. Begun(opReq[c])
        BY <3>6 DEF CancelLock, OwnerInv
      <4> QED
        BY <1>T, <3>1, <3>6, <4>1 DEF Begun, RequestTypes
    <3> QED
      BY <3>1, <3>2, <3>3, <3>4, <3>5, <3>6, StatusFrame
  <2> QED
    BY <1>3, <2>1, <2>2, InPutFrame
<1> QED
  BY <1>2, <1>3 DEF PutInv, InPut

-----------------------------------------------------------------------------
(* What a task function leaves *)

\* getRequest opens the descriptor, and the end of mmapRead or mmapWrite closes it.
LEMMA FdFrame ==
  ASSUME MmapTypeOK, [MmapNext]_mmapVars, NEW r \in Requests
  PROVE  \/ fdOpen'[r] = fdOpen[r]
         \/ \E c \in Clients : GetRequest(c, r)
         \/ fdOpen'[r] = FALSE
<1>T. RequestTypes
  BY TypeParts
<1> USE DEF requestVars, resourceVars
<1>1. ASSUME NEW w \in Workers,
             \/ PoolStep(WorkerLoop(w)) \/ PoolStep(SpuriousWake(w))
             \/ SkipCancelled(w) \/ EnterBody(w) \/ DoIO(w) \/ Publish(w)
      PROVE  fdOpen' = fdOpen
  BY <1>1 DEF PoolStep, SkipCancelled, EnterBody, DoIO, Publish
<1>2. ASSUME NEW w \in Workers, Cleanup(w)
      PROVE  fdOpen'[r] = fdOpen[r] \/ fdOpen'[r] = FALSE
  BY <1>T, <1>2 DEF Cleanup, CloseFd, RequestTypes
<1>3. ASSUME NEW c \in Clients,
             \/ ReleaseAll(c) \/ PoolStep(ReleaseLoop(c)) \/ WaitAll(c) \/ CancelAll(c)
             \/ SpuriousResume(c) \/ CallStep(c) \/ Timer(c)
      PROVE  fdOpen' = fdOpen
  BY <1>3 DEF PoolStep, ReleaseAll, WaitAll, CancelAll, LoopOverAll, SpuriousResume,
     CallStep, PutEnqueue, PutStatus, WaitLock, WaitJoin, ZeroTest, ZeroEnter,
     ZeroRelock, CancelLock, AllLock, CancelAllLock, Timer, TimerCheck, TimerExpire,
     TimerFire
<1>4. ASSUME NEW c \in Clients, NEW q \in Requests,
             \/ AttachBuffer(c, q) \/ PutRequest(c, q)
             \/ WaitRequest(c, q) \/ WaitForever(c, q) \/ CancelRequest(c, q)
      PROVE  fdOpen' = fdOpen
  BY <1>4 DEF AttachBuffer, PutRequest, WaitRequest, WaitForever, CancelRequest
<1>5. ASSUME NEW c \in Clients, NEW q \in Requests, GetRequest(c, q)
      PROVE  fdOpen'[r] = fdOpen[r] \/ q = r
  BY <1>T, <1>5 DEF GetRequest, RequestTypes
<1>6. CASE UNCHANGED mmapVars
  BY <1>6 DEF mmapVars
<1> QED
  BY <1>1, <1>2, <1>3, <1>4, <1>5, <1>6 DEF MmapNext, Body

\* A slot is finished when mmapRead or mmapWrite returns.
LEMMA FinishedFrame ==
  ASSUME [MmapNext]_mmapVars
  PROVE  \/ finished' = finished
         \/ \E w \in Workers :
              /\ SkipCancelled(w) \/ Cleanup(w)
              /\ finished' = finished \cup {request_task[w]}
<1> USE DEF workerVars, poolVars
<1>1. ASSUME NEW w \in Workers, PoolStep(WorkerLoop(w)) \/ PoolStep(SpuriousWake(w))
      PROVE  finished' = finished
  BY <1>1 DEF PoolStep, WorkerLoop, Start, Take, Wait, Exit, BeginTask, EndTask,
     SpuriousWake, OnlyGoes
<1>2. ASSUME NEW w \in Workers, EnterBody(w) \/ DoIO(w) \/ Publish(w)
      PROVE  finished' = finished
  BY <1>2 DEF EnterBody, DoIO, Publish
<1>3. ASSUME NEW w \in Workers, SkipCancelled(w) \/ Cleanup(w)
      PROVE  finished' = finished \cup {request_task[w]}
  BY <1>3 DEF SkipCancelled, Cleanup, RunTask
<1>4. ASSUME NEW c \in Clients, ReleaseAll(c) \/ PoolStep(ReleaseLoop(c)) \/ PutEnqueue(c)
      PROVE  finished' = finished
  BY <1>4 DEF ReleaseAll, PoolStep, ReleaseLoop, Release, Poison, JoinAndLoadIdle, StoreIdle,
     LoadAlive, StoreAlive, PutEnqueue, SubmitEnqueue, Enqueue
<1>5. ASSUME NEW c \in Clients, NEW r \in Requests, PutRequest(c, r)
      PROVE  finished' = finished
  BY <1>5 DEF PutRequest, PutSubmit, SubmitAccepted, SubmitRejected
<1>6. CASE UNCHANGED poolVars
  BY <1>6
<1>7. CASE UNCHANGED mmapVars
  BY <1>6, <1>7 DEF mmapVars
<1> QED
  <2> HIDE DEF workerVars, poolVars
  <2> QED
    BY <1>1, <1>2, <1>3, <1>4, <1>5, <1>6, <1>7, RequestSteps DEF MmapNext, CallStep, Body

\* A request whose outcome is known is not cancelled later: nothing but a
\* cancellation itself ends one that no put is about to overwrite.
LEMMA CancelStays ==
  ASSUME MmapTypeOK, [MmapNext]_mmapVars, NEW r \in Requests, status[r] = "CANCEL", ~InPut(r)
  PROVE  status'[r] = "CANCEL" /\ ~InPut(r)'
<1>T. RequestTypes
  BY TypeParts
<1>1. ~InPut(r)'
  <2>1. ASSUME NEW c \in Clients, PutRequest(c, r)
        PROVE  FALSE
    BY <2>1 DEF PutRequest
  <2> QED
    BY <2>1, InPutFrame
<1>2. ASSUME NEW c \in Clients, NEW q \in Requests, GetRequest(c, q) \/ AttachBuffer(c, q)
      PROVE  status'[r] = "CANCEL"
  BY <1>T, <1>2 DEF GetRequest, AttachBuffer, RequestTypes
<1>3. ASSUME NEW c \in Clients, PutStatus(c)
      PROVE  status'[r] = "CANCEL"
  BY <1>T, <1>3 DEF PutStatus, InPut, RequestTypes
<1>4. ASSUME NEW w \in Workers, Publish(w)
      PROVE  status'[r] = "CANCEL"
  BY <1>T, <1>4 DEF Publish, Outcome, RequestTypes
<1>5. ASSUME NEW q, status' = [status EXCEPT ![q] = "CANCEL"]
      PROVE  status'[r] = "CANCEL"
  BY <1>T, <1>5 DEF RequestTypes
<1> QED
  BY <1>1, <1>2, <1>3, <1>4, <1>5, StatusFrame

LEMMA NextDone ==
  /\ PoolFacts /\ MmapTypeOK /\ WorkerInv /\ PutInv /\ DoneInv /\ [MmapNext]_mmapVars
  => DoneInv'
<1> SUFFICES ASSUME PoolFacts, MmapTypeOK, WorkerInv, PutInv, DoneInv, [MmapNext]_mmapVars
             PROVE  DoneInv'
  OBVIOUS
<1>T. RequestTypes /\ BodyTypes /\ PoolTypeOK /\ QueueInv /\ HandedInv
  BY TypeParts DEF PoolFacts
<1>P. [PoolNext]_poolVars
  BY StepUsesPool
<1>1. ASSUME NEW r \in Requests, buf'[r] = "MAPPED"
      PROVE  direction'[r] = "WRITE" /\ status'[r] # "NONE"
  <2>1. CASE buf'[r] = buf[r]
    <3>1. direction[r] = "WRITE" /\ status[r] # "NONE"
      BY <1>1, <2>1 DEF DoneInv
    <3>2. direction'[r] = direction[r]
      BY <3>1, DirectionFrame DEF GetRequest
    <3> QED
      BY <3>1, <3>2, StatusMonotone
  <2>2. ASSUME NEW c \in Clients, AttachBuffer(c, r),
               buf'[r] = IF direction[r] = "WRITE" THEN "MAPPED" ELSE "USER"
        PROVE  direction'[r] = "WRITE" /\ status'[r] # "NONE"
    <3>1. status[r] = "INIT" /\ direction' = direction
      BY <2>2 DEF AttachBuffer
    <3> QED
      BY <1>1, <2>2, <3>1, StatusMonotone
  <2>3. ASSUME NEW w \in Workers, SkipCancelled(w) \/ Cleanup(w), Job(w) = r
        PROVE  buf'[r] = buf[r]
    BY <1>1, <1>T, <2>3 DEF SkipCancelled, Cleanup, RequestTypes
  <2> QED
    BY <1>1, <2>1, <2>2, <2>3, BufFrame
\* A mapping goes, and does not come back once the request has been put in.
<1>2. ASSUME NEW r \in Requests, Begun(r), buf[r] # "MAPPED"
      PROVE  buf'[r] # "MAPPED"
  <2>1. ASSUME NEW c \in Clients, AttachBuffer(c, r)
        PROVE  FALSE
    BY <1>2, <2>1 DEF AttachBuffer, Begun
  <2>2. ASSUME NEW w \in Workers, SkipCancelled(w) \/ Cleanup(w), Job(w) = r
        PROVE  buf'[r] # "MAPPED"
    BY <1>2, <1>T, <2>2 DEF SkipCancelled, Cleanup, RequestTypes
  <2> QED
    BY <1>2, <2>1, <2>2, BufFrame
<1>3. ASSUME NEW s \in finished, NEW r \in Requests, request_queue[s] = r
      PROVE  /\ Begun(r)' /\ HoldsNothing(r)'
             /\ fdOpen'[r] => ~InPut(r)'
  <2>1. Begun(r) /\ HoldsNothing(r) /\ (fdOpen[r] => ~InPut(r))
    BY <1>3 DEF DoneInv
  <2>2. Begun(r)'
    BY <2>1, StatusMonotone
  <2>3. buf'[r] # "MAPPED"
    BY <1>2, <2>1 DEF HoldsNothing
  <2>4. fdOpen'[r] => fdOpen[r]
    BY <1>T, <2>1, FdFrame DEF GetRequest, Begun, RequestTypes
  <2>5. fdOpen'[r] => status'[r] = "CANCEL" /\ ~InPut(r)'
    BY <2>1, <2>4, CancelStays DEF HoldsNothing
  <2> QED
    BY <2>2, <2>3, <2>5 DEF HoldsNothing
\* A task function that returns has closed the descriptor, or was cancelled.
<1>4. ASSUME NEW w \in Workers, SkipCancelled(w) \/ Cleanup(w),
             NEW r \in Requests, r = Job(w)
      PROVE  /\ Begun(r)' /\ HoldsNothing(r)'
             /\ fdOpen'[r] => ~InPut(r)'
  <2>2. buf'[r] # "MAPPED"
    <3>1. buf' = [buf EXCEPT ![r] = IF direction[r] = "WRITE" THEN "NULL" ELSE @]
      BY <1>4 DEF SkipCancelled, Cleanup
    <3> QED
      BY <1>4, <1>T, <3>1 DEF DoneInv, RequestTypes
  <2>3. CASE SkipCancelled(w)
    <3>1. status[r] = "CANCEL"
      BY <1>4, <2>3 DEF SkipCancelled, SkipsJob
    <3>2. ~InPut(r)
      BY <3>1 DEF PutInv
    <3>3. status'[r] = "CANCEL" /\ ~InPut(r)'
      BY <3>1, <3>2, CancelStays
    <3> QED
      BY <2>2, <3>3 DEF HoldsNothing, Begun
  <2>4. CASE Cleanup(w)
    <3>1. fdOpen'[r] = FALSE
      BY <1>4, <1>T, <2>4 DEF Cleanup, CloseFd, RequestTypes
    <3>2. Begun(r)
      BY <1>4, <2>4 DEF Cleanup, WorkerInv
    <3>3. Begun(r)'
      BY <3>2, StatusMonotone
    <3> QED
      BY <2>2, <3>1, <3>3 DEF HoldsNothing
  <2> QED
    BY <1>4, <2>3, <2>4
<1>5. ASSUME NEW s \in finished', NEW r \in Requests, request_queue'[s] = r
      PROVE  /\ Begun(r)' /\ HoldsNothing(r)'
             /\ fdOpen'[r] => ~InPut(r)'
  <2>1. CASE s \in finished
    <3>1. s \in 1..tail
      BY <1>T, <2>1 DEF HandedInv, HandsInv, HandedOutOnce, PoolTypeOK
    <3>2. request_queue[s] = r
      BY <1>5, <1>P, <1>T, <3>1, QueueGrows
    <3> QED
      BY <1>3, <2>1, <3>2
  <2>2. CASE s \notin finished
    <3>1. PICK w \in Workers : (SkipCancelled(w) \/ Cleanup(w)) /\ s = request_task[w]
      BY <1>5, <2>2, FinishedFrame
    <3>2. s \in 1..tail
      BY <3>1, BodyHoldsSlot
    <3>3. r = Job(w)
      BY <1>5, <1>P, <1>T, <3>1, <3>2, QueueGrows DEF Job
    <3> QED
      BY <1>4, <3>1, <3>3
  <2> QED
    BY <2>1, <2>2
<1> QED
  BY <1>1, <1>5 DEF DoneInv, HoldsNothing, Begun, InPut

LEMMA DoneCorrect == MmapSpec => []DoneInv
<1>1. MmapInit => PutResultInv /\ PutInv /\ DoneInv
  BY DEF MmapInit, PoolInit, PutResultInv, PutInv, InPut, DoneInv
<1>2. /\ PoolFacts /\ MmapTypeOK /\ (WorkerInv /\ OwnerInv /\ SlotInv)
      /\ (PutResultInv /\ PutInv /\ DoneInv) /\ [MmapNext]_mmapVars
      => (PutResultInv /\ PutInv /\ DoneInv)'
  BY NextPutResult, NextPut, NextDone
<1> QED
  BY <1>1, <1>2, PoolFactsCorrect, MmapTypeCorrect, OutcomeInvCorrect, PTL DEF MmapSpec

\* A request whose mmapRead or mmapWrite has returned has no mapping left, and no
\* descriptor unless it was cancelled, whatever its caller, the timeout threads
\* and the other callers have done meanwhile: nobody opens or maps it again.
THEOREM FinishedHoldNothing ==
  MmapSpec => [](\A s \in finished : \A r \in Requests :
                   request_queue[s] = r => HoldsNothing(r))
<1>1. DoneInv => \A s \in finished : \A r \in Requests :
                   request_queue[s] = r => HoldsNothing(r)
  BY DEF DoneInv
<1> QED
  BY <1>1, DoneCorrect, PTL

-----------------------------------------------------------------------------
(* What is left when releaseAll has returned                               *)

LEMMA NextQueued ==
  PoolTypeOK /\ QueueInv /\ ReleaseInv /\ QueuedInv /\ [PoolNext]_poolVars => QueuedInv'
<1> SUFFICES ASSUME PoolTypeOK, QueueInv, ReleaseInv, QueuedInv, [PoolNext]_poolVars,
                    NEW r \in Requests, submitRes'[r] = "OK"
             PROVE  \E s \in 1..tail' : request_queue'[s] = r
  BY DEF QueuedInv
<1> USE DEF PoolTypeOK
<1>1. CASE submitRes[r] = "OK"
  <2>1. PICK s \in 1..tail : request_queue[s] = r
    BY <1>1 DEF QueuedInv
  <2>2. tail' >= tail /\ request_queue'[s] = r
    BY <2>1, QueueGrows
  <2>3. tail' \in Nat
    BY NextType
  <2> QED
    BY <2>1, <2>2, <2>3
<1>2. ASSUME NEW c \in Clients, SubmitEnqueue(c), submitRes[r] # "OK"
      PROVE  \E s \in 1..tail' : request_queue'[s] = r
  <2>1. PICK res \in {"OK", "NO_MEMORY"} :
          Enqueue(ctask[c], res) /\ submitRes' = [submitRes EXCEPT ![ctask[c]] = res]
    BY <1>2 DEF SubmitEnqueue
  <2>2. ctask[c] = r
    BY <1>2, <2>1
  <2>3. tail' = tail + 1 /\ request_queue'[tail + 1] = r
    BY <2>1, <2>2, EnqueueSlots
  <2> QED
    BY <2>3
<1>3. ASSUME NEW c \in Clients, NEW q \in Requests, SubmitAccepted(c, q) \/ SubmitRejected(c, q)
      PROVE  submitRes[r] = "OK"
  BY <1>3 DEF SubmitAccepted, SubmitRejected
<1>4. ASSUME NEW c \in Clients, Release(c) \/ ReleaseLoop(c)
      PROVE  submitRes[r] = "OK"
  BY <1>4 DEF Release, ReleaseLoop, Poison, JoinAndLoadIdle, StoreIdle, LoadAlive, StoreAlive
<1>5. ASSUME NEW w \in Workers, Worker(w) \/ SpuriousWake(w)
      PROVE  submitRes[r] = "OK"
  BY <1>5 DEF Worker, WorkerLoop, Start, Take, Wait, Exit, BeginTask, EndTask, RunTask,
     SpuriousWake, OnlyGoes, clientVars
<1>6. CASE UNCHANGED poolVars
  BY <1>1, <1>6 DEF poolVars, clientVars
<1> QED
  BY <1>1, <1>2, <1>3, <1>4, <1>5, <1>6 DEF PoolNext, ClientStep

LEMMA QueuedCorrect == PoolSpec => []QueuedInv
<1>1. PoolInit => QueuedInv
  BY DEF PoolInit, QueuedInv
<1> QED
  BY <1>1, NextQueued, PoolTypeCorrect, QueueCorrect, ReleaseCorrect, PTL DEF PoolSpec

\* When releaseAll has returned, a request with a sentinel behind it was run to
\* its end, and holds nothing, however many clients put in and cancel requests
\* while the pool was closing.
THEOREM ReleaseAllReleases ==
  MmapSpec => [](released =>
                   \A s, t \in 1..tail : \A r \in Requests :
                     request_queue[s] = r /\ s < t /\ IsSentinel(t) => HoldsNothing(r))
<1>1. PoolFacts /\ Drained /\ DoneInv =>
        (released =>
           \A s, t \in 1..tail : \A r \in Requests :
             request_queue[s] = r /\ s < t /\ IsSentinel(t) => HoldsNothing(r))
  <2> SUFFICES ASSUME PoolFacts, Drained, DoneInv, released, NEW s \in 1..tail,
                      NEW t \in 1..tail, NEW r \in Requests,
                      request_queue[s] = r, s < t, IsSentinel(t)
               PROVE  HoldsNothing(r)
    OBVIOUS
  <2>1. ~IsSentinel(s)
    BY PoolAssumption DEF PoolAssumption, IsSentinel
  <2>2. ~(t < s)
    BY DEF PoolFacts, PoolTypeOK
  <2>3. s \in finished
    BY <2>1, <2>2 DEF Drained
  <2> QED
    BY <2>3 DEF DoneInv
<1> QED
  BY <1>1, PoolFactsCorrect, DoneCorrect, AccessorUsesPool, DrainedCorrect, PTL

\* A client is not inside thread_pool_submit while another closes the pool.
SubmitsBeforeClosing ==
  \A c \in Clients, s \in 1..tail : cpc[c] = "enqueue" => ~IsSentinel(s)

LEMMA NextBehind ==
  ASSUME NEW c, Clients = {c}
  PROVE  /\ PoolTypeOK /\ QueueInv /\ ReleaseInv /\ SubmitsBeforeClosing /\ NoTaskBehindSentinel
         /\ [PoolNext]_poolVars
         => SubmitsBeforeClosing' /\ NoTaskBehindSentinel'
<1> SUFFICES ASSUME PoolTypeOK, QueueInv, ReleaseInv, SubmitsBeforeClosing, NoTaskBehindSentinel,
                    [PoolNext]_poolVars
             PROVE  SubmitsBeforeClosing' /\ NoTaskBehindSentinel'
  OBVIOUS
<1> USE DEF PoolTypeOK, ClientGoes, SubmitsBeforeClosing, NoTaskBehindSentinel, IsSentinel
<1>1. ASSUME UNCHANGED <<request_queue, tail>>, cpc'[c] = "enqueue" => cpc[c] = "enqueue"
      PROVE  SubmitsBeforeClosing' /\ NoTaskBehindSentinel'
  BY <1>1
<1>2. ASSUME NEW w \in Workers, Worker(w) \/ SpuriousWake(w)
      PROVE  UNCHANGED <<request_queue, tail, cpc>>
  BY <1>2 DEF Worker, WorkerLoop, Start, Take, Wait, Exit, BeginTask, EndTask, RunTask,
     SpuriousWake, OnlyGoes, queueVars, clientVars
<1>3. ASSUME NEW r \in Requests, SubmitAccepted(c, r)
      PROVE  SubmitsBeforeClosing' /\ NoTaskBehindSentinel'
  <2>1. isRunning /\ UNCHANGED <<request_queue, tail>>
    BY <1>3 DEF SubmitAccepted, Accepts, queueVars
  <2>2. \A s \in 1..tail : ~IsSentinel(s)
    BY <2>1 DEF ReleaseInv
  <2> QED
    BY <2>1, <2>2
<1>4. ASSUME NEW r \in Requests, SubmitRejected(c, r)
      PROVE  UNCHANGED <<request_queue, tail, cpc>>
  BY <1>4 DEF SubmitRejected, queueVars
<1>5. ASSUME SubmitEnqueue(c)
      PROVE  SubmitsBeforeClosing' /\ NoTaskBehindSentinel'
  <2>1. PICK res \in {"OK", "NO_MEMORY"} : Enqueue(ctask[c], res)
    BY <1>5 DEF SubmitEnqueue
  <2>2. /\ tail' = tail + 1 /\ \A s \in 1..tail : request_queue'[s] = request_queue[s]
        /\ request_queue'[tail + 1] = ctask[c] /\ ctask[c] # Sentinel
    BY <1>5, <2>1, EnqueueSlots, PoolAssumption DEF ReleaseInv, SubmitEnqueue, PoolAssumption
  <2>3. \A s \in 1..tail : ~IsSentinel(s)
    BY <1>5 DEF SubmitEnqueue
  <2>4. cpc'[c] = "idle"
    BY <1>5 DEF SubmitEnqueue
  <2>5. \A s \in 1..tail' : request_queue'[s] # Sentinel
    BY <2>2, <2>3
  <2> QED
    BY <2>4, <2>5
<1>6. ASSUME Poison(c)
      PROVE  SubmitsBeforeClosing' /\ NoTaskBehindSentinel'
  <2>1. PICK res \in {"OK", "NO_MEMORY"} : Enqueue(Sentinel, res)
    BY <1>6 DEF Poison
  <2>2. /\ tail' = tail + 1 /\ \A s \in 1..tail : request_queue'[s] = request_queue[s]
        /\ request_queue'[tail + 1] = Sentinel
    BY <2>1, EnqueueSlots DEF Tasks
  <2>3. cpc'[c] # "enqueue"
    BY <1>6 DEF Poison
  <2>4. ASSUME NEW s \in 1..tail', NEW t \in 1..tail', s < t, request_queue'[s] = Sentinel
        PROVE  request_queue'[t] = Sentinel
    <3>1. tail \in Nat
      OBVIOUS
    <3>2. CASE t = tail + 1
      BY <2>2, <3>2
    <3>3. CASE t # tail + 1
      <4>1. s \in 1..tail /\ t \in 1..tail
        BY <2>2, <2>4, <3>1, <3>3
      <4>2. request_queue[s] = Sentinel
        BY <2>2, <2>4, <4>1
      <4>3. request_queue[t] = Sentinel
        BY <2>4, <4>1, <4>2
      <4> QED
        BY <2>2, <4>1, <4>3
    <3> QED
      BY <3>2, <3>3
  <2> QED
    BY <2>3, <2>4
<1>7. ASSUME Release(c) \/ JoinAndLoadIdle(c) \/ StoreIdle(c) \/ LoadAlive(c) \/ StoreAlive(c)
      PROVE  UNCHANGED <<request_queue, tail>> /\ cpc'[c] # "enqueue"
  BY <1>7 DEF Release, JoinAndLoadIdle, StoreIdle, LoadAlive, StoreAlive, queueVars
<1>8. CASE UNCHANGED poolVars
  BY <1>1, <1>8 DEF poolVars, queueVars, clientVars
<1> QED
  <2> HIDE DEF PoolTypeOK, ClientGoes, SubmitsBeforeClosing, NoTaskBehindSentinel, IsSentinel
  <2> QED
    BY <1>1, <1>2, <1>3, <1>4, <1>5, <1>6, <1>7, <1>8 DEF PoolNext, ClientStep, ReleaseLoop

\* One client alone, which is not inside a put when it calls releaseAll, leaves no
\* request behind a sentinel (two clients do: the run pool_closing).
THEOREM OneClientClosesCleanly ==
  ASSUME NEW c, Clients = {c}
  PROVE  PoolSpec => []NoTaskBehindSentinel
<1>1. PoolInit => SubmitsBeforeClosing /\ NoTaskBehindSentinel
  BY DEF PoolInit, SubmitsBeforeClosing, NoTaskBehindSentinel
<1>2. /\ PoolTypeOK /\ QueueInv /\ ReleaseInv /\ (SubmitsBeforeClosing /\ NoTaskBehindSentinel)
      /\ [PoolNext]_poolVars
      => (SubmitsBeforeClosing /\ NoTaskBehindSentinel)'
  BY NextBehind
<1> QED
  BY <1>1, <1>2, PoolTypeCorrect, QueueCorrect, ReleaseCorrect, PTL DEF PoolSpec

\* With one client, releaseAll leaves no mapping of a request that was put in, and
\* no descriptor but of those that were cancelled (mmap.c:52-58 forgets these).
THEOREM PutResourcesReleasedCorrect ==
  ASSUME NEW c, Clients = {c}
  PROVE  MmapSpec => []PutResourcesReleased
<1>1. PoolFacts /\ JoinInv /\ Drained /\ QueuedInv /\ NoTaskBehindSentinel /\ DoneInv
        => PutResourcesReleased
  <2> SUFFICES ASSUME PoolFacts, JoinInv, Drained, QueuedInv, NoTaskBehindSentinel, DoneInv,
                      released, NEW r \in Requests, submitRes[r] = "OK"
               PROVE  HoldsNothing(r)
    BY DEF PutResourcesReleased, HoldsNothing
  <2>1. PICK s \in 1..tail : request_queue[s] = r
    BY DEF QueuedInv
  <2>2. ~IsSentinel(s)
    BY <2>1, PoolAssumption DEF PoolAssumption, IsSentinel
  \* The first worker has ended on a sentinel.
  <2>3. 1 \in Workers
    BY PoolAssumption DEF PoolAssumption, Workers
  <2>4. PICK t \in 1..tail : IsSentinel(t)
    <3>1. wpc[1] = "exited" /\ IsSentinel(request_task[1])
      BY <2>3 DEF JoinInv
    <3>2. request_task[1] \in 1..head /\ head <= tail
      BY <2>3, <3>1 DEF PoolFacts, HandedInv, HandsInv, HandedOutOnce
    <3> QED
      BY <3>1, <3>2 DEF PoolFacts, PoolTypeOK
  <2>5. ~(t < s)
    BY <2>2, <2>4 DEF NoTaskBehindSentinel
  <2>6. s \in finished
    BY <2>2, <2>4, <2>5 DEF Drained
  <2> QED
    BY <2>1, <2>6 DEF DoneInv
<1> QED
  BY <1>1, PoolFactsCorrect, DoneCorrect, AccessorUsesPool, JoinCorrect, DrainedCorrect,
     QueuedCorrect, OneClientClosesCleanly, PTL

=============================================================================
