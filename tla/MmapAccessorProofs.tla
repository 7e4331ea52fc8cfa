------------------------- MODULE MmapAccessorProofs -------------------------
(***************************************************************************)
(* Proofs about MmapAccessor.  The accessor only ever makes steps of the   *)
(* pool, so that what ThreadPoolProofs proves of PoolSpec is true of it.   *)
(***************************************************************************)
EXTENDS MmapAccessor, ThreadPoolProofs

\* Steps of the accessor that are steps of the pool.
LEMMA PoolSteps ==
  ASSUME \/ \E w \in Workers :
              PoolStep(WorkerLoop(w)) \/ PoolStep(SpuriousWake(w)) \/ Body(w)
         \/ \E c \in Clients : ReleaseAll(c) \/ PoolStep(ReleaseLoop(c))
         \/ \E c \in Clients : PutEnqueue(c)
         \/ \E c \in Clients, r \in Requests : PutRequest(c, r)
  PROVE  PoolNext \/ UNCHANGED poolVars
<1>1. ASSUME NEW w \in Workers,
             PoolStep(WorkerLoop(w)) \/ PoolStep(SpuriousWake(w)) \/ Body(w)
      PROVE  PoolNext \/ UNCHANGED poolVars
  BY <1>1 DEF PoolStep, PoolNext, Worker, Body, SkipCancelled, EnterBody, DoIO,
     Publish, Cleanup
<1>2. ASSUME NEW c \in Clients,
             ReleaseAll(c) \/ PoolStep(ReleaseLoop(c)) \/ PutEnqueue(c)
      PROVE  PoolNext \/ UNCHANGED poolVars
  BY <1>2 DEF ReleaseAll, PoolStep, PutEnqueue, PoolNext, ClientStep
<1>3. ASSUME NEW c \in Clients, NEW r \in Requests, PutRequest(c, r)
      PROVE  PoolNext \/ UNCHANGED poolVars
  BY <1>3 DEF PutRequest, PutSubmit, PoolNext
<1> QED
  BY <1>1, <1>2, <1>3

\* The calls that only look at or change requests leave the pool alone.
LEMMA RequestSteps ==
  ASSUME \/ \E c \in Clients :
              \/ PutStatus(c) \/ WaitLock(c) \/ WaitJoin(c)
              \/ ZeroTest(c) \/ ZeroEnter(c) \/ ZeroRelock(c)
              \/ CancelLock(c) \/ AllLock(c) \/ CancelAllLock(c)
              \/ WaitAll(c) \/ CancelAll(c) \/ SpuriousResume(c) \/ Timer(c)
         \/ \E c \in Clients, r \in Requests :
              \/ GetRequest(c, r) \/ AttachBuffer(c, r)
              \/ WaitRequest(c, r) \/ WaitForever(c, r) \/ CancelRequest(c, r)
  PROVE  UNCHANGED poolVars
<1>1. ASSUME NEW c \in Clients,
             \/ PutStatus(c) \/ WaitLock(c) \/ WaitJoin(c)
             \/ ZeroTest(c) \/ ZeroEnter(c) \/ ZeroRelock(c) \/ SpuriousResume(c)
      PROVE  UNCHANGED poolVars
  BY <1>1 DEF PutStatus, WaitLock, WaitJoin, ZeroTest, ZeroEnter, ZeroRelock,
     SpuriousResume
<1>2. ASSUME NEW c \in Clients,
             \/ CancelLock(c) \/ AllLock(c) \/ CancelAllLock(c)
             \/ WaitAll(c) \/ CancelAll(c) \/ Timer(c)
      PROVE  UNCHANGED poolVars
  BY <1>2 DEF CancelLock, AllLock, CancelAllLock, WaitAll, CancelAll, LoopOverAll,
     Timer, TimerCheck, TimerExpire, TimerFire
<1>3. ASSUME NEW c \in Clients, NEW r \in Requests,
             \/ GetRequest(c, r) \/ AttachBuffer(c, r)
             \/ WaitRequest(c, r) \/ WaitForever(c, r) \/ CancelRequest(c, r)
      PROVE  UNCHANGED poolVars
  BY <1>3 DEF GetRequest, AttachBuffer, WaitRequest, WaitForever, CancelRequest
<1> QED
  BY <1>1, <1>2, <1>3

\* Every step of the accessor is a step of the pool or leaves it alone.
LEMMA StepUsesPool == [MmapNext]_mmapVars => [PoolNext]_poolVars
<1>1. CASE UNCHANGED mmapVars
  BY <1>1 DEF mmapVars
<1>2. CASE MmapNext
  BY <1>2, PoolSteps, RequestSteps DEF MmapNext, CallStep
<1> QED
  BY <1>1, <1>2

\* So whatever holds of the pool holds of the pool inside the accessor.
LEMMA AccessorUsesPool == MmapSpec => PoolSpec
<1>1. MmapInit => PoolInit
  BY DEF MmapInit
<1> QED
  BY <1>1, StepUsesPool, PTL DEF MmapSpec, PoolSpec

\* No task of the accessor is lost or run twice.
THEOREM AccessorHandedOutOnce == MmapSpec => []HandedOutOnce
BY AccessorUsesPool, HandedOutOnceCorrect, PTL

=============================================================================
