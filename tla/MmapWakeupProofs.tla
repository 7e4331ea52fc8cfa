-------------------------- MODULE MmapWakeupProofs --------------------------
(***************************************************************************)
(* Proofs about MmapAccessor: when a client that waits for a request is    *)
(* woken.  The code signals isFinished once for each change of a status;   *)
(* the proof says for which use of the library that is enough.             *)
(***************************************************************************)
EXTENDS MmapReleaseProofs

Asleep(c) == op[c] \in Conds

\* No two clients wait for one request.
OneWaiter ==
  \A c, d \in Clients : Asleep(c) /\ Asleep(d) /\ opReq[c] = opReq[d] => c = d

\* A client sleeps for a request that is still to be settled, and is not in the
\* loop of a waitRequest with timeout 0.
AsleepInv ==
  \A c \in Clients :
    /\ op[c] \notin {"zeroTest", "zeroEnter", "zeroCond", "zeroRelock"}
    /\ Asleep(c) => status[opReq[c]] = "SUBMITTED"

\* With one waiter, pthread_cond_signal wakes whoever waits.
LEMMA SignalWakes ==
  ASSUME NEW r, NEW ops \in [Clients -> OpPC], Signal(r, ops), OneWaiter, AsleepInv,
         \A d \in Clients : /\ Asleep(d) => ops[d] = op[d]
                            /\ ops[d] \notin {"zeroTest", "zeroEnter", "zeroCond", "zeroRelock"}
                            /\ ops[d] \in Conds => Asleep(d)
  PROVE  \A d \in Clients :
           /\ op'[d] \notin {"zeroTest", "zeroEnter", "zeroCond", "zeroRelock"}
           /\ op'[d] \in Conds => Asleep(d) /\ opReq[d] # r
<1>1. WaitingFor(r) = {d \in Clients : Asleep(d) /\ opReq[d] = r}
  BY DEF WaitingFor, Asleep, Conds
<1>2. CASE WaitingFor(r) = {} /\ op' = ops
  BY <1>1, <1>2
<1>3. ASSUME NEW c \in WaitingFor(r), op' = [ops EXCEPT ![c] = Resume(op[c])]
      PROVE  \A d \in Clients :
               /\ op'[d] \notin {"zeroTest", "zeroEnter", "zeroCond", "zeroRelock"}
               /\ op'[d] \in Conds => Asleep(d) /\ opReq[d] # r
  <2>1. c \in Clients /\ Asleep(c) /\ opReq[c] = r
    BY <1>1
  <2>2. op'[c] \in {"waitLock", "allLock"}
    BY <1>3, <2>1 DEF Asleep, AsleepInv, Conds, Resume
  <2>3. \A d \in Clients \ {c} : op'[d] = ops[d] /\ (Asleep(d) => opReq[d] # r)
    BY <1>3, <2>1 DEF OneWaiter
  <2> QED
    BY <2>2, <2>3 DEF Conds
<1> QED
  BY <1>2, <1>3 DEF Signal

LEMMA NextAsleep ==
  ASSUME "waitForever" \notin Calls, PoolFacts, MmapTypeOK, TimerInsideWait, WorkerInv, PutInv,
         OneWaiter, AsleepInv, [MmapNext]_mmapVars
  PROVE  AsleepInv'
<1>T. RequestTypes /\ CallTypes
  BY TypeParts
<1> DEFINE Zero == {"zeroTest", "zeroEnter", "zeroCond", "zeroRelock"}
<1> USE DEF requestVars, resourceVars, callVars, loopVars
\* A step in which nobody falls asleep and no status changes.
<1>1. ASSUME UNCHANGED status,
             \A d \in Clients : /\ op'[d] \notin Zero
                                /\ op'[d] \in Conds => Asleep(d) /\ opReq'[d] = opReq[d]
      PROVE  AsleepInv'
  BY <1>1 DEF AsleepInv, Asleep
<1>2. ASSUME UNCHANGED <<status, op, opReq>>
      PROVE  AsleepInv'
  BY <1>1, <1>2 DEF AsleepInv, Asleep
<1>3. ASSUME NEW w \in Workers,
             \/ PoolStep(WorkerLoop(w)) \/ PoolStep(SpuriousWake(w))
             \/ SkipCancelled(w) \/ EnterBody(w) \/ DoIO(w) \/ Cleanup(w)
      PROVE  AsleepInv'
  BY <1>2, <1>3 DEF PoolStep, SkipCancelled, EnterBody, DoIO, Cleanup
<1>4. ASSUME NEW c \in Clients,
             \/ ReleaseAll(c) \/ PoolStep(ReleaseLoop(c)) \/ PutEnqueue(c)
             \/ TimerCheck(c) \/ TimerExpire(c)
      PROVE  AsleepInv'
  BY <1>2, <1>4 DEF PoolStep, ReleaseAll, PutEnqueue, TimerCheck, TimerExpire
\* A request that is obtained, or given up, has no waiter.
<1>5. ASSUME NEW c \in Clients, NEW r \in Requests, GetRequest(c, r) \/ AttachBuffer(c, r)
      PROVE  AsleepInv'
  <2>1. /\ UNCHANGED <<op, opReq>> /\ status[r] # "SUBMITTED"
        /\ \A q \in Tasks : q # r => status'[q] = status[q] \/ q \notin Requests
    BY <1>T, <1>5 DEF GetRequest, AttachBuffer, RequestTypes
  <2>2. ASSUME NEW d \in Clients, Asleep(d)
        PROVE  opReq[d] \in Requests /\ opReq[d] # r
    BY <1>T, <2>1, <2>2 DEF AsleepInv, Asleep, Conds, CallTypes, Tasks
  <2>3. ASSUME NEW d \in Clients, Asleep(d)
        PROVE  status'[opReq[d]] = "SUBMITTED"
    BY <2>1, <2>2, <2>3 DEF AsleepInv, Tasks
  <2> QED
    BY <2>1, <2>3 DEF AsleepInv, Asleep
\* The calls begin, and each test of the status under the lock.
<1>6. ASSUME NEW c \in Clients, NEW r \in Requests,
             PutRequest(c, r) \/ WaitRequest(c, r) \/ CancelRequest(c, r)
      PROVE  AsleepInv'
  <2>1. /\ UNCHANGED status /\ op'[c] \in {"put", "waitLock", "cancelLock"}
        /\ \A d \in Clients \ {c} : op'[d] = op[d] /\ opReq'[d] = opReq[d]
    BY <1>T, <1>6 DEF PutRequest, WaitRequest, CancelRequest, CallTypes
  <2> QED
    BY <1>1, <2>1 DEF AsleepInv, Asleep, Conds
<1>7. ASSUME NEW c \in Clients, WaitAll(c) \/ CancelAll(c)
      PROVE  AsleepInv'
  <2>1. /\ UNCHANGED status /\ op'[c] \in {"allLock", "cancelAll"}
        /\ \A d \in Clients \ {c} : op'[d] = op[d] /\ opReq'[d] = opReq[d]
    BY <1>T, <1>7 DEF WaitAll, CancelAll, LoopOverAll, CallTypes
  <2> QED
    BY <1>1, <2>1 DEF AsleepInv, Asleep, Conds
<1>8. \A c \in Clients, r \in Requests : ~WaitForever(c, r)
  BY DEF WaitForever
<1>9. ASSUME NEW c \in Clients, WaitLock(c)
      PROVE  AsleepInv'
  <2>1. /\ UNCHANGED <<status, opReq>>
        /\ \A d \in Clients \ {c} : op'[d] = op[d]
        /\ op'[c] = IF status[opReq[c]] = "SUBMITTED" THEN "waitCond" ELSE "waitJoin"
    BY <1>T, <1>9 DEF WaitLock, CallTypes
  <2> QED
    BY <2>1 DEF AsleepInv, Asleep, Conds
<1>10. ASSUME NEW c \in Clients, AllLock(c)
       PROVE  AsleepInv'
  <2>1. CASE status[opReq[c]] = "SUBMITTED"
    <3>1. /\ UNCHANGED <<status, opReq>> /\ op'[c] = "allCond"
          /\ \A d \in Clients \ {c} : op'[d] = op[d]
      BY <1>T, <1>10, <2>1 DEF AllLock, CallTypes
    <3> QED
      BY <2>1, <3>1 DEF AsleepInv, Asleep
  <2>2. CASE status[opReq[c]] # "SUBMITTED"
    <3>1. /\ UNCHANGED status /\ op'[c] \in {"idle", "allLock"}
          /\ \A d \in Clients \ {c} : op'[d] = op[d] /\ opReq'[d] = opReq[d]
      BY <1>T, <1>10, <2>2 DEF AllLock, NextRound, CallTypes
    <3> QED
      BY <1>1, <3>1 DEF AsleepInv, Asleep, Conds
  <2> QED
    BY <2>1, <2>2
<1>11. ASSUME NEW c \in Clients, WaitJoin(c) \/ SpuriousResume(c)
       PROVE  AsleepInv'
  <2>1. /\ UNCHANGED <<status, opReq>> /\ op'[c] \in {"idle", "waitLock", "allLock"}
        /\ \A d \in Clients \ {c} : op'[d] = op[d]
    BY <1>T, <1>11 DEF WaitJoin, SpuriousResume, Resume, CallTypes, AsleepInv
  <2> QED
    BY <1>1, <2>1 DEF AsleepInv, Asleep, Conds
<1>12. \A c \in Clients : ~ZeroTest(c) /\ ~ZeroEnter(c) /\ ~ZeroRelock(c)
  BY DEF AsleepInv, ZeroTest, ZeroEnter, ZeroRelock
\* The late store of putRequest is of a request that was never SUBMITTED.
<1>13. ASSUME NEW c \in Clients, PutStatus(c)
       PROVE  AsleepInv'
  <2>1. PICK r \in Requests : r = opReq[c] /\ InPut(r)
    BY <1>T, <1>13 DEF PutStatus, CallTypes, Tasks, InPut
  <2>2. /\ opReq' = opReq /\ op'[c] = "idle" /\ status[r] # "SUBMITTED"
        /\ \A d \in Clients \ {c} : op'[d] = op[d]
        /\ \A q \in Requests \ {r} : status'[q] = status[q]
    BY <1>T, <1>13, <2>1 DEF PutStatus, PutInv, CallTypes, RequestTypes
  <2>3. ASSUME NEW d \in Clients, Asleep(d)
        PROVE  opReq[d] \in Requests \ {r}
    BY <1>T, <2>2, <2>3 DEF AsleepInv, Asleep, Conds, CallTypes, Tasks
  <2> QED
    BY <2>2, <2>3 DEF AsleepInv, Asleep, Conds
\* Whoever settles a request signals in the same section.
<1>14. ASSUME NEW r \in Requests, \A q \in Requests \ {r} : status'[q] = status[q],
              \A d \in Clients : /\ op'[d] \notin Zero
                                 /\ op'[d] \in Conds => Asleep(d) /\ opReq[d] # r,
              \A d \in Clients : op'[d] \in Conds => opReq'[d] = opReq[d]
       PROVE  AsleepInv'
  <2>1. ASSUME NEW d \in Clients, op'[d] \in Conds
        PROVE  opReq[d] \in Requests \ {r}
    BY <1>T, <1>14, <2>1 DEF Asleep, Conds, CallTypes, Tasks
  <2> QED
    BY <1>14, <2>1 DEF AsleepInv, Asleep
<1>15. ASSUME NEW r, Signal(r, op)
       PROVE  \A d \in Clients : /\ op'[d] \notin Zero
                                 /\ op'[d] \in Conds => Asleep(d) /\ opReq[d] # r
  BY <1>T, <1>15, SignalWakes DEF AsleepInv, Asleep, CallTypes
<1>16. ASSUME NEW w \in Workers, Publish(w)
       PROVE  AsleepInv'
  <2>0. Job(w) \in Requests
    BY <1>16, JobIsRequest DEF Publish, WorkerInv
  <2>1. /\ Signal(Job(w), op) /\ UNCHANGED opReq
        /\ \A q \in Requests \ {Job(w)} : status'[q] = status[q]
    BY <1>T, <1>16 DEF Publish, RequestTypes
  <2> QED
    BY <1>14, <1>15, <2>0, <2>1
<1>17. ASSUME NEW c \in Clients, TimerFire(c)
       PROVE  AsleepInv'
  <2>0. opReq[c] \in Requests
    BY <1>T, <1>17 DEF TimerFire, TimerInsideWait, CallTypes, Tasks
  <2>1. /\ Signal(opReq[c], op) /\ UNCHANGED opReq
        /\ \A q \in Requests \ {opReq[c]} : status'[q] = status[q]
    BY <1>T, <1>17 DEF TimerFire, RequestTypes
  <2> QED
    BY <1>14, <1>15, <2>0, <2>1
<1>18. ASSUME NEW c \in Clients, CancelLock(c) \/ CancelAllLock(c)
       PROVE  AsleepInv'
  <2>1. PICK r \in Requests : r = opReq[c] /\ op[c] \in {"cancelLock", "cancelAll"}
    BY <1>T, <1>18 DEF CancelLock, CancelAllLock, CallTypes, Tasks
  <2>2. PICK pc \in {"idle", "cancelAll"} : Signal(r, [op EXCEPT ![c] = pc])
    BY <1>18, <2>1 DEF CancelLock, CancelAllLock
  <2> DEFINE ops == [op EXCEPT ![c] = pc]
  <2>3. /\ ops \in [Clients -> OpPC]
        /\ \A d \in Clients : /\ Asleep(d) => ops[d] = op[d]
                              /\ ops[d] \notin Zero
                              /\ ops[d] \in Conds => Asleep(d)
    BY <1>T, <2>1 DEF CallTypes, OpPC, Asleep, Conds, AsleepInv
  <2>4. \A d \in Clients : /\ op'[d] \notin Zero
                           /\ op'[d] \in Conds => Asleep(d) /\ opReq[d] # r
    BY <2>2, <2>3, SignalWakes
  <2>5. \A q \in Requests \ {r} : status'[q] = status[q]
    BY <1>T, <1>18, <2>1 DEF CancelLock, CancelAllLock, RequestTypes
  <2>6. \A d \in Clients \ {c} : opReq'[d] = opReq[d]
    BY <1>T, <1>18 DEF CancelLock, CancelAllLock, NextRound, CallTypes
  <2>7. op'[c] \notin Conds
    BY <2>1, <2>4 DEF Asleep, Conds
  <2> QED
    BY <1>14, <2>4, <2>5, <2>6, <2>7
<1>19. CASE UNCHANGED mmapVars
  BY <1>2, <1>19 DEF mmapVars
<1> QED
  BY <1>3, <1>4, <1>5, <1>6, <1>7, <1>8, <1>9, <1>10, <1>11, <1>12, <1>13, <1>16, <1>17,
     <1>18, <1>19 DEF MmapNext, CallStep, Body, Timer

LEMMA AsleepCorrect ==
  ASSUME "waitForever" \notin Calls
  PROVE  MmapSpec /\ []OneWaiter => []AsleepInv
<1>1. MmapInit => PutResultInv /\ PutInv /\ AsleepInv /\ TimerInsideWait
  BY DEF MmapInit, PoolInit, PutResultInv, PutInv, InPut, AsleepInv, Asleep, Conds, TimerInsideWait
<1>2. /\ PoolFacts /\ MmapTypeOK /\ (WorkerInv /\ OwnerInv /\ SlotInv) /\ TimerInsideWait
      /\ OneWaiter /\ (PutResultInv /\ PutInv /\ AsleepInv) /\ [MmapNext]_mmapVars
      => (PutResultInv /\ PutInv /\ AsleepInv)'
  BY NextPutResult, NextPut, NextAsleep
<1> QED
  BY <1>1, <1>2, PoolFactsCorrect, MmapTypeCorrect, TimerInsideWaitCorrect, OutcomeInvCorrect,
     PTL DEF MmapSpec

\* Nobody sleeps for a request that is settled.
SleepForPending == \A c \in Clients : Asleep(c) => status[opReq[c]] = "SUBMITTED"

\* If nobody calls waitRequest with timeout 0 and no two clients wait for one
\* request at a time, no wakeup is lost: whoever settles a request signals in the
\* same section, and the late store of putRequest is of a request nobody can wait
\* for yet.
THEOREM WakeupNotLost ==
  ASSUME "waitForever" \notin Calls
  PROVE  MmapSpec /\ []OneWaiter => []SleepForPending
<1>1. AsleepInv => SleepForPending
  BY DEF AsleepInv, SleepForPending
<1> QED
  BY <1>1, AsleepCorrect, PTL

\* With one client that does not call waitRequest with timeout 0, a client that
\* waits resumes once its request is settled.  No fairness is needed: the step
\* that settles the request wakes it.
THEOREM FinishWakesWaiterCorrect ==
  ASSUME NEW one, Clients = {one}, "waitForever" \notin Calls
  PROVE  MmapSpec => FinishWakesWaiter
<1>1. OneWaiter
  BY DEF OneWaiter
<1>2. MmapSpec => []SleepForPending
  BY <1>1, WakeupNotLost, PTL
<1> DEFINE Late(c) == op[c] \in {"waitCond", "zeroCond", "allCond"} /\ status[opReq[c]] # "SUBMITTED"
           Awake(c) == op[c] \notin {"waitCond", "zeroCond", "allCond"}
<1>3. ASSUME NEW c \in Clients
      PROVE  MmapSpec => (Late(c) ~> Awake(c))
  <2>1. SleepForPending => ~Late(c)
    BY DEF SleepForPending, Asleep, Conds
  <2> HIDE DEF Late, Awake
  <2> QED
    BY <1>2, <2>1, PTL
<1>4. MmapSpec => \A c \in Clients : Late(c) ~> Awake(c)
  BY <1>3
<1> QED
  BY <1>4, PTL DEF FinishWakesWaiter
-----------------------------------------------------------------------------
(* Waits that have a timeout *)

InWait(c) == op[c] \in {"waitLock", "waitCond"}
Ticking(c) == timer[c] \in {"check", "sleep", "fire"}

\* Who waits with a timeout does so for a request whose put is over, and its timeout
\* thread runs, or has left it a settled request to find under the lock.
TimedWaitInv ==
  \A c \in Clients : InWait(c) =>
    /\ Begun(opReq[c]) /\ ~InPut(opReq[c])
    /\ \/ Ticking(c)
       \/ op[c] = "waitLock" /\ status[opReq[c]] # "SUBMITTED"

\* A request whose put is over stays so, and settled once it is.
LEMMA SettledStays ==
  ASSUME MmapTypeOK, [MmapNext]_mmapVars, NEW r \in Requests, Begun(r), ~InPut(r)
  PROVE  /\ Begun(r)' /\ ~InPut(r)'
         /\ status[r] # "SUBMITTED" => status'[r] # "SUBMITTED"
<1>T. RequestTypes
  BY TypeParts
<1>1. ~InPut(r)'
  <2>1. ASSUME NEW c \in Clients, PutRequest(c, r)
        PROVE  FALSE
    BY <2>1 DEF PutRequest, Begun
  <2> QED
    BY <2>1, InPutFrame
<1> DEFINE Settles == status'[r] = status[r] \/ status'[r] # "SUBMITTED"
<1>2. ASSUME NEW c \in Clients, NEW q \in Requests, GetRequest(c, q)
      PROVE  Settles
  BY <1>T, <1>2 DEF GetRequest, RequestTypes
<1>3. ASSUME NEW c \in Clients, PutStatus(c)
      PROVE  Settles
  BY <1>T, <1>3 DEF PutStatus, InPut, RequestTypes
<1>4. ASSUME NEW w \in Workers, Publish(w)
      PROVE  Settles
  BY <1>T, <1>4 DEF Publish, Outcome, RequestTypes
<1>5. ASSUME NEW q, NEW new \in {"IOFAIL", "CANCEL"}, status' = [status EXCEPT ![q] = new]
      PROVE  Settles
  BY <1>T, <1>5 DEF RequestTypes
<1>6. Settles
  <2> HIDE DEF Settles
  <2>1. CASE status' = status
    BY <2>1 DEF Settles
  <2> QED
    BY <1>2, <1>3, <1>4, <1>5, <2>1, StatusFrame
<1> QED
  BY <1>1, <1>6, StatusMonotone

\* How a client comes to be in such a wait, and what moves its timeout thread there.
LEMMA WaitFrame ==
  ASSUME MmapTypeOK, [MmapNext]_mmapVars, NEW c \in Clients, InWait(c)'
  PROVE  \/ \E r \in Requests : WaitRequest(c, r)
         \/ /\ InWait(c) /\ opReq'[c] = opReq[c]
            /\ \/ /\ timer'[c] = timer[c]
                  /\ op'[c] = op[c] \/ op'[c] = "waitLock" \/ status[opReq[c]] = "SUBMITTED"
               \/ Ticking(c)'
               \/ TimerFire(c)
<1> DEFINE Stays == InWait(c) /\ opReq'[c] = opReq[c]
           Same == /\ Stays /\ timer'[c] = timer[c]
                   /\ op'[c] = op[c] \/ op'[c] = "waitLock" \/ status[opReq[c]] = "SUBMITTED"
<1>T. CallTypes
  BY TypeParts
<1> USE DEF CallTypes, callVars, loopVars, InWait
<1>1. ASSUME UNCHANGED callVars
      PROVE  Same
  BY <1>1
\* A signal brings nobody into a wait, and out of the wait for it to the lock.
<1>2. ASSUME NEW r, NEW ops \in [Clients -> OpPC], Signal(r, ops),
             \A d \in Clients : op[d] \in Conds => ops[d] = op[d]
      PROVE  \/ op'[c] = ops[c]
             \/ op[c] = "waitCond" /\ op'[c] = "waitLock"
  BY <1>2, SignalEffect
<1>3. ASSUME NEW r, Signal(r, op)
      PROVE  op'[c] = op[c] \/ (op[c] = "waitCond" /\ op'[c] = "waitLock")
  BY <1>T, <1>2, <1>3
<1>4. ASSUME NEW w \in Workers,
             PoolStep(WorkerLoop(w)) \/ PoolStep(SpuriousWake(w)) \/ Body(w)
      PROVE  Same
  <2>1. CASE Publish(w)
    <3>1. Signal(Job(w), op) /\ UNCHANGED <<opReq, timer>>
      BY <2>1 DEF Publish
    <3> QED
      BY <1>3, <3>1
  <2> QED
    BY <1>1, <1>4, <2>1 DEF PoolStep, Body, SkipCancelled, EnterBody, DoIO, Cleanup
<1>5. ASSUME NEW d \in Clients,
             \/ ReleaseAll(d) \/ PoolStep(ReleaseLoop(d)) \/ PutEnqueue(d)
             \/ WaitAll(d) \/ CancelAll(d)
      PROVE  Same
  BY <1>T, <1>1, <1>5 DEF ReleaseAll, PoolStep, PutEnqueue, WaitAll, CancelAll,
     LoopOverAll, Ready
<1>6. ASSUME NEW d \in Clients, NEW r \in Requests,
             \/ GetRequest(d, r) \/ AttachBuffer(d, r) \/ CancelRequest(d, r)
             \/ WaitForever(d, r) \/ PutRequest(d, r)
      PROVE  Same
  BY <1>T, <1>1, <1>6 DEF GetRequest, AttachBuffer, CancelRequest, WaitForever,
     PutRequest, Ready
<1>7. ASSUME NEW d \in Clients, NEW r \in Requests, WaitRequest(d, r)
      PROVE  Same \/ WaitRequest(c, r)
  BY <1>T, <1>7 DEF WaitRequest
<1>8. ASSUME NEW d \in Clients, WaitLock(d) \/ WaitJoin(d)
      PROVE  Same
  BY <1>T, <1>8 DEF WaitLock, WaitJoin
<1>9. ASSUME NEW d \in Clients,
             ZeroTest(d) \/ ZeroEnter(d) \/ ZeroRelock(d) \/ PutStatus(d)
      PROVE  Same
  BY <1>T, <1>9 DEF ZeroTest, ZeroEnter, ZeroRelock, PutStatus
<1>10. ASSUME NEW d \in Clients, SpuriousResume(d)
       PROVE  Same
  BY <1>T, <1>10 DEF SpuriousResume, Resume
<1>11. ASSUME NEW d \in Clients, AllLock(d)
       PROVE  Same
  BY <1>T, <1>11 DEF AllLock, NextRound
<1>12. ASSUME NEW d \in Clients, CancelLock(d) \/ CancelAllLock(d)
       PROVE  Same
  <2>1. PICK pc \in {"idle", "cancelAll"} : Signal(opReq[d], [op EXCEPT ![d] = pc])
    BY <1>12 DEF CancelLock, CancelAllLock
  <2>2. op[d] \in {"cancelLock", "cancelAll"}
    BY <1>12 DEF CancelLock, CancelAllLock
  <2> DEFINE ops == [op EXCEPT ![d] = pc]
  <2>3. ops \in [Clients -> OpPC] /\ \A e \in Clients : op[e] \in Conds => ops[e] = op[e]
    BY <1>T, <2>2 DEF OpPC, Conds
  <2>4. op'[c] = ops[c] \/ (op[c] = "waitCond" /\ op'[c] = "waitLock")
    BY <1>2, <2>1, <2>3
  <2>5. c # d /\ InWait(c) /\ (op'[c] = op[c] \/ op'[c] = "waitLock")
    BY <1>T, <2>2, <2>4
  <2>6. opReq'[c] = opReq[c] /\ timer' = timer
    BY <1>T, <1>12, <2>5 DEF CancelLock, CancelAllLock, NextRound
  <2> QED
    BY <2>5, <2>6
<1>13. ASSUME NEW d \in Clients, TimerCheck(d) \/ TimerExpire(d)
       PROVE  Same \/ (Stays /\ Ticking(c)')
  BY <1>T, <1>13 DEF TimerCheck, TimerExpire, Ticking
<1>14. ASSUME NEW d \in Clients, TimerFire(d)
       PROVE  Same \/ (Stays /\ TimerFire(c))
  <2>1. /\ Signal(opReq[d], op) /\ opReq' = opReq
        /\ d # c => timer'[c] = timer[c]
    BY <1>T, <1>14 DEF TimerFire
  <2>2. op'[c] = op[c] \/ (op[c] = "waitCond" /\ op'[c] = "waitLock")
    BY <1>3, <2>1
  <2> QED
    BY <1>14, <2>1, <2>2
<1>15. ASSUME UNCHANGED mmapVars
       PROVE  Same
  BY <1>1, <1>15 DEF mmapVars
<1> QED
  <2> HIDE DEF Same, Stays, InWait, CallTypes, callVars, loopVars
  <2>1. Same => Stays /\ timer'[c] = timer[c]
                /\ (op'[c] = op[c] \/ op'[c] = "waitLock" \/ status[opReq[c]] = "SUBMITTED")
    BY DEF Same
  <2>2. Stays => InWait(c) /\ opReq'[c] = opReq[c]
    BY DEF Stays
  <2> DEFINE Shape == \/ \E r \in Requests : WaitRequest(c, r)
                      \/ Same \/ (Stays /\ Ticking(c)') \/ (Stays /\ TimerFire(c))
  <2>3. Shape
    <3>1. ASSUME NEW d \in Clients, NEW r \in Requests, WaitRequest(d, r)
          PROVE  Shape
      BY <1>7, <3>1
    <3>2. ASSUME NEW d \in Clients, Timer(d)
          PROVE  Shape
      BY <1>13, <1>14, <3>2 DEF Timer
    <3>3. Same => Shape
      OBVIOUS
    <3> HIDE DEF Shape
    <3> QED
      BY <1>4, <1>5, <1>6, <1>8, <1>9, <1>10, <1>11, <1>12, <1>15, <3>1, <3>2, <3>3
      DEF MmapNext, CallStep
  <2> QED
    BY <2>1, <2>2, <2>3

LEMMA NextTimedWait ==
  ASSUME MmapTypeOK, PutInv, OneWaiter, TimedWaitInv, [MmapNext]_mmapVars
  PROVE  TimedWaitInv'
<1> SUFFICES ASSUME NEW c \in Clients, InWait(c)'
             PROVE  /\ Begun(opReq[c])' /\ ~InPut(opReq[c])'
                    /\ \/ Ticking(c)'
                       \/ op'[c] = "waitLock" /\ status'[opReq'[c]] # "SUBMITTED"
  BY DEF TimedWaitInv
<1>T. RequestTypes /\ CallTypes
  BY TypeParts
<1>1. ASSUME NEW r \in Requests, WaitRequest(c, r)
      PROVE  Begun(r) /\ ~InPut(r) /\ opReq'[c] = r /\ Ticking(c)'
  BY <1>T, <1>1 DEF WaitRequest, PutInv, Begun, Ticking, CallTypes
<1>2. CASE \E r \in Requests : WaitRequest(c, r)
  <2>1. PICK r \in Requests : WaitRequest(c, r)
    BY <1>2
  <2>2. Begun(r)' /\ ~InPut(r)'
    BY <1>1, <2>1, SettledStays
  <2> QED
    BY <1>1, <2>1, <2>2 DEF Begun, InPut
<1>3. CASE InWait(c) /\ opReq'[c] = opReq[c]
  <2> DEFINE r == opReq[c]
  <2>1. /\ r \in Requests /\ Begun(r) /\ ~InPut(r)
        /\ Ticking(c) \/ (op[c] = "waitLock" /\ status[r] # "SUBMITTED")
    BY <1>T, <1>3 DEF TimedWaitInv, InWait, CallTypes, Tasks
  <2>2. Begun(r)' /\ ~InPut(r)' /\ (status[r] # "SUBMITTED" => status'[r] # "SUBMITTED")
    BY <1>3, <2>1, SettledStays DEF Begun, InPut
  <2>3. CASE /\ timer'[c] = timer[c]
             /\ op'[c] = op[c] \/ op'[c] = "waitLock" \/ status[r] = "SUBMITTED"
    BY <1>3, <2>1, <2>2, <2>3 DEF Ticking
  <2>4. CASE TimerFire(c)
    <3>1. Signal(r, op) /\ status'[r] # "SUBMITTED"
      BY <1>T, <2>1, <2>4 DEF TimerFire, RequestTypes
    <3>2. CASE op[c] = "waitCond"
      <4>1. WaitingFor(r) = {c}
        BY <3>2 DEF WaitingFor, OneWaiter, Asleep, Conds
      <4>2. op' = [op EXCEPT ![c] = "waitLock"]
        BY <3>1, <3>2, <4>1 DEF Signal, Resume
      <4> QED
        BY <1>T, <1>3, <2>2, <3>1, <4>2 DEF CallTypes
    <3>3. CASE op[c] = "waitLock"
      <4>1. op'[c] = "waitLock"
        BY <1>T, <3>1, <3>3, SignalEffect DEF CallTypes
      <4> QED
        BY <1>3, <2>2, <3>1, <4>1
    <3> QED
      BY <1>3, <3>2, <3>3 DEF InWait
  <2>5. CASE Ticking(c)'
    BY <2>2, <2>5
  <2> HIDE DEF r
  <2> QED
    BY <1>2, <2>3, <2>4, <2>5, WaitFrame DEF r
<1> QED
  BY <1>2, <1>3, WaitFrame

\* If no two clients wait for one request at a time, a client asleep in a waitRequest
\* with a timeout has a timeout thread that will still signal, whatever else races
\* with it: the thread signals once, under the lock, after the status is settled.
THEOREM TimerNotSpent ==
  MmapSpec /\ []OneWaiter => []TimerWillWake
<1>1. MmapInit => TimedWaitInv /\ PutInv /\ PutResultInv
  BY DEF MmapInit, PoolInit, TimedWaitInv, InWait, PutInv, PutResultInv, InPut
<1>2. MmapTypeOK /\ PutInv /\ OneWaiter /\ TimedWaitInv /\ [MmapNext]_mmapVars => TimedWaitInv'
  BY NextTimedWait
<1>3. TimedWaitInv => TimerWillWake
  BY DEF TimedWaitInv, TimerWillWake, InWait, Ticking
<1>4. /\ PoolFacts /\ MmapTypeOK /\ (WorkerInv /\ OwnerInv /\ SlotInv)
      /\ (PutResultInv /\ PutInv) /\ [MmapNext]_mmapVars
      => (PutResultInv /\ PutInv)'
  BY NextPutResult, NextPut
<1> QED
  BY <1>1, <1>2, <1>3, <1>4, PoolFactsCorrect, MmapTypeCorrect, OutcomeInvCorrect,
     PTL DEF MmapSpec

\* With one client, waitRequest with a timeout always has a thread to end it.
THEOREM TimerWillWakeCorrect ==
  ASSUME NEW one, Clients = {one}
  PROVE  MmapSpec => []TimerWillWake
<1>1. OneWaiter
  BY DEF OneWaiter
<1> QED
  BY <1>1, TimerNotSpent, PTL

=============================================================================
