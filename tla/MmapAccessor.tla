---------------------------- MODULE MmapAccessor ----------------------------
(***************************************************************************)
(* The mmap accessor of src/src/mmap_file_accessor/mmap_file_accessor.c:   *)
(* the calls of the async_file_accessor_t interface, the task functions    *)
(* mmapRead and mmapWrite the workers of ThreadPool run, and the timeout   *)
(* threads.  The state of ThreadPool is shared: every action here is an    *)
(* action of the pool with its effect on the requests, or leaves the pool  *)
(* unchanged.                                                              *)
(*                                                                         *)
(* A section under pRequest->lock is one action, enabled while the mutex   *)
(* is free; locked[r] is TRUE between actions only where the code keeps    *)
(* the mutex.  status is also read and written outside the lock: those     *)
(* accesses are actions of their own.                                      *)
(***************************************************************************)
EXTENDS ThreadPool

CONSTANT Calls      \* the interface calls the application makes

AllCalls == {"wait", "waitForever", "cancel", "waitAll", "cancelAll", "release"}

ASSUME CallsAssumption == Calls \subseteq AllCalls

VARIABLES
  direction,   \* READ or WRITE, as asked for in getRequest
  status,      \* pRequest->status; "NONE" before getRequest
  fdOpen,      \* the descriptor of the request is open
  buf,         \* pRequest->buf: no buffer, the caller's, mapped, or unmapped
  locked,      \* pRequest->lock is held between actions
  op,          \* where each client is inside an accessor call
  opReq,       \* the request that call is about
  opIdx,       \* loop index of waitAll and cancelAll
  opCnt,       \* their unlocked copy of totoalCnt
  timer,       \* the timeout thread of each client's waitRequest
  body,        \* where each worker is inside mmapRead or mmapWrite
  ioOK         \* whether the mapping or msync of that call succeeded

resourceVars == <<direction, fdOpen, buf>>
requestVars == <<resourceVars, status, locked>>
loopVars == <<opReq, opIdx, opCnt>>
callVars == <<op, loopVars, timer>>
bodyVars == <<body, ioOK>>
mmapVars == <<poolVars, requestVars, callVars, bodyVars>>

Ready(c) == op[c] = "idle" /\ cpc[c] = "idle"

\* The clients in pthread_cond_wait on r's isFinished, and where they resume.
WaitingFor(r) ==
  {c \in Clients : op[c] \in {"waitCond", "zeroCond", "allCond"} /\ opReq[c] = r}

Resume(pc) ==
  CASE pc = "waitCond" -> "waitLock"
    [] pc = "zeroCond" -> "zeroRelock"
    [] pc = "allCond"  -> "allLock"

\* pthread_cond_signal(&isFinished) by a thread; ops is op but for that
\* thread's own move.  One waiting client goes on, if there is one.
\* mutant: nobody is woken
Signal_Forgotten(r, ops) == op' = ops

Signal(r, ops) ==
  \/ WaitingFor(r) = {} /\ op' = ops
  \/ \E c \in WaitingFor(r) : op' = [ops EXCEPT ![c] = Resume(op[c])]

-----------------------------------------------------------------------------
(* getRequest, allocWriteBuf, importReadBuf.  When one of them fails, the  *)
(* caller gives the request up; a getRequest that fails is no step.        *)

GetRequest(c, r) ==
  /\ Ready(c) /\ status[r] = "NONE"
  /\ \E d \in {"READ", "WRITE"} : direction' = [direction EXCEPT ![r] = d]
  /\ status' = [status EXCEPT ![r] = "INIT"]
  /\ fdOpen' = [fdOpen EXCEPT ![r] = TRUE]
  /\ UNCHANGED <<poolVars, buf, locked, callVars, bodyVars>>

AttachBuffer(c, r) ==
  /\ Ready(c) /\ status[r] = "INIT" /\ buf[r] = "NULL"
  /\ \/ /\ buf' = [buf EXCEPT ![r] =
                     IF direction[r] = "WRITE" THEN "MAPPED" ELSE "USER"]
        /\ UNCHANGED status
     \/ /\ status' = [status EXCEPT ![r] = "IOFAIL"]
        /\ UNCHANGED buf
  /\ UNCHANGED <<poolVars, direction, fdOpen, locked, callVars, bodyVars>>

-----------------------------------------------------------------------------
(* putRequest: submit the task, then store the status without the lock.    *)

PutSubmit(c, r) == SubmitAccepted(c, r) \/ SubmitRejected(c, r)

PutRequest(c, r) ==
  /\ Ready(c) /\ status[r] = "INIT" /\ buf[r] # "NULL"
  /\ PutSubmit(c, r)
  /\ op' = [op EXCEPT ![c] = "put"]
  /\ opReq' = [opReq EXCEPT ![c] = r]
  /\ UNCHANGED <<requestVars, opIdx, opCnt, timer, bodyVars>>

PutEnqueue(c) ==
  /\ SubmitEnqueue(c)
  /\ UNCHANGED <<requestVars, callVars, bodyVars>>

\* mutant: the test of the return code is inverted
SubmitFailed_Inverted(r) == submitRes[r] = "OK"

SubmitFailed(r) == submitRes[r] # "OK"

PutStatus(c) ==
  LET r == opReq[c]
  IN  /\ op[c] = "put" /\ cpc[c] = "idle"
      /\ status' = [status EXCEPT ![r] =
                      IF SubmitFailed(r) THEN "CANCEL" ELSE "SUBMITTED"]
      /\ buf' = [buf EXCEPT ![r] =
                   IF SubmitFailed(r) /\ @ = "MAPPED" THEN "UNMAPPED" ELSE @]
      /\ op' = [op EXCEPT ![c] = "idle"]
      /\ UNCHANGED <<poolVars, direction, fdOpen, locked, loopVars, timer,
                     bodyVars>>

-----------------------------------------------------------------------------
(* mmapRead and mmapWrite, run by worker w                                 *)

Job(w) == request_queue[request_task[w]]

SkipsJob(w) == status[Job(w)] = "CANCEL"

\* The early return for a cancelled request: a write buffer is unmapped, the
\* descriptor stays open.
SkipCancelled(w) ==
  LET r == Job(w)
  IN  /\ body[w] = "entry"
      /\ RunTask(w)
      /\ SkipsJob(w)
      /\ buf' = [buf EXCEPT ![r] = IF direction[r] = "WRITE" THEN "NULL" ELSE @]
      /\ UNCHANGED <<direction, status, fdOpen, locked, callVars, bodyVars>>

EnterBody(w) ==
  /\ wpc[w] = "run" /\ body[w] = "entry" /\ ~SkipsJob(w)
  /\ body' = [body EXCEPT ![w] = "io"]
  /\ UNCHANGED <<poolVars, requestVars, callVars, ioOK>>

\* mmap and memcpy into the caller's buffer, or msync of the write buffer.
DoIO(w) ==
  /\ body[w] = "io"
  /\ body' = [body EXCEPT ![w] = "publish"]
  /\ \E ok \in BOOLEAN : ioOK' = [ioOK EXCEPT ![w] = ok]
  /\ UNCHANGED <<poolVars, requestVars, callVars>>

\* mutant: the outcome overwrites a cancellation
Outcome_Overwrites(r, ok) == IF ok THEN "IOSUCCESS" ELSE "IOFAIL"

Outcome(r, ok) ==
  IF status[r] = "CANCEL" THEN "CANCEL" ELSE IF ok THEN "IOSUCCESS" ELSE "IOFAIL"

Publish(w) ==
  LET r == Job(w)
  IN  /\ body[w] = "publish"
      /\ ~locked[r]
      /\ status' = [status EXCEPT ![r] = Outcome(r, ioOK[w])]
      /\ Signal(r, op)
      /\ body' = [body EXCEPT ![w] = "cleanup"]
      /\ UNCHANGED <<poolVars, resourceVars, locked, loopVars, timer, ioOK>>

\* mutant: the descriptor is not closed
CloseFd_Forgotten(r) == UNCHANGED fdOpen

CloseFd(r) == fdOpen' = [fdOpen EXCEPT ![r] = FALSE]

\* Unmap, close the descriptor and return to worker_thread.
Cleanup(w) ==
  LET r == Job(w)
  IN  /\ body[w] = "cleanup"
      /\ RunTask(w)
      /\ buf' = [buf EXCEPT ![r] = IF direction[r] = "WRITE" THEN "NULL" ELSE @]
      /\ CloseFd(r)
      /\ body' = [body EXCEPT ![w] = "entry"]
      /\ UNCHANGED <<direction, status, locked, callVars, ioOK>>

Body(w) ==
  \/ SkipCancelled(w)
  \/ EnterBody(w)
  \/ DoIO(w)
  \/ Publish(w)
  \/ Cleanup(w)

-----------------------------------------------------------------------------
(* waitRequest.  On a request that is not SUBMITTED it returns at once,    *)
(* which is no step.                                                       *)

\* timeout_ms > 0: start the timeout thread.
WaitRequest(c, r) ==
  /\ Ready(c) /\ "wait" \in Calls /\ status[r] = "SUBMITTED"
  /\ timer' = [timer EXCEPT ![c] = "check"]
  /\ op' = [op EXCEPT ![c] = "waitLock"]
  /\ opReq' = [opReq EXCEPT ![c] = r]
  /\ UNCHANGED <<poolVars, requestVars, opIdx, opCnt, bodyVars>>

\* Lock and test; wait for isFinished, or unlock and cancel the timeout thread.
WaitLock(c) ==
  LET r == opReq[c]
  IN  /\ op[c] = "waitLock"
      /\ ~locked[r]
      /\ op' = [op EXCEPT ![c] =
                  IF status[r] = "SUBMITTED" THEN "waitCond" ELSE "waitJoin"]
      /\ UNCHANGED <<poolVars, requestVars, loopVars, timer, bodyVars>>

\* mutant: pthread_join is left out
TimerJoined_Anyway(c) == TRUE

\* pthread_cancel takes effect in nanosleep only; pthread_join waits.
TimerJoined(c) == timer[c] \in {"sleep", "exited"}

WaitJoin(c) ==
  /\ op[c] = "waitJoin"
  /\ TimerJoined(c)
  /\ timer' = [timer EXCEPT ![c] = IF @ \in {"sleep", "exited"} THEN "none" ELSE @]
  /\ op' = [op EXCEPT ![c] = "idle"]
  /\ UNCHANGED <<poolVars, requestVars, loopVars, bodyVars>>

\* timeout_thread: an unlocked look at the status, nanosleep, the section.
TimerCheck(c) ==
  /\ timer[c] = "check"
  /\ timer' = [timer EXCEPT ![c] =
                 IF status[opReq[c]] = "SUBMITTED" THEN "sleep" ELSE "fire"]
  /\ UNCHANGED <<poolVars, requestVars, op, loopVars, bodyVars>>

TimerExpire(c) ==
  /\ timer[c] = "sleep"
  /\ timer' = [timer EXCEPT ![c] = "fire"]
  /\ UNCHANGED <<poolVars, requestVars, op, loopVars, bodyVars>>

TimerFire(c) ==
  LET r == opReq[c]
  IN  /\ timer[c] = "fire"
      /\ ~locked[r]
      /\ status' = [status EXCEPT ![r] = IF @ = "SUBMITTED" THEN "CANCEL" ELSE @]
      /\ Signal(r, op)
      /\ timer' = [timer EXCEPT ![c] = "exited"]
      /\ UNCHANGED <<poolVars, resourceVars, locked, loopVars, bodyVars>>

Timer(c) == TimerCheck(c) \/ TimerExpire(c) \/ TimerFire(c)

\* timeout_ms = 0: the loop on isFinished, with the mutex neither locked
\* before it nor unlocked after it.
WaitForever(c, r) ==
  /\ Ready(c) /\ "waitForever" \in Calls /\ status[r] = "SUBMITTED"
  /\ op' = [op EXCEPT ![c] = "zeroTest"]
  /\ opReq' = [opReq EXCEPT ![c] = r]
  /\ UNCHANGED <<poolVars, requestVars, opIdx, opCnt, timer, bodyVars>>

ZeroTest(c) ==
  /\ op[c] = "zeroTest"
  /\ op' = [op EXCEPT ![c] =
              IF status[opReq[c]] = "SUBMITTED" THEN "zeroEnter" ELSE "idle"]
  /\ UNCHANGED <<poolVars, requestVars, loopVars, timer, bodyVars>>

\* pthread_cond_wait begins to wait and unlocks the mutex, held or not.
ZeroEnter(c) ==
  /\ op[c] = "zeroEnter"
  /\ op' = [op EXCEPT ![c] = "zeroCond"]
  /\ locked' = [locked EXCEPT ![opReq[c]] = FALSE]
  /\ UNCHANGED <<poolVars, resourceVars, status, loopVars, timer, bodyVars>>

\* pthread_cond_wait locks the mutex again before it returns.  If it unlocked
\* the mutex inside another thread's section, that thread's own unlock frees
\* it under the waiter: then it is free here.
ZeroRelock(c) ==
  /\ op[c] = "zeroRelock" /\ ~locked[opReq[c]]
  /\ \E held \in BOOLEAN : locked' = [locked EXCEPT ![opReq[c]] = held]
  /\ op' = [op EXCEPT ![c] = "zeroTest"]
  /\ UNCHANGED <<poolVars, resourceVars, status, loopVars, timer, bodyVars>>

-----------------------------------------------------------------------------
(* cancelRequest, waitAll, cancelAll.  The last two follow the argument of *)
(* every task in the queue, and a sentinel has none: the application does  *)
(* not call them once it has called releaseAll.  They copy the pointer and *)
(* the count at once here, and no task leaves the array; PoolMemory takes  *)
(* the two copies apart and moves the array between and after them.        *)

CancelRequest(c, r) ==
  /\ Ready(c) /\ "cancel" \in Calls
  /\ status[r] \in {"SUBMITTED", "IOSUCCESS", "IOFAIL"}
  /\ op' = [op EXCEPT ![c] = "cancelLock"]
  /\ opReq' = [opReq EXCEPT ![c] = r]
  /\ UNCHANGED <<poolVars, requestVars, opIdx, opCnt, timer, bodyVars>>

CancelLock(c) ==
  LET r == opReq[c]
  IN  /\ op[c] = "cancelLock"
      /\ ~locked[r]
      /\ status' = [status EXCEPT ![r] =
                      IF @ \in {"IOSUCCESS", "IOFAIL"} THEN @ ELSE "CANCEL"]
      /\ Signal(r, [op EXCEPT ![c] = "idle"])
      /\ UNCHANGED <<poolVars, resourceVars, locked, loopVars, timer, bodyVars>>

\* Enter a loop over the queue; with an empty queue the call returns at once.
LoopOverAll(c, call, pc) ==
  /\ Ready(c) /\ call \in Calls /\ isRunning /\ totoalCnt # 0
  /\ opCnt' = [opCnt EXCEPT ![c] = totoalCnt]
  /\ opIdx' = [opIdx EXCEPT ![c] = 1]
  /\ opReq' = [opReq EXCEPT ![c] = request_queue[1]]
  /\ op' = [op EXCEPT ![c] = pc]
  /\ UNCHANGED <<poolVars, requestVars, timer, bodyVars>>

\* mutant: the loop's bound is totoalCnt itself, not the copy
LastRound_Live(c) == opIdx[c] = totoalCnt

LastRound(c) == opIdx[c] = opCnt[c]

\* i++ of such a loop.
NextRound(c) ==
  IF LastRound(c) THEN UNCHANGED <<opIdx, opReq>>
  ELSE /\ opIdx' = [opIdx EXCEPT ![c] = @ + 1]
       /\ opReq' = [opReq EXCEPT ![c] = request_queue[opIdx[c] + 1]]

WaitAll(c) == LoopOverAll(c, "waitAll", "allLock")

AllLock(c) ==
  LET r == opReq[c]
  IN  /\ op[c] = "allLock"
      /\ ~locked[r]
      /\ IF status[r] = "SUBMITTED"
         THEN op' = [op EXCEPT ![c] = "allCond"] /\ UNCHANGED <<opIdx, opReq>>
         ELSE /\ op' = [op EXCEPT ![c] = IF LastRound(c) THEN "idle" ELSE "allLock"]
              /\ NextRound(c)
      /\ UNCHANGED <<poolVars, requestVars, opCnt, timer, bodyVars>>

CancelAll(c) == LoopOverAll(c, "cancelAll", "cancelAll")

CancelAllLock(c) ==
  LET r == opReq[c]
  IN  /\ op[c] = "cancelAll"
      /\ ~locked[r]
      /\ status' = [status EXCEPT ![r] = IF @ = "SUBMITTED" THEN "CANCEL" ELSE @]
      /\ Signal(r, [op EXCEPT ![c] = IF LastRound(c) THEN "idle" ELSE "cancelAll"])
      /\ NextRound(c)
      /\ UNCHANGED <<poolVars, resourceVars, locked, opCnt, timer, bodyVars>>

\* pthread_cond_wait may return with no signal.
SpuriousResume(c) ==
  /\ op[c] \in {"waitCond", "zeroCond", "allCond"}
  /\ op' = [op EXCEPT ![c] = Resume(@)]
  /\ UNCHANGED <<poolVars, requestVars, loopVars, timer, bodyVars>>

\* What a client does on its own once it is inside a call.
CallStep(c) ==
  \/ PutEnqueue(c) \/ PutStatus(c)
  \/ WaitLock(c) \/ WaitJoin(c)
  \/ ZeroTest(c) \/ ZeroEnter(c) \/ ZeroRelock(c)
  \/ CancelLock(c)
  \/ AllLock(c)
  \/ CancelAllLock(c)

ReleaseAll(c) ==
  /\ Ready(c) /\ "release" \in Calls
  /\ Release(c)
  /\ UNCHANGED <<requestVars, callVars, bodyVars>>

\* The pool's own steps, which touch no request.
PoolStep(A) == A /\ UNCHANGED <<requestVars, callVars, bodyVars>>

-----------------------------------------------------------------------------

MmapInit ==
  /\ PoolInit
  /\ direction = [r \in Requests |-> "READ"]
  /\ status = [r \in Requests |-> "NONE"]
  /\ fdOpen = [r \in Requests |-> FALSE] /\ buf = [r \in Requests |-> "NULL"]
  /\ locked = [r \in Requests |-> FALSE] /\ op = [c \in Clients |-> "idle"]
  /\ opReq = [c \in Clients |-> Sentinel] /\ opIdx = [c \in Clients |-> 0]
  /\ opCnt = [c \in Clients |-> 0] /\ timer = [c \in Clients |-> "none"]
  /\ body = [w \in Workers |-> "entry"] /\ ioOK = [w \in Workers |-> FALSE]

MmapNext ==
  \/ \E w \in Workers :
       PoolStep(WorkerLoop(w)) \/ PoolStep(SpuriousWake(w)) \/ Body(w)
  \/ \E c \in Clients :
       \/ ReleaseAll(c) \/ PoolStep(ReleaseLoop(c))
       \/ WaitAll(c) \/ CancelAll(c)
       \/ CallStep(c) \/ SpuriousResume(c) \/ Timer(c)
  \/ \E c \in Clients, r \in Requests :
       \/ GetRequest(c, r) \/ AttachBuffer(c, r) \/ PutRequest(c, r)
       \/ WaitRequest(c, r) \/ WaitForever(c, r) \/ CancelRequest(c, r)

MmapSpec == MmapInit /\ [][MmapNext]_mmapVars

\* The scheduler is fair to every thread; sleeps end.  The application need
\* not make any call, and no wakeup has to be spurious.
MmapFairness ==
  /\ \A w \in Workers : WF_mmapVars(PoolStep(WorkerLoop(w)) \/ Body(w))
  /\ \A c \in Clients : WF_mmapVars(CallStep(c) \/ PoolStep(ReleaseLoop(c)))
  /\ \A c \in Clients : WF_mmapVars(Timer(c))

FairMmapSpec == MmapSpec /\ MmapFairness

-----------------------------------------------------------------------------
(* Properties *)

StatusSet == {"NONE", "INIT", "SUBMITTED", "IOSUCCESS", "IOFAIL", "CANCEL"}

\* The type of every variable of the accessor.  In particular a waitAll or
\* cancelAll that has copied totoalCnt before releaseAll was called never meets
\* the NULL argument of the sentinels that are appended behind its back.
MmapTypeOK ==
  /\ direction \in [Requests -> {"READ", "WRITE"}]
  /\ status \in [Requests -> StatusSet] /\ fdOpen \in [Requests -> BOOLEAN]
  /\ buf \in [Requests -> {"NULL", "USER", "MAPPED", "UNMAPPED"}]
  /\ locked \in [Requests -> BOOLEAN]
  /\ op \in [Clients -> {"idle", "put", "waitLock", "waitCond", "waitJoin",
               "zeroTest", "zeroEnter", "zeroCond", "zeroRelock", "cancelLock",
               "allLock", "allCond", "cancelAll"}]
  /\ opReq \in [Clients -> Tasks]
  /\ \A c \in Clients : op[c] # "idle" => opReq[c] # Sentinel
  /\ opIdx \in [Clients -> Nat] /\ opCnt \in [Clients -> Nat]
  /\ timer \in [Clients -> {"none", "check", "sleep", "fire", "exited"}]
  /\ body \in [Workers -> {"entry", "io", "publish", "cleanup"}]
  /\ ioOK \in [Workers -> BOOLEAN]

\* The stage of a request as its owner sees it.  While its putRequest has not
\* returned it is pending, whatever a worker has made of its status: the late
\* store of SUBMITTED may yet overwrite that.
Stage(r) ==
  IF \E c \in Clients : op[c] = "put" /\ opReq[c] = r THEN "pending"
  ELSE CASE status[r] = "NONE" -> "unused"
         [] status[r] = "INIT" -> "ready"
         [] status[r] = "SUBMITTED" -> "pending"
         [] status[r] = "IOSUCCESS" -> "success"
         [] status[r] = "IOFAIL" -> "failure"
         [] status[r] = "CANCEL" -> "cancelled"

Life == INSTANCE RequestLifecycle WITH stage <- [r \in Requests |-> Stage(r)]

\* How a request was settled is never revised: the worker that finishes later
\* does not undo a cancellation, nor a timeout, cancelRequest or cancelAll a
\* success, nor a second caller a failure, though all of them race.
Lifecycle == Life!LifecycleSpec

\* A worker that is to msync or unmap a write buffer finds it mapped, unless the
\* request's putRequest was told RET_NO_MEMORY: it unmaps the buffer then, although
\* its task is in the queue.  Nothing else takes the buffer from a worker: no put
\* that a closing pool rejects, no cancellation, and no other task.
UnmappedOnlyByFailedPut ==
  \A w \in Workers :
    wpc[w] = "run" /\ body[w] # "entry" /\ direction[Job(w)] = "WRITE" =>
      \/ buf[Job(w)] = "MAPPED"
      \/ buf[Job(w)] = "UNMAPPED" /\ submitRes[Job(w)] = "NO_MEMORY"

\* The arguments of a timeout thread live in the frame of its waitRequest.
TimerInsideWait ==
  \A c \in Clients : timer[c] \in {"check", "sleep", "fire"} =>
    op[c] \in {"waitLock", "waitCond", "waitJoin"}

\* A client asleep in a waitRequest that has a timeout has a timeout thread whose
\* signal is still to come.
TimerWillWake ==
  \A c \in Clients : op[c] = "waitCond" => timer[c] \in {"check", "sleep", "fire"}

\* When releaseAll has returned, a request that was put in holds neither its
\* mapping nor (unless it was cancelled) its descriptor.
PutResourcesReleased ==
  released =>
    \A r \in Requests : submitRes[r] = "OK" =>
      /\ buf[r] # "MAPPED"
      /\ fdOpen[r] => status[r] = "CANCEL"

\* Every call of the interface that was begun returns, but for waitAll: a put,
\* a wait that has a timeout, a cancellation and releaseAll.
EveryCallReturns ==
  \A c \in Clients :
    op[c] \notin {"idle", "allLock", "allCond"} \/ cpc[c] # "idle" ~> Ready(c)

\* No wakeup is lost: a client that waits for a request resumes once the
\* request is not SUBMITTED any more.
FinishWakesWaiter ==
  \A c \in Clients :
    op[c] \in {"waitCond", "zeroCond", "allCond"} /\ status[opReq[c]] # "SUBMITTED"
      ~> op[c] \notin {"waitCond", "zeroCond", "allCond"}

\* waitAll returns.
WaitAllReturns ==
  \A c \in Clients : op[c] \in {"allLock", "allCond"} ~> op[c] = "idle"

=============================================================================
