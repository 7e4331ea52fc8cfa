---------------------------- MODULE AioAccessor ----------------------------
(***************************************************************************)
(* The accessor of src/src/aio_file_accessor/aio_file_accessor.c: the      *)
(* calls of the async_file_accessor_t interface, made by one application   *)
(* thread (req_list has no lock), and aio_callback, which the C library    *)
(* runs in a thread of its own for each completed request.  The library's  *)
(* asynchronous I/O and the descriptor table are external: aio[r] is what  *)
(* it knows of the control block of r, fdTable who holds a descriptor.     *)
(*                                                                         *)
(* A section under pRequest->lock is one action, but for aio_callback's,   *)
(* whose two close calls are steps other threads may come between.         *)
(***************************************************************************)
EXTENDS Integers, Sequences

CONSTANTS
  Requests,
  NumFds,         \* number of descriptors; open takes the lowest free one
  Calls,          \* the calls the application makes besides get and put
  ReallocMayFail,
  NULL            \* no request

ASSUME AioAssumption ==
  /\ NumFds \in Nat
  /\ Calls \subseteq {"wait", "cancel", "waitAll", "cancelAll", "release"}
  /\ ReallocMayFail \in BOOLEAN /\ NULL \notin Requests

Fds == 1..NumFds
NoFd == -1

VARIABLES
  status,         \* pRequest->status; "NONE" before getRequest
  fd, fildes,     \* pRequest->fd and pRequest->cb.aio_fildes
  buf,            \* pRequest->buf: "NULL", "USER" or "HEAP"
  heap,           \* the memory allocWriteBuf took: none, live, freed, doubly freed
  locked,         \* pRequest->lock is held by the callback
  exists,         \* pRequest is allocated
  req_list,       \* the requests put in; releaseAll leaves NULL for each
  pc, cur, idx,   \* the application thread: where, its request, its loop index
  waited,         \* waitAll has returned, and nothing was put in since
  aio,            \* the library: none, queued, running, done, error, canceled
  callback,       \* aio_callback of each request: none, pending, close1, close2, done
  fdTable         \* the request a descriptor was opened for, or NULL

requestVars == <<status, fd, fildes, buf, heap, locked, exists>>
appVars == <<req_list, pc, cur, idx, waited>>
aioVars == <<requestVars, appVars, aio, callback, fdTable>>

-----------------------------------------------------------------------------
(* The C library and the kernel                                            *)

Close(n) == fdTable' = [fdTable EXCEPT ![n] = NULL]

LowestFree(n) == fdTable[n] = NULL /\ \A m \in 1..(n - 1) : fdTable[m] # NULL

InFlight(r) == aio[r] \in {"queued", "running"}

\* aio_cancel(pRequest->fd, &pRequest->cb): a request nobody works on yet is
\* taken out and notified, else nothing happens.
AioCancel(r) ==
  IF aio[r] = "queued" /\ fd[r] \in Fds /\ fdTable[fd[r]] # NULL
  THEN /\ aio' = [aio EXCEPT ![r] = "canceled"]
       /\ callback' = [callback EXCEPT ![r] = "pending"]
  ELSE UNCHANGED <<aio, callback>>

\* The control block names an open descriptor and a buffer.
Usable(r) == fildes[r] \in Fds /\ fdTable[fildes[r]] # NULL /\ buf[r] # "NULL"

AioBegin(r) ==
  /\ aio[r] = "queued" /\ Usable(r)
  /\ aio' = [aio EXCEPT ![r] = "running"]
  /\ UNCHANGED <<requestVars, appVars, callback, fdTable>>

AioFinish(r) ==
  /\ \/ aio[r] = "running" /\ aio' = [aio EXCEPT ![r] = "done"]
     \/ InFlight(r) /\ aio' = [aio EXCEPT ![r] = "error"]
  /\ callback' = [callback EXCEPT ![r] = "pending"]
  /\ UNCHANGED <<requestVars, appVars, fdTable>>

-----------------------------------------------------------------------------
(* aio_callback                                                            *)

\* free of memory that is not allocated any more is what must not happen.
FreeHeap(r) == heap' = [heap EXCEPT ![r] = IF @ = "live" THEN "freed" ELSE "double"]

\* mutant: the pointer is left as it was
DropBuffer_Dangling(r) ==
  IF buf[r] = "HEAP" THEN FreeHeap(r) /\ UNCHANGED buf ELSE UNCHANGED <<buf, heap>>

\* Free the write buffer, if there is one, and forget it.
DropBuffer(r) ==
  IF buf[r] = "HEAP"
  THEN FreeHeap(r) /\ buf' = [buf EXCEPT ![r] = "NULL"]
  ELSE UNCHANGED <<buf, heap>>

CallbackResult(r) ==
  /\ callback[r] = "pending" /\ ~locked[r]
  /\ locked' = [locked EXCEPT ![r] = TRUE]
  /\ status' = [status EXCEPT ![r] = IF aio[r] = "done" THEN "IOSUCCESS" ELSE @]
  /\ DropBuffer(r)
  /\ callback' = [callback EXCEPT ![r] = "close1"]
  /\ UNCHANGED <<fd, fildes, exists, appVars, aio, fdTable>>

CallbackCloseFd(r) ==
  /\ callback[r] = "close1"
  /\ IF fd[r] > 0 THEN Close(fd[r]) ELSE UNCHANGED fdTable
  /\ fd' = [fd EXCEPT ![r] = NoFd]
  /\ callback' = [callback EXCEPT ![r] = "close2"]
  /\ UNCHANGED <<status, fildes, buf, heap, locked, exists, appVars, aio>>

\* mutants: no signal is given; the mutex stays locked
WakeApp_Forgotten(r) == UNCHANGED pc
Unlock_Forgotten(r) == UNCHANGED locked

\* pthread_cond_signal(&isFinished): the application thread may wait for it.
WakeApp(r) == pc' = IF pc = "allCond" /\ cur = r THEN "allLock" ELSE pc

Unlock(r) == locked' = [locked EXCEPT ![r] = FALSE]

CallbackCloseFildes(r) ==
  /\ callback[r] = "close2"
  /\ IF fildes[r] > 0 THEN Close(fildes[r]) ELSE UNCHANGED fdTable
  /\ fildes' = [fildes EXCEPT ![r] = NoFd]
  /\ WakeApp(r)
  /\ Unlock(r)
  /\ callback' = [callback EXCEPT ![r] = "done"]
  /\ UNCHANGED <<status, fd, buf, heap, exists, req_list, cur, idx, waited, aio>>

Callback(r) == CallbackResult(r) \/ CallbackCloseFd(r) \/ CallbackCloseFildes(r)

-----------------------------------------------------------------------------
(* getRequest, allocWriteBuf, importReadBuf, putRequest.  getRequest says  *)
(* RET_OK when open fails, and allocWriteBuf when malloc does, so a request *)
(* may be put in with descriptor -1 and without a buffer.                  *)

Ready == pc = "idle"

\* aio_check_request_valid opens the file and closes it again.
CheckValid == \E n \in Fds : fdTable[n] = NULL

GetRequest(r) ==
  /\ Ready /\ status[r] = "NONE"
  /\ CheckValid
  /\ \/ \E n \in Fds :
          /\ LowestFree(n)
          /\ fdTable' = [fdTable EXCEPT ![n] = r]
          /\ fd' = [fd EXCEPT ![r] = n]
          /\ fildes' = [fildes EXCEPT ![r] = n]
     \/ UNCHANGED <<fdTable, fd, fildes>>
  /\ status' = [status EXCEPT ![r] = "INIT"]
  /\ exists' = [exists EXCEPT ![r] = TRUE]
  /\ UNCHANGED <<buf, heap, locked, appVars, aio, callback>>

AttachBuffer(r) ==
  /\ Ready /\ status[r] = "INIT" /\ buf[r] = "NULL"
  /\ \/ /\ buf' = [buf EXCEPT ![r] = "HEAP"]
        /\ heap' = [heap EXCEPT ![r] = "live"]
     \/ /\ buf' = [buf EXCEPT ![r] = "USER"]
        /\ UNCHANGED heap
  /\ UNCHANGED <<status, fd, fildes, locked, exists, appVars, aio, callback,
                 fdTable>>

CanPut(r) == Ready /\ status[r] = "INIT"

\* aio_read or aio_write takes the request; its status is stored after that.
PutSubmit(r) ==
  /\ CanPut(r)
  /\ aio' = [aio EXCEPT ![r] = "queued"]
  /\ pc' = "put"
  /\ cur' = r
  /\ waited' = FALSE
  /\ UNCHANGED <<requestVars, req_list, idx, callback, fdTable>>

\* aio_read or aio_write fails.  The status says SUBMITTED all the same.
PutFail(r) ==
  /\ CanPut(r)
  /\ DropBuffer(r)
  /\ status' = [status EXCEPT ![r] = "SUBMITTED"]
  /\ UNCHANGED <<fd, fildes, locked, exists, appVars, aio, callback, fdTable>>

\* The status is stored without the lock and the request put on the list,
\* unless the list cannot grow.
PutStatus ==
  /\ pc = "put"
  /\ status' = [status EXCEPT ![cur] = "SUBMITTED"]
  /\ \/ req_list' = Append(req_list, cur)
     \/ ReallocMayFail /\ UNCHANGED req_list
  /\ pc' = "idle"
  /\ UNCHANGED <<fd, fildes, buf, heap, locked, exists, cur, idx, waited, aio,
                 callback, fdTable>>

-----------------------------------------------------------------------------
(* waitRequest, cancelRequest                                              *)

WaitRequest(r) ==
  /\ Ready /\ "wait" \in Calls /\ status[r] = "SUBMITTED"
  /\ pc' = "suspend"
  /\ cur' = r
  /\ UNCHANGED <<requestVars, req_list, idx, waited, aio, callback, fdTable>>

\* aio_suspend returns: the request is not in progress any more, or the
\* timeout or a signal ends the wait, which leaves the request as it is.
WaitReturn(ended) ==
  /\ pc = "suspend" /\ ended
  /\ pc' = "idle"
  /\ UNCHANGED <<requestVars, req_list, cur, idx, waited, aio, callback, fdTable>>

WaitFinished == WaitReturn(~InFlight(cur))
WaitTimedOut == WaitReturn(TRUE)

CancelRequest(r) ==
  /\ Ready /\ "cancel" \in Calls /\ status[r] \in {"SUBMITTED", "IOSUCCESS"}
  /\ pc' = "cancel"
  /\ cur' = r
  /\ UNCHANGED <<requestVars, req_list, idx, waited, aio, callback, fdTable>>

\* The section under the lock.  The test of the status is made in it; since the
\* call began, a callback can only have turned SUBMITTED into IOSUCCESS.
CancelLock ==
  /\ pc = "cancel" /\ ~locked[cur]
  /\ AioCancel(cur)
  /\ DropBuffer(cur)
  /\ status' = [status EXCEPT ![cur] = "CANCEL"]
  /\ pc' = "idle"
  /\ UNCHANGED <<fd, fildes, locked, exists, req_list, cur, idx, waited, fdTable>>

-----------------------------------------------------------------------------
(* waitAll, cancelAll, releaseAll: loops over the list, in order.  With an *)
(* empty list they return at once.  The application is done when it has    *)
(* released: cancelAll would follow the NULLs releaseAll leaves.           *)

Loop(call, first) ==
  /\ Ready /\ call \in Calls /\ req_list # <<>>
  /\ pc' = first
  /\ idx' = 1
  /\ cur' = req_list[1]

\* i++; at is where the next round begins, last where the loop ends.
NextRound(at, last) ==
  IF idx < Len(req_list)
  THEN pc' = at /\ idx' = idx + 1 /\ cur' = req_list[idx + 1]
  ELSE pc' = last /\ UNCHANGED <<idx, cur>>

WaitAll ==
  /\ Loop("waitAll", "allLock")
  /\ UNCHANGED <<requestVars, req_list, waited, aio, callback, fdTable>>

\* mutant: a request that is not finished is passed over
MustWait_Never(r) == FALSE

MustWait(r) == status[r] = "SUBMITTED"

AllLock ==
  /\ pc = "allLock" /\ ~locked[cur]
  /\ IF MustWait(cur)
     THEN pc' = "allCond" /\ UNCHANGED <<cur, idx, waited>>
     ELSE NextRound("allLock", "idle") /\ waited' = (idx = Len(req_list))
  /\ UNCHANGED <<requestVars, req_list, aio, callback, fdTable>>

\* pthread_cond_wait may return with no signal.
SpuriousResume ==
  /\ pc = "allCond"
  /\ pc' = "allLock"
  /\ UNCHANGED <<requestVars, req_list, cur, idx, waited, aio, callback, fdTable>>

CancelAll ==
  /\ Loop("cancelAll", "cancelAll")
  /\ UNCHANGED <<requestVars, req_list, waited, aio, callback, fdTable>>

CancelNext ==
  /\ pc = "cancelAll"
  /\ AioCancel(cur)
  /\ NextRound("cancelAll", "idle")
  /\ UNCHANGED <<requestVars, req_list, waited, fdTable>>

ReleaseAll ==
  /\ Loop("release", "release")
  /\ UNCHANGED <<requestVars, req_list, waited, aio, callback, fdTable>>

\* mutant: the descriptor is not closed
CloseLeft_Forgotten(r) == UNCHANGED fdTable

CloseLeft(r) == IF fildes[r] # NoFd THEN Close(fildes[r]) ELSE UNCHANGED fdTable

\* Cancel the request if it is SUBMITTED, close its descriptor, free its
\* buffer and the request itself.  A callback that is still to come reads freed
\* memory; the model lets it find there what the request held.
ReleaseNext ==
  /\ pc = "release" /\ ~locked[cur]
  /\ IF status[cur] = "SUBMITTED" THEN AioCancel(cur) ELSE UNCHANGED <<aio, callback>>
  /\ CloseLeft(cur)
  /\ fildes' = [fildes EXCEPT ![cur] = NoFd]
  /\ DropBuffer(cur)
  /\ exists' = [exists EXCEPT ![cur] = FALSE]
  /\ req_list' = [req_list EXCEPT ![idx] = NULL]
  /\ NextRound("release", "released")
  /\ UNCHANGED <<status, fd, locked, waited>>

AppStep ==
  \/ PutStatus
  \/ WaitFinished
  \/ CancelLock
  \/ AllLock
  \/ CancelNext
  \/ ReleaseNext

-----------------------------------------------------------------------------

AioInit ==
  /\ status = [r \in Requests |-> "NONE"]
  /\ fd = [r \in Requests |-> NoFd] /\ fildes = [r \in Requests |-> NoFd]
  /\ buf = [r \in Requests |-> "NULL"] /\ heap = [r \in Requests |-> "none"]
  /\ locked = [r \in Requests |-> FALSE] /\ exists = [r \in Requests |-> FALSE]
  /\ req_list = <<>> /\ pc = "idle" /\ cur = NULL /\ idx = 0 /\ waited = FALSE
  /\ aio = [r \in Requests |-> "none"] /\ callback = [r \in Requests |-> "none"]
  /\ fdTable = [n \in Fds |-> NULL]

AioNext ==
  \/ \E r \in Requests :
       \/ GetRequest(r) \/ AttachBuffer(r) \/ PutSubmit(r) \/ PutFail(r)
       \/ WaitRequest(r) \/ CancelRequest(r)
       \/ AioBegin(r) \/ AioFinish(r) \/ Callback(r)
  \/ WaitAll \/ CancelAll \/ ReleaseAll
  \/ AppStep \/ WaitTimedOut \/ SpuriousResume

AioSpec == AioInit /\ [][AioNext]_aioVars

\* The library works on what it was given, its threads are scheduled, and so
\* is the application thread inside a call.  Timeouts are not counted on.
AioFairness ==
  /\ \A r \in Requests : WF_aioVars(AioBegin(r)) /\ WF_aioVars(AioFinish(r))
  /\ \A r \in Requests : WF_aioVars(Callback(r))
  /\ WF_aioVars(AppStep)

FairAioSpec == AioSpec /\ AioFairness

-----------------------------------------------------------------------------
(* Properties *)

\* The type of every variable.  In particular no memory is freed twice,
\* although putRequest, cancelRequest, releaseAll and the callback all free it.
AioTypeOK ==
  /\ status \in [Requests -> {"NONE", "INIT", "SUBMITTED", "IOSUCCESS", "CANCEL"}]
  /\ fd \in [Requests -> Fds \cup {NoFd}] /\ fildes \in [Requests -> Fds \cup {NoFd}]
  /\ buf \in [Requests -> {"NULL", "USER", "HEAP"}]
  /\ heap \in [Requests -> {"none", "live", "freed"}]
  /\ locked \in [Requests -> BOOLEAN] /\ exists \in [Requests -> BOOLEAN]
  /\ req_list \in Seq(Requests \cup {NULL})
  /\ pc \in {"idle", "put", "suspend", "cancel", "allLock", "allCond", "cancelAll",
             "release", "released"}
  /\ cur \in Requests \cup {NULL} /\ idx \in Nat /\ waited \in BOOLEAN
  /\ aio \in [Requests -> {"none", "queued", "running", "done", "error", "canceled"}]
  /\ callback \in [Requests -> {"none", "pending", "close1", "close2", "done"}]
  /\ fdTable \in [Fds -> Requests \cup {NULL}]

\* The library works on the request, or is still to notify of it.
Unfinished(r) == InFlight(r) \/ callback[r] = "pending"

\* An application that calls waitAll before releaseAll, with no put in between, frees
\* no request whose callback is still to run, but for one that it has cancelled.
NoCallbackAfterFree ==
  waited => \A r \in Requests : Unfinished(r) /\ ~exists[r] => status[r] = "CANCEL"

\* The library reads or writes a write buffer that was freed only of a request that
\* was cancelled, or released by an application that has not waited for it.
BufferLiveDuringIO ==
  \A r \in Requests :
    aio[r] = "running" /\ heap[r] = "freed" =>
      status[r] = "CANCEL" \/ (~exists[r] /\ ~waited)

\* The stage of a request as its owner sees it; it is pending until putRequest
\* has stored SUBMITTED, even if the callback came first.
Stage(r) ==
  IF pc = "put" /\ cur = r THEN "pending"
  ELSE CASE status[r] = "NONE" -> "unused"
         [] status[r] = "INIT" -> "ready"
         [] status[r] = "SUBMITTED" -> "pending"
         [] status[r] = "IOSUCCESS" -> "success"
         [] status[r] = "CANCEL" -> "cancelled"

\* A success that was reported stays: a finished request cannot be cancelled.
SuccessIsFinal ==
  [][\A r \in Requests : Stage(r) = "success" => Stage(r)' = "success"]_aioVars

\* releaseAll leaves no descriptor open of any request on the list.
ReleaseClosesAll ==
  pc = "released" => \A n \in Fds : fdTable[n] # NULL => exists[fdTable[n]]

\* Every call but waitAll returns.
EveryCallReturns ==
  pc \in {"put", "suspend", "cancel", "cancelAll", "release"}
    ~> pc \in {"idle", "released"}

\* A request the callback has left SUBMITTED: its I/O failed or was cancelled, or
\* putRequest stored the status after the callback did.
Stale(r) == status[r] = "SUBMITTED" /\ callback[r] = "done"

\* waitAll ends, unless it comes to such a request: no lost signal keeps it, no lock,
\* and no request that was cancelled or whose success was reported.
WaitAllEnds ==
  pc \in {"allLock", "allCond"} ~> pc \notin {"allLock", "allCond"} \/ Stale(cur)

\* waitAll sleeps for a request that is not SUBMITTED any more only while its
\* callback is still to give the signal.
WakeupComes ==
  pc = "allCond" /\ status[cur] # "SUBMITTED" => callback[cur] \in {"close1", "close2"}

\* The descriptor of a request in flight, if open succeeded, is open for that
\* request.
DescriptorInFlight ==
  \A r \in Requests : InFlight(r) /\ fildes[r] # NoFd => fdTable[fildes[r]] = r

=============================================================================
