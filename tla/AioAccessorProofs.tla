------------------------- MODULE AioAccessorProofs -------------------------
(***************************************************************************)
(* Proofs about AioAccessor, for any number of requests and descriptors    *)
(* and every application: the types, with which no memory is freed twice;  *)
(* that releaseAll leaves no descriptor open and waitAll misses no signal; *)
(* and of which requests alone a callback or the library's I/O may meet    *)
(* what was freed.                                                         *)
(***************************************************************************)
EXTENDS AioAccessor, TLAPS

Loops == {"allLock", "allCond", "cancelAll", "release"}

\* Where a loop over the list is, and which memory may be freed.
TypeInv ==
  /\ AioTypeOK
  /\ pc \in Loops => idx \in 1..Len(req_list) /\ cur = req_list[idx]
  /\ pc \in {"put", "suspend", "cancel"} => cur \in Requests
  /\ \A r \in Requests : buf[r] = "HEAP" => heap[r] = "live"

\* A round of a loop ends inside the list.
LEMMA NextRoundStays ==
  ASSUME TypeInv, NEW at \in Loops, NEW last, pc \in Loops, NextRound(at, last)
  PROVE  /\ idx' \in Nat /\ cur' \in Requests \cup {NULL} /\ pc' \in {at, last}
         /\ \/ pc' = last /\ idx = Len(req_list) /\ UNCHANGED <<idx, cur>>
            \/ /\ pc' = at /\ idx < Len(req_list) /\ idx' = idx + 1
               /\ cur' = req_list[idx + 1] /\ idx' \in 1..Len(req_list)
<1>1. /\ Len(req_list) \in Nat /\ idx \in 1..Len(req_list)
      /\ \A i \in 1..Len(req_list) : req_list[i] \in Requests \cup {NULL}
      /\ cur \in Requests \cup {NULL}
  BY DEF TypeInv, AioTypeOK
<1>2. CASE idx < Len(req_list)
  BY <1>1, <1>2 DEF NextRound
<1>3. CASE ~(idx < Len(req_list))
  BY <1>1, <1>3 DEF NextRound
<1> QED
  BY <1>2, <1>3

\* The memory of a write buffer is freed once: with it the pointer is forgotten.
LEMMA DropBufferType ==
  ASSUME TypeInv, NEW r \in Requests \cup {NULL}, DropBuffer(r)
  PROVE  /\ buf' \in [Requests -> {"NULL", "USER", "HEAP"}]
         /\ heap' \in [Requests -> {"none", "live", "freed"}]
         /\ \A q \in Requests : buf'[q] = "HEAP" => heap'[q] = "live"
         /\ \A q \in Requests \ {r} : buf'[q] = buf[q] /\ heap'[q] = heap[q]
<1>1. /\ buf \in [Requests -> {"NULL", "USER", "HEAP"}]
      /\ heap \in [Requests -> {"none", "live", "freed"}]
      /\ \A q \in Requests : buf[q] = "HEAP" => heap[q] = "live"
  BY DEF TypeInv, AioTypeOK
<1>2. CASE r \in Requests
  BY <1>1, <1>2 DEF DropBuffer, FreeHeap
<1>3. CASE r \notin Requests
  BY <1>1, <1>3 DEF DropBuffer, FreeHeap
<1> QED
  BY <1>2, <1>3

LEMMA AioCancelType ==
  ASSUME AioTypeOK, NEW r \in Requests \cup {NULL}, AioCancel(r)
  PROVE  /\ aio' \in [Requests -> {"none", "queued", "running", "done", "error", "canceled"}]
         /\ callback' \in [Requests -> {"none", "pending", "close1", "close2", "done"}]
<1>1. /\ aio \in [Requests -> {"none", "queued", "running", "done", "error", "canceled"}]
      /\ callback \in [Requests -> {"none", "pending", "close1", "close2", "done"}]
  BY DEF AioTypeOK
<1>2. CASE UNCHANGED <<aio, callback>>
  BY <1>1, <1>2
<1>3. CASE /\ aio' = [aio EXCEPT ![r] = "canceled"]
           /\ callback' = [callback EXCEPT ![r] = "pending"]
  BY <1>1, <1>3
<1> QED
  BY <1>2, <1>3 DEF AioCancel

\* The types of what the callback shares with the application, and of the
\* application's own variables.
RequestTypes ==
  /\ status \in [Requests -> {"NONE", "INIT", "SUBMITTED", "IOSUCCESS", "CANCEL"}]
  /\ fd \in [Requests -> Fds \cup {NoFd}] /\ fildes \in [Requests -> Fds \cup {NoFd}]
  /\ locked \in [Requests -> BOOLEAN] /\ exists \in [Requests -> BOOLEAN]
  /\ aio \in [Requests -> {"none", "queued", "running", "done", "error", "canceled"}]
  /\ callback \in [Requests -> {"none", "pending", "close1", "close2", "done"}]
  /\ fdTable \in [Fds -> Requests \cup {NULL}]

BufferTypes ==
  /\ buf \in [Requests -> {"NULL", "USER", "HEAP"}]
  /\ heap \in [Requests -> {"none", "live", "freed"}]
  /\ \A r \in Requests : buf[r] = "HEAP" => heap[r] = "live"

AppTypes ==
  /\ req_list \in Seq(Requests \cup {NULL})
  /\ pc \in {"idle", "put", "suspend", "cancel", "allLock", "allCond", "cancelAll",
             "release", "released"}
  /\ cur \in Requests \cup {NULL} /\ idx \in Nat /\ waited \in BOOLEAN
  /\ pc \in Loops => idx \in 1..Len(req_list) /\ cur = req_list[idx]
  /\ pc \in {"put", "suspend", "cancel"} => cur \in Requests

LEMMA TypeParts == TypeInv <=> RequestTypes /\ BufferTypes /\ AppTypes
BY DEF TypeInv, AioTypeOK, RequestTypes, BufferTypes, AppTypes

LEMMA NextTypeInv == TypeInv /\ [AioNext]_aioVars => TypeInv'
<1> SUFFICES ASSUME TypeInv, [AioNext]_aioVars
             PROVE  TypeInv'
  OBVIOUS
<1>R. RequestTypes /\ BufferTypes /\ AppTypes
  BY TypeParts
<1>P. RequestTypes' /\ BufferTypes' /\ AppTypes' => TypeInv'
  BY TypeParts, PTL
<1>A. UNCHANGED appVars => AppTypes'
  BY <1>R DEF AppTypes, appVars
<1>B. UNCHANGED <<buf, heap>> => BufferTypes'
  BY <1>R DEF BufferTypes
\* The library and the callback.
<1>1. ASSUME NEW r \in Requests, AioBegin(r) \/ AioFinish(r)
      PROVE  TypeInv'
  <2>1. UNCHANGED <<requestVars, appVars, fdTable>>
    BY <1>1 DEF AioBegin, AioFinish
  <2>2. RequestTypes'
    BY <1>R, <1>1, <2>1 DEF AioBegin, AioFinish, RequestTypes, requestVars
  <2> QED
    BY <1>A, <1>B, <1>P, <2>1, <2>2 DEF requestVars
<1>2. ASSUME NEW r \in Requests, CallbackResult(r)
      PROVE  TypeInv'
  <2>1. BufferTypes' /\ UNCHANGED appVars
    BY <1>2, DropBufferType DEF CallbackResult, BufferTypes
  <2>2. RequestTypes'
    BY <1>R, <1>2 DEF CallbackResult, RequestTypes
  <2> QED
    BY <1>A, <1>P, <2>1, <2>2
<1>3. ASSUME NEW r \in Requests, CallbackCloseFd(r)
      PROVE  TypeInv'
  <2>1. UNCHANGED <<buf, heap, appVars>>
    BY <1>3 DEF CallbackCloseFd
  <2>2. fdTable' \in [Fds -> Requests \cup {NULL}]
    BY <1>R, <1>3 DEF CallbackCloseFd, Close, RequestTypes
  <2>3. RequestTypes'
    BY <1>R, <1>3, <2>2 DEF CallbackCloseFd, RequestTypes, NoFd
  <2> QED
    BY <1>A, <1>B, <1>P, <2>1, <2>3
<1>4. ASSUME NEW r \in Requests, CallbackCloseFildes(r)
      PROVE  TypeInv'
  <2>1. UNCHANGED <<buf, heap, req_list, cur, idx, waited>>
    BY <1>4 DEF CallbackCloseFildes
  <2>2. fdTable' \in [Fds -> Requests \cup {NULL}]
    BY <1>R, <1>4 DEF CallbackCloseFildes, Close, RequestTypes
  <2>3. RequestTypes'
    BY <1>R, <1>4, <2>2 DEF CallbackCloseFildes, RequestTypes, NoFd, Unlock
  <2>4. UNCHANGED pc \/ (pc = "allCond" /\ pc' = "allLock")
    BY <1>4 DEF CallbackCloseFildes, WakeApp
  <2>5. AppTypes'
    BY <1>R, <2>1, <2>4 DEF AppTypes, Loops
  <2> QED
    BY <1>B, <1>P, <2>1, <2>3, <2>5
\* The application's calls on one request.
<1>5. ASSUME NEW r \in Requests, GetRequest(r)
      PROVE  TypeInv'
  <2>1. UNCHANGED <<buf, heap, appVars>>
    BY <1>5 DEF GetRequest
  <2>2. /\ fdTable' \in [Fds -> Requests \cup {NULL}]
        /\ fd' \in [Requests -> Fds \cup {NoFd}] /\ fildes' \in [Requests -> Fds \cup {NoFd}]
    BY <1>R, <1>5 DEF GetRequest, RequestTypes
  <2>3. RequestTypes'
    BY <1>R, <1>5, <2>2 DEF GetRequest, RequestTypes
  <2> QED
    BY <1>A, <1>B, <1>P, <2>1, <2>3
<1>6. ASSUME NEW r \in Requests, AttachBuffer(r)
      PROVE  TypeInv'
  <2>1. RequestTypes' /\ UNCHANGED appVars
    BY <1>R, <1>6 DEF AttachBuffer, RequestTypes
  <2>2. BufferTypes'
    BY <1>R, <1>6 DEF AttachBuffer, BufferTypes
  <2> QED
    BY <1>A, <1>P, <2>1, <2>2
<1> USE DEF TypeInv, AioTypeOK, requestVars, appVars, Loops
<1>7. ASSUME NEW r \in Requests, PutSubmit(r)
      PROVE  TypeInv'
  BY <1>7 DEF PutSubmit, CanPut, Ready
<1>8. ASSUME NEW r \in Requests, PutFail(r)
      PROVE  TypeInv'
  <2>1. /\ buf' \in [Requests -> {"NULL", "USER", "HEAP"}]
        /\ heap' \in [Requests -> {"none", "live", "freed"}]
        /\ \A q \in Requests : buf'[q] = "HEAP" => heap'[q] = "live"
    BY <1>8, DropBufferType DEF PutFail
  <2> QED
    BY <1>8, <2>1 DEF PutFail, CanPut, Ready
<1>9. ASSUME PutStatus
      PROVE  TypeInv'
  <2>1. cur \in Requests
    BY <1>9 DEF PutStatus
  <2>2. Append(req_list, cur) \in Seq(Requests \cup {NULL})
    BY <2>1
  <2>3. req_list' \in Seq(Requests \cup {NULL})
    BY <1>9, <2>2 DEF PutStatus
  <2> QED
    BY <1>9, <2>3 DEF PutStatus
<1>10. ASSUME NEW r \in Requests, WaitRequest(r) \/ CancelRequest(r)
       PROVE  TypeInv'
  BY <1>10 DEF WaitRequest, CancelRequest, Ready
<1>11. ASSUME WaitFinished \/ WaitTimedOut
       PROVE  TypeInv'
  BY <1>11 DEF WaitFinished, WaitTimedOut, WaitReturn
<1>12. ASSUME CancelLock
       PROVE  TypeInv'
  <2>1. cur \in Requests
    BY <1>12 DEF CancelLock
  <2> QED
    BY <1>12, <2>1, DropBufferType, AioCancelType DEF CancelLock
\* The loops over the list.
<1>13. ASSUME WaitAll \/ CancelAll \/ ReleaseAll
       PROVE  TypeInv'
  <2>1. /\ pc' \in Loops /\ idx' = 1 /\ cur' = req_list[1]
        /\ Len(req_list) \in Nat \ {0} /\ cur' \in Requests \cup {NULL}
    BY <1>13 DEF WaitAll, CancelAll, ReleaseAll, Loop
  <2> QED
    BY <1>13, <2>1 DEF WaitAll, CancelAll, ReleaseAll, Loop
<1>14. ASSUME AllLock
       PROVE  TypeInv'
  <2>1. CASE MustWait(cur)
    BY <1>14, <2>1 DEF AllLock
  <2>2. CASE ~MustWait(cur)
    BY <1>14, <2>2, NextRoundStays DEF AllLock
  <2> QED
    BY <2>1, <2>2
<1>15. ASSUME SpuriousResume
       PROVE  TypeInv'
  BY <1>15 DEF SpuriousResume
<1>16. ASSUME CancelNext
       PROVE  TypeInv'
  <2>1. /\ idx' \in Nat /\ cur' \in Requests \cup {NULL} /\ pc' \in {"cancelAll", "idle"}
        /\ pc' = "cancelAll" => idx' \in 1..Len(req_list) /\ cur' = req_list[idx']
    BY <1>16, NextRoundStays DEF CancelNext
  <2> QED
    BY <1>16, <2>1, AioCancelType DEF CancelNext
<1>17. ASSUME ReleaseNext
       PROVE  TypeInv'
  <2>1. /\ cur \in Requests \cup {NULL} /\ DropBuffer(cur) /\ idx \in 1..Len(req_list)
        /\ req_list \in Seq(Requests \cup {NULL})
    BY <1>17 DEF ReleaseNext
  <2>2. /\ buf' \in [Requests -> {"NULL", "USER", "HEAP"}]
        /\ heap' \in [Requests -> {"none", "live", "freed"}]
        /\ \A q \in Requests : buf'[q] = "HEAP" => heap'[q] = "live"
    BY <2>1, DropBufferType
  <2>3. /\ aio' \in [Requests -> {"none", "queued", "running", "done", "error", "canceled"}]
        /\ callback' \in [Requests -> {"none", "pending", "close1", "close2", "done"}]
    BY <1>17, AioCancelType DEF ReleaseNext
  <2>4. req_list' = [req_list EXCEPT ![idx] = NULL]
    BY <1>17 DEF ReleaseNext
  <2>5. /\ req_list' \in Seq(Requests \cup {NULL}) /\ Len(req_list') = Len(req_list)
        /\ \A i \in 1..Len(req_list) : i # idx => req_list'[i] = req_list[i]
    BY <2>1, <2>4
  <2>6. /\ idx' \in Nat /\ cur' \in Requests \cup {NULL} /\ pc' \in {"release", "released"}
        /\ pc' = "release" => /\ idx' \in 1..Len(req_list) /\ idx' = idx + 1
                              /\ cur' = req_list[idx']
    BY <1>17, <2>1, NextRoundStays DEF ReleaseNext
  <2>7. pc' = "release" => idx' \in 1..Len(req_list') /\ cur' = req_list'[idx']
    <3> HIDE DEF TypeInv, AioTypeOK, Loops
    <3> QED
      BY <2>1, <2>5, <2>6
  <2>8. fdTable' \in [Fds -> Requests \cup {NULL}]
    <3> HIDE DEF TypeInv, AioTypeOK, Loops
    <3>1. CloseLeft(cur)
      BY <1>17 DEF ReleaseNext
    <3>2. fdTable \in [Fds -> Requests \cup {NULL}]
      BY <1>R DEF RequestTypes
    <3> QED
      BY <3>1, <3>2 DEF CloseLeft, Close
  <2>9. /\ fildes' \in [Requests -> Fds \cup {NoFd}] /\ exists' \in [Requests -> BOOLEAN]
        /\ UNCHANGED <<status, fd, locked, waited>>
    BY <1>17 DEF ReleaseNext, NoFd
  <2> QED
    BY <2>2, <2>3, <2>5, <2>6, <2>7, <2>8, <2>9
<1>18. CASE UNCHANGED aioVars
  BY <1>18 DEF aioVars
<1> QED
  <2> HIDE DEF TypeInv, AioTypeOK, requestVars, appVars
  <2> QED
    BY <1>1, <1>2, <1>3, <1>4, <1>5, <1>6, <1>7, <1>8, <1>9, <1>10, <1>11, <1>12, <1>13,
       <1>14, <1>15, <1>16, <1>17, <1>18 DEF AioNext, AppStep, Callback

LEMMA InitTypeInv == AioInit => TypeInv
<1> SUFFICES ASSUME AioInit
             PROVE  TypeInv
  OBVIOUS
<1>1. /\ req_list \in Seq(Requests \cup {NULL}) /\ pc = "idle" /\ cur = NULL /\ idx = 0
  BY DEF AioInit
<1>2. fd \in [Requests -> Fds \cup {NoFd}] /\ fildes \in [Requests -> Fds \cup {NoFd}]
  BY DEF AioInit
<1>3. /\ status \in [Requests -> {"NONE", "INIT", "SUBMITTED", "IOSUCCESS", "CANCEL"}]
      /\ buf \in [Requests -> {"NULL", "USER", "HEAP"}]
      /\ heap \in [Requests -> {"none", "live", "freed"}]
      /\ aio \in [Requests -> {"none", "queued", "running", "done", "error", "canceled"}]
      /\ callback \in [Requests -> {"none", "pending", "close1", "close2", "done"}]
      /\ \A r \in Requests : buf[r] = "NULL"
  BY DEF AioInit
<1>4. /\ locked \in [Requests -> BOOLEAN] /\ exists \in [Requests -> BOOLEAN]
      /\ waited \in BOOLEAN /\ fdTable \in [Fds -> Requests \cup {NULL}]
  BY DEF AioInit
<1> QED
  BY <1>1, <1>2, <1>3, <1>4 DEF TypeInv, AioTypeOK, Loops

\* Every variable keeps its type: above all, no memory is freed a second time,
\* in whatever order putRequest, cancelRequest, releaseAll and the callback
\* come, for whoever frees a write buffer forgets it in the same locked section.
THEOREM AioTypeCorrect == AioSpec => []AioTypeOK
<1>1. TypeInv => AioTypeOK
  BY DEF TypeInv
<1> QED
  BY InitTypeInv, NextTypeInv, <1>1, PTL DEF AioSpec

-----------------------------------------------------------------------------
(* The owner of an open descriptor, for every application                  *)

\* An open descriptor is in the control block of the request it was opened for,
\* and that request is allocated; none is before getRequest.
OwnerInv ==
  /\ \A n \in Fds, r \in Requests : fdTable[n] = r => exists[r] /\ fildes[r] = n
  /\ \A r \in Requests : exists[r] => status[r] # "NONE"

\* A close of one descriptor opens none, and takes no request's but its own.
LEMMA CloseOnly ==
  ASSUME TypeInv, NEW m, Close(m)
  PROVE  \A n \in Fds, r \in Requests : fdTable'[n] = r => fdTable[n] = r /\ n # m
BY AioAssumption DEF TypeInv, AioTypeOK, AioAssumption, Close

LEMMA NextOwnerInv ==
  ASSUME TypeInv, OwnerInv, [AioNext]_aioVars
  PROVE  OwnerInv'
<1> USE DEF OwnerInv, requestVars, appVars
<1>T. /\ status \in [Requests -> {"NONE", "INIT", "SUBMITTED", "IOSUCCESS", "CANCEL"}]
      /\ fd \in [Requests -> Fds \cup {NoFd}] /\ fildes \in [Requests -> Fds \cup {NoFd}]
      /\ exists \in [Requests -> BOOLEAN] /\ fdTable \in [Fds -> Requests \cup {NULL}]
      /\ NULL \notin Requests /\ NumFds \in Nat
  BY AioAssumption DEF TypeInv, AioTypeOK, AioAssumption
\* Most steps leave the descriptors, and the request they are of, alone.
<1>1. ASSUME UNCHANGED <<fdTable, exists, fildes>>,
             \A r \in Requests : status'[r] = "NONE" => status[r] = "NONE"
      PROVE  OwnerInv'
  BY <1>1
<1>2. ASSUME NEW r \in Requests,
             \/ AioBegin(r) \/ AioFinish(r) \/ CallbackResult(r) \/ AttachBuffer(r)
             \/ PutSubmit(r) \/ PutFail(r) \/ WaitRequest(r) \/ CancelRequest(r)
      PROVE  OwnerInv'
  <2>1. /\ UNCHANGED <<fdTable, exists, fildes>>
        /\ \A q \in Requests : status'[q] = "NONE" => status[q] = "NONE"
    BY <1>2, <1>T DEF AioBegin, AioFinish, CallbackResult, AttachBuffer, PutSubmit, PutFail,
                      WaitRequest, CancelRequest
  <2> QED
    BY <1>1, <2>1
<1>3. ASSUME \/ PutStatus \/ WaitFinished \/ WaitTimedOut \/ CancelLock \/ WaitAll
             \/ AllLock \/ SpuriousResume \/ CancelAll \/ CancelNext \/ ReleaseAll
             \/ UNCHANGED aioVars
      PROVE  OwnerInv'
  <2>1. /\ UNCHANGED <<fdTable, exists, fildes>>
        /\ \A q \in Requests : status'[q] = "NONE" => status[q] = "NONE"
    BY <1>3, <1>T DEF PutStatus, WaitFinished, WaitTimedOut, WaitReturn, CancelLock, WaitAll,
                      AllLock, SpuriousResume, CancelAll, CancelNext, ReleaseAll, aioVars
  <2> QED
    BY <1>1, <2>1
\* The callback closes the descriptor that fd names, whoever holds it now.
<1>4. ASSUME NEW r \in Requests, CallbackCloseFd(r)
      PROVE  OwnerInv'
  <2>1. \A n \in Fds, q \in Requests : fdTable'[n] = q => fdTable[n] = q
    BY <1>4, CloseOnly DEF CallbackCloseFd
  <2> QED
    BY <1>4, <2>1 DEF CallbackCloseFd
\* It forgets a descriptor only when it has closed it.
<1>5. ASSUME NEW r \in Requests, CallbackCloseFildes(r)
      PROVE  OwnerInv'
  <2>1. /\ \A n \in Fds, q \in Requests : fdTable'[n] = q => fdTable[n] = q
        /\ \A n \in Fds : fdTable'[n] = r => fildes[r] # n
    BY <1>5, <1>T, CloseOnly DEF CallbackCloseFildes, Fds
  <2>2. /\ \A q \in Requests \ {r} : fildes'[q] = fildes[q]
        /\ UNCHANGED <<exists, status>>
    BY <1>5, <1>T DEF CallbackCloseFildes
  <2> QED
    BY <2>1, <2>2
\* getRequest opens one for a request that has none.
<1>6. ASSUME NEW r \in Requests, GetRequest(r)
      PROVE  OwnerInv'
  <2>1. /\ status[r] = "NONE" /\ \A n \in Fds : fdTable[n] # r
        /\ exists' = [exists EXCEPT ![r] = TRUE] /\ status' = [status EXCEPT ![r] = "INIT"]
    BY <1>6 DEF GetRequest
  <2>2. CASE UNCHANGED <<fdTable, fildes>>
    BY <1>T, <2>1, <2>2
  <2>3. CASE \E n \in Fds : /\ fdTable' = [fdTable EXCEPT ![n] = r]
                            /\ fildes' = [fildes EXCEPT ![r] = n]
    BY <1>T, <2>1, <2>3
  <2> QED
    BY <1>6, <2>2, <2>3 DEF GetRequest
\* releaseAll frees a request when it has closed its descriptor.
<1>7. ASSUME ReleaseNext
      PROVE  OwnerInv'
  <2>1. /\ CloseLeft(cur) /\ UNCHANGED status
        /\ fildes' = [fildes EXCEPT ![cur] = NoFd] /\ exists' = [exists EXCEPT ![cur] = FALSE]
    BY <1>7 DEF ReleaseNext
  <2>2. /\ \A n \in Fds, q \in Requests : fdTable'[n] = q => fdTable[n] = q
        /\ \A n \in Fds : cur \in Requests /\ fdTable'[n] = cur => fildes[cur] # n
    BY <1>T, <2>1, CloseOnly DEF CloseLeft, Fds, NoFd
  <2>3. /\ \A q \in Requests : q # cur => fildes'[q] = fildes[q] /\ exists'[q] = exists[q]
        /\ \A q \in Requests : exists'[q] => exists[q]
    BY <1>T, <2>1
  <2> QED
    BY <2>1, <2>2, <2>3
<1> QED
  <2> HIDE DEF OwnerInv, requestVars, appVars
  <2> QED
    BY <1>2, <1>3, <1>4, <1>5, <1>6, <1>7 DEF AioNext, AppStep, Callback

LEMMA InitOwnerInv == AioInit => OwnerInv
BY AioAssumption DEF AioInit, OwnerInv, AioAssumption

LEMMA OwnerInvCorrect == AioSpec => []OwnerInv
<1>1. TypeInv /\ OwnerInv /\ [AioNext]_aioVars => (TypeInv /\ OwnerInv)'
  BY NextTypeInv, NextOwnerInv
<1>2. AioInit => TypeInv /\ OwnerInv
  BY InitTypeInv, InitOwnerInv
<1> QED
  BY <1>1, <1>2, PTL DEF AioSpec

\* Whatever the application calls and in whatever order, no descriptor outlives
\* its request: when releaseAll is done, those that are open are of requests that
\* were not on its list, although a callback may by then have closed the
\* descriptor of another request, or still be going to.
THEOREM ReleaseClosesAllCorrect == AioSpec => []ReleaseClosesAll
<1>1. TypeInv /\ OwnerInv => ReleaseClosesAll
  BY DEF TypeInv, AioTypeOK, OwnerInv, ReleaseClosesAll
<1>2. AioSpec => []TypeInv
  BY InitTypeInv, NextTypeInv, PTL DEF AioSpec
<1> QED
  BY OwnerInvCorrect, <1>1, <1>2, PTL

-----------------------------------------------------------------------------
(* The locks and the wakeup of waitAll, for every application              *)

\* The callback holds the lock until it signals; until releaseAll the list has
\* requests only; waitAll, which holds up the application, sleeps for one that is
\* SUBMITTED, or whose callback has made it IOSUCCESS and holds its lock.
WakeupInv ==
  /\ \A r \in Requests : locked[r] <=> callback[r] \in {"close1", "close2"}
  /\ \A r \in Requests : callback[r] # "none" => ~InFlight(r)
  /\ \A r \in Requests : status[r] = "NONE" => aio[r] = "none"
  /\ \A r \in Requests : status[r] = "INIT" => aio[r] = "none" \/ (pc = "put" /\ cur = r)
  /\ \A r \in Requests : aio[r] = "none" => callback[r] = "none"
  /\ pc \notin {"release", "released"} => \A i \in 1..Len(req_list) : req_list[i] \in Requests
  /\ pc = "allCond" => status[cur] = "SUBMITTED" \/ locked[cur]

LEMMA NextWakeupInv ==
  ASSUME TypeInv, WakeupInv, [AioNext]_aioVars
  PROVE  WakeupInv'
<1>T. pc \in {"allLock", "allCond"} => cur \in Requests
  BY DEF TypeInv, WakeupInv, Loops
<1> USE DEF TypeInv, AioTypeOK, WakeupInv, InFlight, requestVars, appVars
<1>1. ASSUME NEW r \in Requests, AioBegin(r) \/ AioFinish(r)
      PROVE  WakeupInv'
  BY <1>1 DEF AioBegin, AioFinish
\* The callback takes the lock with its news, and gives it up with the signal.
<1>2. ASSUME NEW r \in Requests, CallbackResult(r)
      PROVE  WakeupInv'
  BY <1>T, <1>2 DEF CallbackResult
<1>3. ASSUME NEW r \in Requests, CallbackCloseFd(r)
      PROVE  WakeupInv'
  BY <1>3 DEF CallbackCloseFd
<1>4. ASSUME NEW r \in Requests, CallbackCloseFildes(r)
      PROVE  WakeupInv'
  BY <1>T, <1>4 DEF CallbackCloseFildes, WakeApp, Unlock
<1>5. ASSUME NEW r \in Requests, GetRequest(r) \/ AttachBuffer(r)
      PROVE  WakeupInv'
  BY <1>5 DEF GetRequest, AttachBuffer, Ready
<1>6. ASSUME NEW r \in Requests, PutSubmit(r)
      PROVE  WakeupInv'
  BY <1>6 DEF PutSubmit, CanPut, Ready
<1>7. ASSUME NEW r \in Requests, PutFail(r)
      PROVE  WakeupInv'
  BY <1>7 DEF PutFail, CanPut, Ready
<1>8. ASSUME PutStatus
      PROVE  WakeupInv'
  <2>1. /\ cur \in Requests /\ pc' = "idle" /\ UNCHANGED <<locked, aio, callback>>
        /\ status' = [status EXCEPT ![cur] = "SUBMITTED"]
        /\ req_list' = req_list \/ req_list' = Append(req_list, cur)
    BY <1>8 DEF PutStatus
  <2>2. \A i \in 1..Len(req_list') : req_list'[i] \in Requests
    BY <1>8, <2>1 DEF PutStatus
  <2> QED
    BY <1>8, <2>1, <2>2 DEF PutStatus
<1>9. ASSUME NEW r \in Requests, WaitRequest(r) \/ CancelRequest(r)
      PROVE  WakeupInv'
  BY <1>9 DEF WaitRequest, CancelRequest, Ready
<1>10. ASSUME WaitFinished \/ WaitTimedOut \/ SpuriousResume
       PROVE  WakeupInv'
  BY <1>10 DEF WaitFinished, WaitTimedOut, WaitReturn, SpuriousResume
<1>11. ASSUME CancelLock
       PROVE  WakeupInv'
  BY <1>11 DEF CancelLock, AioCancel
<1>12. ASSUME WaitAll \/ CancelAll \/ ReleaseAll
       PROVE  WakeupInv'
  BY <1>12 DEF WaitAll, CancelAll, ReleaseAll, Loop, Ready
<1>13. ASSUME AllLock
       PROVE  WakeupInv'
  <2>1. /\ UNCHANGED <<requestVars, aio, callback, req_list>> /\ pc = "allLock"
        /\ cur \in Requests /\ pc' \in {"allLock", "allCond", "idle"}
    BY <1>T, <1>13 DEF AllLock, NextRound
  <2>2. pc' = "allCond" => status[cur] = "SUBMITTED" /\ cur' = cur
    BY <1>13 DEF AllLock, MustWait, NextRound
  <2> QED
    BY <2>1, <2>2
<1>14. ASSUME CancelNext
       PROVE  WakeupInv'
  BY <1>14 DEF CancelNext, NextRound, AioCancel
<1>15. ASSUME ReleaseNext
       PROVE  WakeupInv'
  <2>1. /\ pc = "release" /\ pc' \in {"release", "released"} /\ UNCHANGED <<status, locked>>
    BY <1>15 DEF ReleaseNext, NextRound
  <2>2. \/ UNCHANGED <<aio, callback>>
        \/ /\ aio[cur] = "queued" /\ ~locked[cur] /\ status[cur] = "SUBMITTED"
           /\ aio' = [aio EXCEPT ![cur] = "canceled"]
           /\ callback' = [callback EXCEPT ![cur] = "pending"]
    BY <1>15 DEF ReleaseNext, AioCancel
  <2>3. CASE UNCHANGED <<aio, callback>>
    BY <2>1, <2>3
  <2>4. CASE ~UNCHANGED <<aio, callback>>
    <3>1. /\ aio[cur] = "queued" /\ ~locked[cur] /\ status[cur] = "SUBMITTED"
          /\ \A r \in Requests : r # cur => aio'[r] = aio[r] /\ callback'[r] = callback[r]
          /\ cur \in Requests => aio'[cur] = "canceled" /\ callback'[cur] = "pending"
      BY <2>2, <2>4
    <3>2. \A r \in Requests : r # cur => aio'[r] = aio[r] /\ callback'[r] = callback[r]
      BY <3>1
    <3> QED
      BY <2>1, <3>1, <3>2
  <2> QED
    BY <2>3, <2>4
<1>16. CASE UNCHANGED aioVars
  BY <1>16 DEF aioVars
<1> QED
  <2> HIDE DEF TypeInv, AioTypeOK, WakeupInv, InFlight, requestVars, appVars
  <2> QED
    BY <1>1, <1>2, <1>3, <1>4, <1>5, <1>6, <1>7, <1>8, <1>9, <1>10, <1>11, <1>12, <1>13,
       <1>14, <1>15, <1>16 DEF AioNext, AppStep, Callback

\* No wakeup of waitAll is lost, whatever the application calls: when it sleeps for
\* a request whose status has changed, the callback that changed it is still inside
\* its section, at the end of which it signals.
THEOREM WakeupComesCorrect == AioSpec => []WakeupComes
<1>1. AioInit => WakeupInv
  BY DEF AioInit, WakeupInv, InFlight
<1>2. TypeInv /\ WakeupInv /\ [AioNext]_aioVars => (TypeInv /\ WakeupInv)'
  BY NextTypeInv, NextWakeupInv
<1>3. TypeInv /\ WakeupInv => WakeupComes
  BY DEF TypeInv, WakeupInv, WakeupComes, Loops
<1> QED
  BY InitTypeInv, <1>1, <1>2, <1>3, PTL DEF AioSpec

\* The callback is at one of its two calls of close, which wait for nobody.
InCallback(r) == callback[r] \in {"close1", "close2"}

\* No call of the application blocks on a mutex that stays locked, whatever calls it
\* makes: a request's lock is held by its callback, which can go on to the unlock.
THEOREM LockHolderGoesOn ==
  AioSpec => [](\A r \in Requests : locked[r] => InCallback(r))
<1>1. AioInit => WakeupInv
  BY DEF AioInit, WakeupInv, InFlight
<1>2. TypeInv /\ WakeupInv /\ [AioNext]_aioVars => (TypeInv /\ WakeupInv)'
  BY NextTypeInv, NextWakeupInv
<1>3. WakeupInv => \A r \in Requests : locked[r] => InCallback(r)
  BY DEF WakeupInv, InCallback
<1> QED
  BY InitTypeInv, <1>1, <1>2, <1>3, PTL DEF AioSpec

-----------------------------------------------------------------------------
(* What is freed while the library works on a request                      *)

InPut(r) == pc = "put" /\ cur = r

\* The library has not heard of the request yet.
Fresh(r) == status[r] \in {"NONE", "INIT"} /\ ~InPut(r)

\* How far the library and the callback have come with each request, and what may be
\* freed meanwhile: the request itself only in releaseAll, after a waitAll only if it
\* was cancelled; its buffer only by a cancellation, or with the request.
RequestInv ==
  \A r \in Requests :
    /\ Fresh(r) => aio[r] = "none" /\ callback[r] = "none" /\ heap[r] # "freed"
    /\ callback[r] # "none" => ~InFlight(r)
    /\ locked[r] <=> callback[r] \in {"close1", "close2"}
    /\ status[r] = "IOSUCCESS" => callback[r] \in {"close1", "close2", "done"}
    /\ status[r] = "INIT" => exists[r]
    /\ InPut(r) => status[r] \in {"INIT", "IOSUCCESS"} /\ exists[r]
    /\ pc \notin {"release", "released"} /\ Unfinished(r) => exists[r]
    /\ waited /\ Unfinished(r) /\ ~exists[r] => status[r] = "CANCEL"
    /\ InFlight(r) /\ heap[r] = "freed" => status[r] = "CANCEL" \/ ~exists[r]

\* What waitAll has passed is not SUBMITTED, and what releaseAll has yet to free is on
\* the list.
ListInv ==
  /\ pc \notin {"release", "released"} => \A i \in 1..Len(req_list) : req_list[i] \in Requests
  /\ pc = "release" => \A i \in idx..Len(req_list) : req_list[i] \in Requests
  /\ \A i \in 1..Len(req_list) :
       req_list[i] \in Requests => status[req_list[i]] \in {"SUBMITTED", "IOSUCCESS", "CANCEL"}
  /\ waited => \A i \in 1..Len(req_list) :
                 req_list[i] \in Requests => status[req_list[i]] # "SUBMITTED"
  /\ pc = "put" => ~waited
  /\ pc \in {"allLock", "allCond"} => \A i \in 1..(idx - 1) : status[req_list[i]] # "SUBMITTED"

LEMMA NextRequestInv ==
  ASSUME TypeInv, RequestInv, ListInv, [AioNext]_aioVars
  PROVE  RequestInv'
<1> USE DEF TypeInv, AioTypeOK, RequestInv, Fresh, InPut, InFlight, Unfinished,
           requestVars, appVars
<1>1. ASSUME NEW r \in Requests, AioBegin(r) \/ AioFinish(r)
      PROVE  RequestInv'
  BY <1>1 DEF AioBegin, AioFinish
<1>2. ASSUME NEW r \in Requests, CallbackResult(r)
      PROVE  RequestInv'
  BY <1>2 DEF CallbackResult, DropBuffer, FreeHeap
<1>3. ASSUME NEW r \in Requests, CallbackCloseFd(r)
      PROVE  RequestInv'
  BY <1>3 DEF CallbackCloseFd
<1>4. ASSUME NEW r \in Requests, CallbackCloseFildes(r)
      PROVE  RequestInv'
  BY <1>4 DEF CallbackCloseFildes, WakeApp, Unlock
<1>5. ASSUME NEW r \in Requests, GetRequest(r)
      PROVE  RequestInv'
  BY <1>5 DEF GetRequest, Ready
<1>6. ASSUME NEW r \in Requests, AttachBuffer(r)
      PROVE  RequestInv'
  BY <1>6 DEF AttachBuffer, Ready
<1>7. ASSUME NEW r \in Requests, PutSubmit(r)
      PROVE  RequestInv'
  BY <1>7 DEF PutSubmit, CanPut, Ready
<1>8. ASSUME NEW r \in Requests, PutFail(r)
      PROVE  RequestInv'
  BY <1>8 DEF PutFail, CanPut, Ready, DropBuffer, FreeHeap
<1>9. ASSUME PutStatus
      PROVE  RequestInv'
  BY <1>9 DEF PutStatus, ListInv
<1>10. ASSUME NEW r \in Requests, WaitRequest(r)
       PROVE  RequestInv'
  BY <1>10 DEF WaitRequest, Ready
<1>11. ASSUME WaitFinished \/ WaitTimedOut \/ SpuriousResume
       PROVE  RequestInv'
  BY <1>11 DEF WaitFinished, WaitTimedOut, WaitReturn, SpuriousResume
<1>12. ASSUME WaitAll \/ CancelAll \/ ReleaseAll
       PROVE  RequestInv'
  BY <1>12 DEF WaitAll, CancelAll, ReleaseAll, Loop, Ready
<1>13. ASSUME AllLock
       PROVE  RequestInv'
  BY <1>13 DEF AllLock, NextRound
<1>14. ASSUME CancelNext
       PROVE  RequestInv'
  BY <1>14 DEF CancelNext, NextRound, AioCancel
\* After a waitAll the request that releaseAll frees is cancelled, or its callback has
\* come, and as the lock is free is over.
<1>15. ASSUME ReleaseNext
       PROVE  RequestInv'
  <2>1. /\ cur \in Requests /\ pc = "release" /\ ~locked[cur]
        /\ waited => status[cur] = "CANCEL" \/ ~Unfinished(cur)
    BY <1>15 DEF ReleaseNext, ListInv, Loops
  <2>2. /\ UNCHANGED <<status, fd, locked, waited>>
        /\ exists' = [exists EXCEPT ![cur] = FALSE]
        /\ pc' \in {"release", "released"}
    BY <1>15 DEF ReleaseNext, NextRound
  <2>3. /\ \/ UNCHANGED <<aio, callback>>
           \/ /\ aio[cur] = "queued"
              /\ aio' = [aio EXCEPT ![cur] = "canceled"]
              /\ callback' = [callback EXCEPT ![cur] = "pending"]
        /\ \/ UNCHANGED heap
           \/ heap' = [heap EXCEPT ![cur] = IF @ = "live" THEN "freed" ELSE "double"]
        /\ status[cur] # "SUBMITTED" => UNCHANGED <<aio, callback>>
    BY <1>15 DEF ReleaseNext, DropBuffer, FreeHeap, AioCancel
  <2>4. ~Fresh(cur)
    BY <1>15 DEF ReleaseNext, ListInv, Loops
  <2> QED
    BY <2>1, <2>2, <2>3, <2>4
<1>16. CASE UNCHANGED aioVars
  BY <1>16 DEF aioVars
<1>17. ASSUME NEW r \in Requests, CancelRequest(r)
       PROVE  RequestInv'
  BY <1>17 DEF CancelRequest, Ready
<1>18. ASSUME CancelLock
       PROVE  RequestInv'
  BY <1>18 DEF CancelLock, AioCancel, DropBuffer, FreeHeap
<1> QED
  <2> HIDE DEF TypeInv, AioTypeOK, RequestInv, Fresh, InPut, InFlight, Unfinished,
           requestVars, appVars
  <2> QED
    BY <1>1, <1>2, <1>3, <1>4, <1>5, <1>6, <1>7, <1>8, <1>9, <1>10, <1>11, <1>12, <1>13,
       <1>14, <1>15, <1>16, <1>17, <1>18 DEF AioNext, AppStep, Callback

LEMMA NextListInv ==
  ASSUME TypeInv, RequestInv, ListInv, [AioNext]_aioVars
  PROVE  ListInv'
<1> USE DEF TypeInv, AioTypeOK, ListInv, requestVars, appVars
<1>1. ASSUME NEW r \in Requests,
             \/ AioBegin(r) \/ AioFinish(r) \/ CallbackCloseFd(r) \/ AttachBuffer(r)
      PROVE  ListInv'
  BY <1>1 DEF AioBegin, AioFinish, CallbackCloseFd, AttachBuffer
<1>2. ASSUME NEW r \in Requests, CallbackResult(r)
      PROVE  ListInv'
  BY <1>2 DEF CallbackResult
<1>4. ASSUME NEW r \in Requests, CallbackCloseFildes(r)
      PROVE  ListInv'
  BY <1>4 DEF CallbackCloseFildes, WakeApp
<1>5. ASSUME NEW r \in Requests, GetRequest(r)
      PROVE  ListInv'
  BY <1>5 DEF GetRequest, Ready
<1>7. ASSUME NEW r \in Requests, PutSubmit(r)
      PROVE  ListInv'
  BY <1>7 DEF PutSubmit, CanPut, Ready
<1>8. ASSUME NEW r \in Requests, PutFail(r)
      PROVE  ListInv'
  BY <1>8 DEF PutFail, CanPut, Ready
<1>9. ASSUME PutStatus
      PROVE  ListInv'
  <2>1. cur \in Requests /\ ~waited /\ pc' = "idle" /\ ~waited'
    BY <1>9 DEF PutStatus
  <2>2. CASE UNCHANGED req_list
    BY <1>9, <2>1, <2>2 DEF PutStatus
  <2>3. CASE req_list' = Append(req_list, cur)
    <3>1. /\ Len(req_list') = Len(req_list) + 1 /\ Len(req_list) \in Nat
          /\ req_list'[Len(req_list) + 1] = cur
          /\ \A i \in 1..Len(req_list) : req_list'[i] = req_list[i] /\ req_list[i] \in Requests
      BY <1>9, <2>1, <2>3 DEF PutStatus
    <3>2. status' = [status EXCEPT ![cur] = "SUBMITTED"]
      BY <1>9 DEF PutStatus
    <3>3. \A i \in 1..Len(req_list') : status'[req_list'[i]] \in {"SUBMITTED", "IOSUCCESS", "CANCEL"}
      BY <2>1, <3>1, <3>2
    <3>4. \A i \in 1..Len(req_list') : req_list'[i] \in Requests
      BY <2>1, <3>1
    <3> QED
      BY <2>1, <3>3, <3>4
  <2> QED
    BY <1>9, <2>2, <2>3 DEF PutStatus
<1>10. ASSUME NEW r \in Requests, WaitRequest(r)
       PROVE  ListInv'
  BY <1>10 DEF WaitRequest, Ready
<1>11. ASSUME WaitFinished \/ WaitTimedOut \/ SpuriousResume
       PROVE  ListInv'
  BY <1>11 DEF WaitFinished, WaitTimedOut, WaitReturn, SpuriousResume
<1>12. ASSUME WaitAll \/ CancelAll \/ ReleaseAll
       PROVE  ListInv'
  BY <1>12 DEF WaitAll, CancelAll, ReleaseAll, Loop, Ready
\* waitAll goes on to the next request only when this one is not SUBMITTED.
<1>13. ASSUME AllLock
       PROVE  ListInv'
  <2>1. CASE MustWait(cur)
    BY <1>13, <2>1 DEF AllLock
  <2>2. CASE ~MustWait(cur)
    <3>1. /\ idx \in 1..Len(req_list) /\ Len(req_list) \in Nat /\ cur = req_list[idx]
          /\ cur \in Requests /\ status[cur] # "SUBMITTED"
      BY <1>13, <2>2 DEF AllLock, MustWait, Loops
    <3>2. \A i \in 1..idx : status[req_list[i]] # "SUBMITTED"
      BY <1>13, <3>1 DEF AllLock
    <3>3. /\ \/ pc' = "allLock" /\ idx' = idx + 1
             \/ pc' = "idle" /\ idx = Len(req_list) /\ idx' = idx
          /\ waited' = (idx = Len(req_list))
          /\ UNCHANGED <<status, req_list>>
      BY <1>13, <2>2, <3>1 DEF AllLock, NextRound
    <3>4. /\ \A i \in 1..Len(req_list') : req_list'[i] \in Requests =>
                status'[req_list'[i]] \in {"SUBMITTED", "IOSUCCESS", "CANCEL"}
          /\ \A i \in 1..Len(req_list') : req_list'[i] \in Requests
      BY <1>13, <3>3 DEF AllLock
    <3>5. waited' => \A i \in 1..Len(req_list') : status'[req_list'[i]] # "SUBMITTED"
      BY <3>1, <3>2, <3>3
    <3>6. pc' = "allLock" => \A i \in 1..(idx' - 1) : status'[req_list'[i]] # "SUBMITTED"
      BY <3>1, <3>2, <3>3
    <3> QED
      BY <3>3, <3>4, <3>5, <3>6
  <2> QED
    BY <2>1, <2>2
<1>14. ASSUME CancelNext
       PROVE  ListInv'
  BY <1>14 DEF CancelNext, NextRound
<1>15. ASSUME ReleaseNext
       PROVE  ListInv'
  <2>1. /\ idx \in 1..Len(req_list) /\ Len(req_list) \in Nat
        /\ req_list' = [req_list EXCEPT ![idx] = NULL] /\ UNCHANGED <<status, waited>>
    BY <1>15 DEF ReleaseNext, Loops
  <2>2. /\ Len(req_list') = Len(req_list) /\ req_list'[idx] = NULL
        /\ \A i \in 1..Len(req_list) : i # idx => req_list'[i] = req_list[i]
    BY <2>1
  <2>3. \/ pc' = "release" /\ idx' = idx + 1
        \/ pc' = "released"
    BY <1>15 DEF ReleaseNext, NextRound
  <2>4. \A i \in 1..Len(req_list') : req_list'[i] \in Requests =>
           /\ status'[req_list'[i]] \in {"SUBMITTED", "IOSUCCESS", "CANCEL"}
           /\ waited' => status'[req_list'[i]] # "SUBMITTED"
    BY <2>1, <2>2, AioAssumption DEF AioAssumption
  <2>5. pc' = "release" => \A i \in idx'..Len(req_list') : req_list'[i] \in Requests
    BY <1>15, <2>1, <2>2, <2>3 DEF ReleaseNext
  <2> QED
    BY <2>3, <2>4, <2>5
<1>16. CASE UNCHANGED aioVars
  BY <1>16 DEF aioVars
<1>17. ASSUME NEW r \in Requests, CancelRequest(r)
       PROVE  ListInv'
  BY <1>17 DEF CancelRequest, Ready
<1>18. ASSUME CancelLock
       PROVE  ListInv'
  BY <1>18 DEF CancelLock
<1> QED
  <2> HIDE DEF TypeInv, AioTypeOK, ListInv, requestVars, appVars
  <2> QED
    BY <1>1, <1>2, <1>4, <1>5, <1>7, <1>8, <1>9, <1>10, <1>11, <1>12, <1>13,
       <1>14, <1>15, <1>16, <1>17, <1>18 DEF AioNext, AppStep, Callback

LEMMA InitOrderInv == AioInit => RequestInv /\ ListInv
BY DEF AioInit, RequestInv, ListInv, Fresh, InPut, InFlight, Unfinished

LEMMA OrderInvCorrect == AioSpec => [](TypeInv /\ RequestInv /\ ListInv)
<1>1. TypeInv /\ RequestInv /\ ListInv /\ [AioNext]_aioVars
        => (TypeInv /\ RequestInv /\ ListInv)'
  BY NextTypeInv, NextRequestInv, NextListInv
<1>2. AioInit => TypeInv /\ RequestInv /\ ListInv
  BY InitTypeInv, InitOrderInv
<1> QED
  BY <1>1, <1>2, PTL DEF AioSpec

\* Whatever the application calls: if it called waitAll before releaseAll, with no put
\* in between, no request is freed while aio_callback is still to come to it, but for
\* one that was cancelled.
THEOREM NoCallbackAfterFreeCorrect == AioSpec => []NoCallbackAfterFree
<1>1. RequestInv => NoCallbackAfterFree
  BY DEF RequestInv, NoCallbackAfterFree
<1> QED
  BY OrderInvCorrect, <1>1, PTL

\* Whatever the application calls: the library reads or writes a freed buffer only of a
\* request that was cancelled, or released by an application that has not waited.
THEOREM BufferLiveDuringIOCorrect == AioSpec => []BufferLiveDuringIO
<1>1. TypeInv /\ RequestInv => BufferLiveDuringIO
  BY DEF TypeInv, AioTypeOK, RequestInv, InFlight, Unfinished, BufferLiveDuringIO
<1> QED
  BY OrderInvCorrect, <1>1, PTL

=============================================================================
