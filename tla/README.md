# A verification development for async_file_accessor

`async_file_accessor` is a C library with one interface
(`src/inc/async_file_accessor.h`) and two implementations of asynchronous file
access: the *mmap accessor*, which runs `mmapRead` and `mmapWrite` as tasks of a
thread pool, and the *aio accessor*, which uses the C library's `aio_read` and
`aio_write` with a completion callback. This directory holds TLA+ modules that
model both, TLC configurations that check them on small instances, and proofs
that TLAPS checks for instances of any size.

Paths below are relative to the repository's root: `mmap.c` is
`src/mmap_file_accessor/mmap_file_accessor.c`, `aio.c` is
`src/aio_file_accessor/aio_file_accessor.c`.

## 1. Inventory

| component | code | state | operations |
|---|---|---|---|
| thread pool | `mmap.c:142-248, 611-648, 691-713` | `task_queue` (array, head, tail, todo and total count, its lock and condition), `info` (isRunning, three counters, its lock), threads | `thread_pool_submit`, `worker_thread`, the sentinel and join loops of `mmap_release_all_resources`, `thread_pool_init` |
| mmap accessor | `mmap.c:22-139, 294-648` | per request: status, descriptor, buffer or mapping, mutex, condition | the nine calls of the interface, `mmapRead`, `mmapWrite`, `timeout_thread` |
| aio accessor | `aio.c:15-483` | `req_list`, `req_count`; per request: status, `fd`, control block, buffer, mutex, condition | the nine calls, `aio_callback` |
| instance selection | `src/async_file_accessor.c`, `mmap.c:715-724` | `isInitialized` | `Async_File_Accessor_Get_Instance` |
| request validation | `mmap.c:251-291`, `aio.c:55-95` | none | tests of the arguments of a call |
| common types | `src/inc/common_types.h` | none | `u32`, return codes |
| test program | `src/test_async_accessor.c` | none that is shared | puts requests in, then `waitAll`, `cancelAll`, `releaseAll` |

**Interaction.** An application thread calls the interface. In the mmap accessor
`putRequest` hands a task to the pool, whose workers call `mmapRead` or
`mmapWrite` with the request; `waitRequest` with a timeout starts a thread that
cancels the request when the time is over; `waitAll` and `cancelAll` walk the
pool's queue, reading it without its lock; `releaseAll` clears `isRunning`,
appends one sentinel per worker and joins the workers. Application, workers and
timeout threads share the request's status, partly under `pRequest->lock` and
partly without. In the aio accessor the second thread is the one in which the C
library runs `aio_callback`; it shares the request and the process's table of
descriptors with the application.

**What is hard.** Unlocked accesses: the test of `isRunning` in
`thread_pool_submit` and in the workers, the store of `SUBMITTED` in `putRequest`
after the task may already have run, the counters in `releaseAll`, the timeout
thread's look at the status, the whole of `waitRequest` with timeout 0. Condition
variables signalled once, spurious wakeups. A timeout racing an answer. A cancel
racing the I/O. Shutdown while other threads still submit. A callback that arrives
after its request was freed. A descriptor number that is reused between two
closes. An array that `realloc` moves while others walk it, or whose size in bytes
wraps. An instance that two threads initialise at once. `PROJECT.json` lists these
hazards line by line.

**What makes it correct.** The pool: no task is lost or run twice, in order; no
worker calls a sentinel; the array holds every task and its readers stay inside it;
a closing pool takes no task; what was accepted is run; `releaseAll` returns and
leaves no thread. The accessors: how a request was settled is final; a buffer is
alive and mapped while somebody reads or writes it; nothing is freed twice or used after
it was freed; what was waited for wakes the waiter; every
call returns; resources are given back.

## 2. Modules

| module | models | built on |
|---|---|---|
| `TaskDispatch` | abstract: items arrive in a line, free servers take the first, each is served once | |
| `RequestLifecycle` | abstract: a request is obtained, put in, and settled once and for all | |
| `ThreadPool` | the thread pool; `DispatchSpec` says that it implements `TaskDispatch` | `INSTANCE TaskDispatch WITH` |
| `PoolMemory` | the memory behind the pool: initialisation, the array and its growth, who reads it | |
| `MmapAccessor` | the mmap accessor, sharing the pool's state; `Lifecycle` says that it implements `RequestLifecycle` | `EXTENDS ThreadPool`, `INSTANCE RequestLifecycle WITH` |
| `AioAccessor` | the aio accessor, glibc's AIO and the descriptor table | |
| `MCThreadPool`, `MCPoolMemory`, `MCMmapAccessor`, `MCAioAccessor` | instances for TLC (symmetry sets) | the four above |
| `ThreadPoolProofs`, `PoolServiceProofs` | theorems: the invariants of the pool; what it promises its clients | `ThreadPool` |
| `PoolMemoryProofs` | theorems: the types; the array, its readers and the threads | `PoolMemory` |
| `MmapAccessorProofs`, `MmapLifecycleProofs` | theorems: the accessor uses the pool; what it promises of a request | `MmapAccessor`, `ThreadPoolProofs` |
| `MmapReleaseProofs`, `MmapWakeupProofs` | theorems: what a task and `releaseAll` leave of a request's resources; who waits is woken | `MmapLifecycleProofs`, `MmapReleaseProofs` |
| `AioAccessorProofs` | theorems, all for every application | `AioAccessor` |

Definitions whose name ends in `_Forgotten`, `_Anyway`, `_Stays` and the like, under
a comment `mutant:`, are wrong variants of the definition that follows them. Each
property of a passing run is violated when one of them takes the place of the
original; `PROJECT.json` pairs them.

### ThreadPool

Each worker has a place in `wpc`: `start`, `fetch` (about to lock the queue),
`wait` (in `pthread_cond_wait`), `got` (has a task, the queue unlocked), `run` (in
the task's function), `ran`, `exited`. A section under the queue's lock is one
action (`Take`, `Wait`, `Enqueue`); the tests and stores the code makes outside it
are actions of their own: `SubmitAccepted` reads `isRunning`, `SubmitEnqueue` is
the locked section; `Exit` and `BeginTask` test `isRunning` and the sentinel after
the unlock; `JoinAndLoadIdle`, `StoreIdle`, `LoadAlive`, `StoreAlive` are the loads
and stores of the two unlocked decrements, with a worker's update able to come
between them. The clients in `cpc` are the threads that submit or release.

Abstractions: `request_queue` keeps every task that was ever submitted and is
indexed from 1 (`head` and `tail` count from 0 as in the code); a task is the
request it serves or `Sentinel`. `SubmitRejected` and `Enqueue` keep the return
code, for `putRequest` acts on it. When `realloc` fails the code stores the task all
the same, and so does `Enqueue`; what that does to memory is in `PoolMemory`.
`finished` is a history variable: the slots whose function has returned.

### PoolMemory

`blocks` is every block of memory the queue ever had, each with its size in slots
and the slots that were written in it; `request_queue` is the one the pointer names.
`Realloc` may grow a block in place, move it and free the old one, or fail; a size
of 0 frees it (glibc). `NewListBufSize` is the u32 product of the code, so that it
wraps; `Store` writes the slot at `tail` whether the block has room or not, and a
slot outside a live block, or never written in it, reads as junk. `GetInstance`,
`InitQueue`, `InitThread` and `InitDone` are the steps between the unlocked test of
`isInitialized` and its store. `WalkBegin` and `WalkCount` are the two unlocked copies
that `waitAll` and `cancelAll` make, `WalkNext` a round of their loop. `thread_pool`
is the array of threads that `releaseAll` joins. A put and a worker's round are one
step each here, for their unlocked tests are the subject of `ThreadPool`; a worker
that reads junk, or calls the NULL function of a sentinel, is `lost`.

### MmapAccessor

Adds, per request, `status`, `fdOpen`, `buf`, `locked`; per client, where it is
inside a call (`op`, `opReq`, `opIdx`, `opCnt`) and its timeout thread (`timer`);
per worker, where it is inside `mmapRead` or `mmapWrite` (`body`). An action either
conjoins an action of the pool with its effect on the requests (`PutRequest`,
`PutEnqueue`, `SkipCancelled`, `Cleanup`, `ReleaseAll`) or leaves the pool's
variables unchanged. A section under `pRequest->lock` is one action that needs
`~locked[r]`; `locked[r]` stays TRUE between actions only after `waitRequest` with
timeout 0, which never unlocks the mutex that `pthread_cond_wait` has locked for it
(`ZeroRelock`). `pthread_cond_signal` wakes one of the waiting clients, chosen
nondeterministically; `SpuriousResume` wakes one without a signal.
`pthread_cancel` takes effect only while the timeout thread sleeps, since its
cancellation points are `nanosleep` and nothing else that waits (`TimerJoined`).
`LoopOverAll` copies pointer and count at once; `PoolMemory` takes them apart.
`MmapTypeOK` includes that such a loop never meets a sentinel, which holds for a
copy made before `releaseAll` was called.

`Stage` is the refinement mapping to `RequestLifecycle`. A request whose `putRequest`
has not returned is pending, whatever its status: the worker's result may be
overwritten by the late store of `SUBMITTED`, and until the call has returned no
owner can rely on it. Outside a put the stage is the status, so `Lifecycle` says
that no success, failure or cancellation is ever revised, by no worker, timeout
thread, `cancelRequest`, `cancelAll` or second caller.

### AioAccessor

One application thread (`pc`, `cur`, `idx`), since `req_list` and `req_count` have
no lock. `aio[r]` is the state of the control block in the C library: queued,
running, done, error or canceled; the step that ends it makes the callback pending.
The callback is three actions, because each of its two `close` calls frees a number
that another thread's `open` may take: `CallbackResult`, `CallbackCloseFd`,
`CallbackCloseFildes`. `fdTable` is the table of descriptors, with the lowest free
number taken by `open`; `heap` follows the memory of a write buffer. `waited` says
that `waitAll` has returned and nothing was put in since, which is how the test program
calls `releaseAll` (`src/test_async_accessor.c:71-98`); the application of the model may
also call it otherwise.

The error paths are those of the code. `getRequest` opens the file once to validate
it and closes it (`CheckValid`: a descriptor must be free), opens it again, and says
`RET_OK` with descriptor -1 if that fails; `allocWriteBuf` says `RET_OK` without a
buffer if `malloc` fails. Either request can be put in, and its I/O then can only
end with an error (`Usable`). `Stage` is as in `MmapAccessor`. This accessor does not
implement `RequestLifecycle`, since `cancelRequest` revises a success: `SuccessIsFinal`
is the part of it that `aio.c:319` promises, and `aio_cancel_finished` refutes it. What
the passing run says of a request instead allows for cancellation: `NoCallbackAfterFree`
and `BufferLiveDuringIO` name the cancelled request as the one whose callback or I/O may
meet what was freed. `WaitAllEnds` says that `waitAll` ends unless it comes to a request
that the callback has left `SUBMITTED` (`Stale`): one whose I/O failed or was cancelled
(`aio.c:28`), or whose `IOSUCCESS` the late store of `putRequest` has overwritten
(`aio.c:240`).

### The caller's contract

The models do not make the calls the library gives no meaning to: a request is put
in once; `releaseAll` is called once; after it no `waitAll` and no `cancelAll` (they
would follow the NULL argument of a sentinel, or a NULL list entry). Calls that
return at once with an error are no step. A failing `allocWriteBuf` or
`importReadBuf` of the mmap accessor sets `IOFAIL` and the request is given up; a
`getRequest` of the mmap accessor that fails is no step. `SerialInit` says that
nobody asks for the instance while another thread initialises it.

## 3. Runs

Every bound is a constant of the cfg. `MaxU32 = 7` of the pool stands for 2^32 - 1:
above the number of threads, so that a counter wraps only below zero. In
`PoolMemory` `MaxU32 = 15` with pointers of 2 bytes and chunks of 2 slots makes the
size in bytes wrap after `SafeCount` = 6 tasks, which `MaxPuts` = 5 requests and 2
sentinels cross; with the code's values (8 bytes, chunks of 1024) `SafeCount` is
2^29 - 1024.

| run | instance | distinct states | shows |
|---|---|---|---|
| `pool` | 2 workers, 2 clients, 3 requests, realloc may fail, fair | 162 thousand | no loss, no repeat, no NULL function, exact counters, few tasks behind the sentinels, `Drained`, one signal per task is enough, no task is left while all workers sleep or are gone, no join that is stuck; the pool implements `TaskDispatch`; accepted tasks are run and `releaseAll` returns |
| `pool_closing` | 2 workers, 2 clients, 2 requests | - | **violation**: a task accepted behind the sentinels |
| `memory` | 2 workers, 2 clients, up to 5 requests, malloc and realloc may fail | 430 thousand | until a realloc fails or the size wraps the array holds every task; workers and walks read nothing else; no thread is left |
| `array_walk` | 2 workers, 2 clients, up to 3 requests | - | **violation**: `waitAll` walks an array that was freed |
| `instance_race` | the same, two threads initialise | - | **violation**: a request is lost with the replaced queue |
| `mmap_safe` | 2 workers, 2 clients, 1 request, every call, realloc may fail | 643 thousand | the accessor implements `RequestLifecycle`; only a put that was told `RET_NO_MEMORY` unmaps the buffer of a task, timeout threads inside their call, no NULL argument |
| `mmap_live` | 1 worker, 1 client, 2 requests, fair | 91 thousand | every call but `waitAll` returns, no wakeup is lost, no timeout is spent before its waiter sleeps, resources are given back |
| `mmap_wait_all` | 1 worker, 1 client, 1 request | - | **violation**: `waitAll` hangs after `SUBMITTED` overwrote `IOSUCCESS` |
| `mmap_wait_zero` | 1 worker, 1 client, 1 request | - | **violation**: timeout 0 misses the signal |
| `aio_any` | 2 requests, 2 descriptors, any order, realloc may fail, fair | 1.2 million | no double free; after `waitAll`, no callback on a freed request and no I/O on a freed buffer but of a cancelled request; descriptors closed by `releaseAll`; `waitAll` misses no signal and ends unless it comes to a `Stale` request; every other call returns |
| `aio_cancel_finished` | 2 requests, 2 descriptors, any order | - | **violation**: `cancelRequest` turns `IOSUCCESS` into `CANCEL` |
| `aio_double_close` | 2 requests, 2 descriptors | - | **violation**: the callback closes another request's descriptor |

Why the bounds are enough for what they are to show. Two clients are needed for a
race between a submit and `releaseAll`, between a put and a walk of the array, and
between two calls on one request; two workers for one to race while the other is
joined and for two to hold tasks at once; two requests for one call to meet another
request in its loop, for the reuse of a descriptor, and for a task behind another. A
third request in `pool` leaves one to be rejected while one is queued behind the
sentinels, and makes the array grow twice. Deadlock is not checked: the application
may stop calling, and the pool stops for good after `releaseAll`; what must go on is
stated as liveness. `mmap_live` has one client because with two a signal may go to the
wrong one. Symmetry is used in safety runs only.

The invariants of `memory` hold up to the first failed `realloc` or wrapped size
(`MemoryHolds`); the run goes beyond both, where the code stores outside the array.
`WalkWithinArray` speaks of a walk whose array is still the queue's, `array_walk` of
the others.

`mmap_safe` lets `realloc` fail. The task is stored and run all the same
(`mmap.c:220-234`), but `putRequest` is told `RET_NO_MEMORY` and unmaps the write buffer
(`mmap.c:442-445`), so that the worker calls `msync` and `munmap` on memory that is gone.
`UnmappedOnlyByFailedPut` says that this is the only way: a put that a closing pool
rejects, a cancellation, a timeout or another task never takes the buffer from a worker.

`waitAll` is left out of `EveryCallReturns` because it does not always return, which
is what `mmap_wait_all` shows; `WaitAllEnds` says when it does in the aio accessor. Other
behaviours that the models have and that no run of their own shows: a later lock
blocks for ever on the mutex that a wait with timeout 0 has left locked; with two
threads waiting for one request the single signal wakes one of them, so that a `waitAll`
may take the signal of another thread's timeout (`mmap.c:39`), the cancelled task is
skipped without a signal, and that `waitRequest` sleeps on; `cancelAll` returns while a
worker still copies into the buffer of a request it cancelled; the descriptor of a request that was cancelled before its task began stays open
(`mmap.c:52-58`; `PutResourcesReleased` exempts it); `waitAll` of the aio accessor hangs on
a `Stale` request, and a late callback turns `CANCEL` into `IOSUCCESS`; the idle counter
may be wrong after the last join.

## 4. Fairness

Weak fairness of each thread that the operating system schedules: a worker's next
step, a client that is inside a call, a timeout thread (whose sleep ends), the
callback. For the C library: a request it took is begun and ends. Nothing is assumed
of the application between calls, of spurious wakeups, of `aio_suspend`'s timeout,
or of who gets a mutex: a section is one action that is enabled whenever the mutex
is free, and in the passing runs with liveness no mutex is held between two actions of
a thread that could stop (the aio callback holds one, and is itself fair).

## 5. Theorems

All are proved for any number of workers, clients, requests and descriptors, from the
assumptions the modules name (`PoolAssumption`: at least one worker, a chunk size of
at least one, a sentinel that is no request; `MemoryAssumption`: at least one worker,
chunks and pointers of at least one; `AioAssumption`: `NULL` is no request)
and those in the second column.

| theorem | under | statement |
|---|---|---|
| `PoolTypeCorrect` | | `PoolSpec => []PoolTypeOK` |
| `QueueCorrect` | | `PoolSpec => []QueueInv` |
| `HandedOutOnceCorrect` | | `PoolSpec => []HandedOutOnce` |
| `NoNullFunctionCorrect` | | `PoolSpec => []NoNullFunction` |
| `DrainedCorrect` | | `PoolSpec => []Drained` |
| `SubmitCorrect` | | `PoolSpec => []SubmitInv` |
| `DispatchCorrect` | `Idle \notin Tasks` | `PoolSpec => DispatchSpec` |
| `CountersAgreeCorrect` | `THREAD_POOL_SIZE <= MaxU32` | `PoolSpec => []CountersAgree` |
| `FewBehindSentinelsCorrect` | finitely many clients, one at least | `PoolSpec => []FewBehindSentinels` |
| `SignalsSufficeCorrect` | | `PoolSpec => []SignalsSuffice` |
| `JoinNeverStuckCorrect` | | `PoolSpec => []JoinNeverStuck` |
| `TaskHasWorkerCorrect` | | `PoolSpec => []TaskHasWorker` |
| `OneClientClosesCleanly` | one client | `PoolSpec => []NoTaskBehindSentinel` |
| `MemTypeCorrect` | | `MemSpec => []MemTypeOK` |
| `TasksInArrayCorrect` | `SerialInit` | `MemSpec => []TasksInArray` |
| `WorkersTakeTasksCorrect` | `SerialInit` | `MemSpec => []WorkersTakeTasks` |
| `WalkWithinArrayCorrect` | `SerialInit` | `MemSpec => []WalkWithinArray` |
| `NoThreadLeftCorrect` | `SerialInit` | `MemSpec => []NoThreadLeft` |
| `AccessorHandedOutOnce` | | `MmapSpec => []HandedOutOnce` |
| `MmapTypeCorrect` | | `MmapSpec => []MmapTypeOK` |
| `TimerInsideWaitCorrect` | | `MmapSpec => []TimerInsideWait` |
| `LifecycleCorrect` | | `MmapSpec => Lifecycle` |
| `UnmappedOnlyByFailedPutCorrect` | | `MmapSpec => []UnmappedOnlyByFailedPut` |
| `FinishedHoldNothing` | | a request whose task has returned `HoldsNothing`: no mapping, no descriptor unless cancelled |
| `ReleaseAllReleases` | | after `releaseAll`, a request with a sentinel behind it `HoldsNothing` |
| `PutResourcesReleasedCorrect` | one client | `MmapSpec => []PutResourcesReleased` |
| `WakeupNotLost` | no wait with timeout 0 | `MmapSpec /\ []OneWaiter => []SleepForPending` |
| `FinishWakesWaiterCorrect` | one client, no wait with timeout 0 | `MmapSpec => FinishWakesWaiter` |
| `TimerNotSpent` | no two asleep for one request | `MmapSpec /\ []OneWaiter => []TimerWillWake` |
| `TimerWillWakeCorrect` | one client | `MmapSpec => []TimerWillWake` |
| `AioTypeCorrect` | | `AioSpec => []AioTypeOK` |
| `ReleaseClosesAllCorrect` | | `AioSpec => []ReleaseClosesAll` |
| `WakeupComesCorrect` | | `AioSpec => []WakeupComes` |
| `LockHolderGoesOn` | | a request's lock is held by a callback that can go on to unlock it |
| `NoCallbackAfterFreeCorrect` | | `AioSpec => []NoCallbackAfterFree` |
| `BufferLiveDuringIOCorrect` | | `AioSpec => []BufferLiveDuringIO` |

`Idle` is the value 0 of `ThreadPool` that stands for "serves nothing" in
`TaskDispatch`. The counters would wrap with more than 2^32 - 1 threads. The other
assumptions are needed as well, and where a run shows it,
it is the one named: `SerialInit` (`instance_race`); one client for a clean shutdown
(`pool_closing`: a request behind the sentinels keeps what it holds); no timeout 0
(`mmap_wait_zero`); `OneWaiter`, without which the one signal that the code gives goes to
one of two waiters (section 3). The instance of each passing run satisfies the
assumptions of the theorems about the run's properties.

**The pool** (`ThreadPoolProofs`), a chain of invariants, each inductive relative to
those before it.

1. `QueueInv`: `tail`, `totoalCnt` and the length of the queue agree, and
   `head + todoCnt = tail`. Without it `Take` might advance `head` over `tail`.
2. `HandedInv`: `HandedOutOnce` with the slots that each worker holds and `finished`
   confined to `1..head`. It is what makes a newly taken slot fresh.
3. `ReleaseInv`: a sentinel in the queue, or a client in the loops of `releaseAll`,
   means `isRunning` is FALSE, and it never becomes TRUE again. Hence a worker that
   took a sentinel finds `isRunning` FALSE although it reads it without a lock: this
   is `NoNullFunction`.
4. `JoinInv`: there are never more sentinels than workers (in the sentinel loop
   exactly as many as the loop index says); the workers joined so far have exited; a
   worker that exited holds a sentinel, its own by 2. When `releaseAll` has returned,
   N workers hold N different sentinels, so by the pigeonhole principle
   (`FiniteSetTheorems`) every sentinel was taken; the queue is taken in order, so
   what is unserved lies behind them all: `Drained`.
5. `SubmitInv`: a request in submission is one client's and in no slot; one in a slot
   is in one slot only, and its return code is known.

**Its service** (`PoolServiceProofs`).

- `DispatchCorrect`: each action of the pool maps to an arrival (`EnqueueArrives`), to
  the service of the first in line (`TakeBegins`), to an end of service (`RunTaskEnds`)
  or to a stutter (`ServiceFrame`); 1 and 2 make the worker that takes free and the one
  that ends the only one to hold its slot.
- `CountersAgreeCorrect`: `Counted` says that the counters are the numbers of workers
  in the corresponding places. It holds until the joins begin; the unlocked decrements
  break it, and `CountersAgree` claims nothing from then on, so it is enough that
  joining only ends with `released`, which stays (`JoiningEnds`, `ReleasedStays`).
- `FewBehindSentinelsCorrect`: what is behind a sentinel cannot be bounded by itself, for
  every client inside `thread_pool_submit` that has seen `isRunning` may still add to it.
  `FewInv` counts both: together they are fewer than the clients, for the one that
  releases is neither.
- `SignalsSufficeCorrect`: while a worker sleeps, `todoCnt` is at most the number of
  workers about to fetch. A put adds one task and, if somebody sleeps, one fetcher; a
  worker that takes removes one of each; one falls asleep only when `todoCnt` is 0; a
  spurious wakeup adds a fetcher. The property is inductive with the types.
- `JoinNeverStuckCorrect` is what is safety in the claim that `releaseAll` returns. If the
  joined worker has not exited and every worker sleeps or has exited, that one sleeps and
  nobody is about to fetch, so by `SignalsSuffice` the queue is empty and every sentinel was taken. The
  function of a sentinel was never called and there is one for each worker
  (`PoisonedInv`), so as many workers as there are hold a sentinel of their own; by the
  pigeonhole principle the joined one does, and has exited or can go on.
- `TaskHasWorkerCorrect` is what is safety in the claim that accepted tasks are run. Suppose
  a task is queued and every worker sleeps or has exited. If one sleeps, `SignalsSuffice`
  says that the queue is empty (`SleepersLeaveNoTask`). If all have exited, each of them
  took a sentinel of its own, and as the queue is taken in order all of these lie before
  the task (`ExitedTookSentinels`): there are as many sentinels before it as workers.

**The memory** (`PoolMemoryProofs`). `TypeInv` adds to `MemTypeOK` that `blocks` is a
sequence of blocks. `SerialInv` is the inductive invariant of an instance that one
client initialises:

1. `InstanceInv`, `ThreadsInv`, `StopInv`: until the instance is initialised there is no
   task and nobody uses it; `thread_pool` names the threads, each created once; a
   sentinel in the queue means that the pool does not run.
2. `ArrayInv`: while `MemoryHolds`, `request_queue` names a live block that holds all
   tasks and whose size is a multiple of the chunk. The test of `NeedsGrowth` then comes
   exactly when the block is full, and by `SizeFits` the size computed for up to
   `SafeCount` tasks does not wrap, which is the arithmetic behind the constant: with
   `C * P * m <= MaxU32` and `q < m` full chunks, `(q + 1) * C * P <= MaxU32`. Hence
   `TasksInArray`, and a worker, whose `head` is below `tail`, takes a task
   (`WorkersTakeTasks`).
3. `WalkInv`: a walk stays within the tasks it counted, so while its array is the queue's
   it reads what 2 speaks of: `WalkWithinArray`.
4. `JoinInv`: the threads before the one that is joined have exited: `NoThreadLeft`.

**The mmap accessor** (`MmapAccessorProofs`, `MmapLifecycleProofs`). The lemma
`AccessorUsesPool` says that every behaviour of the accessor is one of the pool. It holds
by the way the module is composed and is there to carry the invariants of the pool over
(`PoolFacts`). Then:

1. `LoopInv`: a loop of `waitAll` or `cancelAll` is inside the part of the queue it saw
   when it began, where there are requests only. With it `MmapTypeOK` is inductive.
2. `WorkerInv`, `OwnerInv`, `SlotInv`: a worker that has published a result works on a
   request that was put in; a client in `thread_pool_submit` is in the put of that
   request; a request whose task has published nothing is, outside its put, `SUBMITTED`
   or cancelled. The last is the point: a result is published by the task of the
   request's only slot, and once.
3. `NextStage`: by 2, each action moves at most one request, along `Moves`:
   `LifecycleCorrect`.
4. `PutResultInv`, `BufInv`: the task of a request is in the queue with a buffer that is
   mapped until its own cleanup, unless its put has failed and taken it back (`TakenBack`).
   A put that fails with its task in the queue was told `NO_MEMORY` (`SubmitInv`), and what
   a put was told never changes (`ResultFrame`): `UnmappedOnlyByFailedPut`. A put that a
   closing pool rejects unmaps the buffer of a request that is in no slot.

**What is left of a request** (`MmapReleaseProofs`). `PutInv`: a request is in one put at a
time and not cancelled during it. `DoneInv`: when a task function has returned, its
request holds no mapping and, unless it was cancelled, no descriptor. The second half is
not stable by itself: a put that is still to store `SUBMITTED` would turn a `CANCEL` that
excuses an open descriptor into a status that does not. With `PutInv` there is no such put.
With `Drained` the invariant gives `ReleaseAllReleases`, for any number of clients. For a
single client, no submit overlaps `releaseAll` (`SubmitsBeforeClosing`), nothing is behind
the sentinels, and every request the pool took is in the queue (`QueuedInv`):
`PutResourcesReleased`.

**Wakeups** (`MmapWakeupProofs`). `AsleepInv`: who sleeps does so for a request that is
`SUBMITTED`. The steps that settle a request signal in the same section under its lock,
and with one waiter the signal reaches that one; the status is tested under the lock
before the wait, but for timeout 0. So `FinishWakesWaiter`, a leads-to, follows without
fairness: the state it leads from, an untimely sleeper, is never reached.

`TimerNotSpent` is about the other end, the timeout. The timeout thread looks at the status
without the lock, and if it is not `SUBMITTED` does not sleep at all; its signal, given
once, may come before anybody waits. `TimedWaitInv` says that a client in such a wait whose
timeout thread has ended finds the request settled when it next holds the lock, and
that one asleep has its thread still before the signal. That what is settled stays so
while the call lasts is `SettledStays`: only a put stores `SUBMITTED`, a request is put in
once, and one that is waited for has its put behind it (`PutInv`). With one waiter the signal reaches the sleeper.

**The aio accessor** (`AioAccessorProofs`).

1. `TypeInv` adds to the types that a loop is inside the list and that a write buffer
   that is not forgotten has not been freed; hence nothing is freed twice.
2. `RequestInv`: the library knows nothing of a request before its put; it works on a
   request or notifies, not both; the lock is held exactly while the
   callback has begun and has not ended; a status `IOSUCCESS` means that the callback has
   come as far; a request is freed by `releaseAll` alone, and a buffer that the library
   still works on only with the request or by a cancellation.
   `ListInv`: what `waitAll` has passed is not `SUBMITTED`, and neither is anything on the
   list once it has returned. Between `waitAll` and `releaseAll` nothing stores `SUBMITTED`
   but a put, which clears `waited`. So what `releaseAll` then frees is cancelled, or is
   `IOSUCCESS`, and as its lock is free its callback is over: `NoCallbackAfterFree` and
   `BufferLiveDuringIO`.
3. `OwnerInv`: an open descriptor is of a request that is
   allocated and whose control block names it. The second of the callback's two closes
   may close a descriptor that was reused for another request, but it opens none; so
   when `releaseAll` has freed a request no descriptor is left that was opened for it:
   `ReleaseClosesAll`.
4. `WakeupInv`: the callback holds the lock from its news to its
   signal, and whoever sleeps in `waitAll` does so for a request that is `SUBMITTED` or
   whose lock the callback still holds. `WakeupComes` says the same of the signal.
   `putRequest`, which stores `SUBMITTED` without the lock, cannot disturb it, for one
   thread does both. The first part of `WakeupInv` alone is `LockHolderGoesOn`: the only
   mutex held between two steps is that of a callback at one of its two closes.

Only model-checked is what needs fairness: `AcceptedIsRun` and `ReleaseReturns` of the
pool, `EveryCallReturns` of both accessors and `WaitAllEnds` of the aio accessor,
whose callback must be scheduled to give its signal. Liveness under fairness and ENABLED
are out of the prover's reach and stay with TLC, and so does induction over data (what a
recursive definition computes for every input); no module that is proved about reaches
a RECURSIVE operator. Every invariant of a passing run is a theorem, under the
assumptions of the table.

## 6. Not modelled

- `Async_File_Accessor_Get_Instance`: a switch without state. What else follows from
  an initialisation that runs twice (a mutex initialised while it is in use,
  `isRunning` set again during a `releaseAll`): `instance_race` refutes the first
  step of it.
- A `pthread_create` that fails, in the pool or in `waitRequest`: the thread
  identifier it leaves unset is then joined, which has no defined outcome.
- The contents, sizes and offsets of files; the retries of `open`, `mmap` and
  `malloc`, whose outcome alone is kept; the tests of arguments in
  `aio_check_request_valid` and `mmap_check_request_valid`, which make a call return
  at once.
- Descriptor 0, which the code opens as valid and never closes.
- The test program, but for the order of its calls; build scripts and images.
- A freed request: `AioAccessor` lets a late callback find in freed memory what the
  request held. `NoCallbackAfterFree` says when this cannot happen.
- Concurrent callers of the aio accessor: its list has no lock, and two puts at once
  lose one of the two.

## 7. Plan

1. Done: every component that keeps state is modelled; every invariant of a passing run,
   the refinements and the wakeup of a single waiter are proved. So is the safety behind each liveness property: `JoinNeverStuck` for
   `ReleaseReturns`, `TaskHasWorker` for `AcceptedIsRun`, `TimerWillWake` for
   `EveryCallReturns` of the mmap accessor, `WakeupComes` and `LockHolderGoesOn` for
   `WaitAllEnds` and `EveryCallReturns` of the aio accessor.
2. Left to TLC: the liveness properties themselves, which need fairness. Were the code
   changed, the first things to state anew are the late store of `SUBMITTED`
   (`mmap.c:451`), the signal to one waiter (`mmap.c:39`, `:68`) and the test of
   `isRunning` outside the lock (`mmap.c:209`), which are where a wait, a wakeup or a clean shutdown fails today.
