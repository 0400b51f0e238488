# Formal models of Sane C++ Libraries

TLA+ specifications of the concurrent and event-driven parts of Sane C++ Libraries, the TLC
models that check them, and TLAPS proofs about some of them. Source files are named relative to
`src/Libraries/`. `PROJECT.json` gives, for every definition that models code, the lines it
models.

Contents: [the system](#the-system) · [modules](#modules-and-how-they-correspond-to-the-code) ·
[runs](#what-the-runs-check) · [proofs](#what-is-proved) · [findings](#disagreements-found) ·
[not modelled](#what-is-not-modelled) · [plan](#plan).

## The system

### Threading (`Threading/`)

| Part | State | Operations | What is hard, and what makes it correct |
|---|---|---|---|
| `Mutex`, `ConditionVariable` | the sleepers | lock, unlock, wait, signal, broadcast | waits may end although nobody signalled |
| `RWLock` | `activeReaders`, `waitingWriters`, `writerActive`, two condition variables | `lockRead`, `unlockRead`, `lockWrite`, `unlockWrite` | writers first; `unlockWrite` chooses between one writer and all readers by a counter that also counts writers already woken. Exclusion, exact counters, no wake-up that reaches nobody |
| `Barrier` | `waitCount`, `generation` | `wait` | used in rounds: threads still leave one round while others arrive for the next, and `generation` wraps. Nobody leaves before its round is complete |
| `Semaphore` | `count` | `acquire`, `release` | a late `acquire` may take what a sleeper was woken for |
| `EventObject` | `isSignaled` | `wait`, `signal` | signals merge; one that is kept has to find the sleeper |
| `ThreadPool` | intrusive FIFO (`taskHead`, `taskTail`, `Task::next`, `Task::threadPool`), `numRunningTasks`, `numWorkerThreads`, `stopRequested`, two condition variables | `create`, `queueTask`, `waitForTask`, `waitForAllTasks`, `destroy`, the worker loop | tests outside the mutex, one condition variable for two kinds of waiters, thread creation that fails half way, destroy while tasks run. Tasks run once and in order, waits return when they may and not earlier |

### Async (`Async/`)

| Part | State | Operations | What is hard, and what makes it correct |
|---|---|---|---|
| `AsyncEventLoop` | the state and flags of every request, the intrusive lists, four counters, the sequences, the kernel's registrations | `start`, `stop`, `excludeFromActiveCount`, `includeInActiveCount`, `clearSequence`, `interrupt`, `run*`, the phases of a step, `reactivateRequest`, `close`, `create` | callbacks may call all of it while lists are walked; the kernel's events are older than the state they meet; thread pool completions come from other threads. Each request is in the list its state names, counters are exact, no callback that is not owed, sequences are serial and advance, close leaves nothing |
| `AsyncLoopWakeUp` | `pendingWakeUps` of each request, the latch `wakeUpPending`, the eventfd, the list of active wake-ups | `wakeUp` from any thread, `executeWakeUps`, start, stop, reactivate | three atomics written in different orders by two sides; a walk that calls back. No wake-up is lost |
| `AsyncEventLoopMonitor` | two event objects, `needsWakeUp`, `finished` | `create`, `startMonitoring`, `stopMonitoringAndDispatchCompletions`, `close`, the monitoring thread | two threads own the loop in turns. Never both, and every call returns |
| other requests and backends | | | each request's system calls; io_uring, IOCP, kqueue |

### AsyncStreams (`AsyncStreams/`)

| Part | State | Operations | What is hard, and what makes it correct |
|---|---|---|---|
| `CircularQueue` | a ring, `readIndex`, `writeIndex` | `pushBack`, `pushFront`, `popFront` | one slot stays free to tell full from empty while both ends wrap. It is a deque |
| `AsyncBuffersPool` | reference count of each buffer | `requestNewBuffer`, `refBuffer`, `unrefBuffer` | five kinds of holders give and take references. Exact counts: no buffer is reused while in use, none is lost |
| `AsyncReadableStream` | ten states in use, the read queue | `start`, `push`, `unshift`, `reactivate`, `pause`, `resumeReading`, `pushEnd`, `destroy` | listeners pause, resume and destroy the stream that is emitting; synchronous and asynchronous pushes differ. Data comes out once and in order, one close |
| `AsyncWritableStream` | six states, the write queue | `write`, `unshift`, `resumeWriting`, `finishedWriting`, `end`, `destroy` | a callback of a write makes the next write; destroy while one is under way. Everything accepted is written, one finish, one close |
| `AsyncTransformStream` | five states more, an input and an output buffer | `asyncWrite`, `afterProcess`, `afterFinalize`, `canEndWritable` | waits for work, for a buffer, or for room downstream |
| `AsyncPipeline` | pending writes, `shouldEndWhenDrained`, `endingPipes`, its listeners | `pipe`, `start`, dispatch, `afterWrite`, `endPipes`, `afterSinkEnd`, `unpipe` | backpressure of the slowest of several sinks on one source; end while data is queued or pending. Every sink gets everything in order, and the pipeline ends |
| request streams | a request of the event loop each | `asyncRead`, `afterRead`, `asyncWrite`, `afterWrite`, destruction | stop of a request under way |

### Fibers and what is built on the rest

| Part | State | What is hard |
|---|---|---|
| `Fibers`: scheduler, tasks, worker pools, counters, events, semaphores, mutexes, jobs | status of each task, ready lists, deques and injection queue, `generation`, `parked` and `pendingSignals` of the wake event | workers that park while work is published, stealing, cancellation, timeouts |
| `AsyncFibers`, `Await` | operations of the event loop on behalf of fibers and of coroutines | cancellation that races completion; groups and time limits |
| `Http` servers and clients | pools of connections | connections that close while they are used |
| `FileSystemWatcher` | watched paths, a thread or an event loop | stop while a callback runs |

### HttpClient (`HttpClient/`)

| Part | State | Operations | What is hard, and what makes it correct |
|---|---|---|---|
| `HttpClientOperation` | a queue of events and a set of response buffers, both bounded, one mutex and one condition variable, `requestInFlight`, and the flags of the libcurl backend | `init`, `start`, `cancel`, `poll`, `close`, the worker thread in `curl_easy_perform`, `HttpClient::executeBlocking` | worker and owner wait for slots, buffers and events on one condition variable; `start` and `close` meet a thread on its way out. The listener hears head, body in order and one end; no buffer is shared or lost; requests and calls end |
| `HttpClientOperationScheduler` | one ready flag for each operation, a condition variable | `init`, `close`, `markReady`, `pollReady`, `pollAll`, notifications from the workers | a flag is cleared before the poll and set after the event is published. Every queued event is noticed |
| session, adapter to streams | cookies and credentials; streams | | |

The rest (strings, containers, memory, serialization, reflection, hashing, time, files, sockets,
processes, plugins, parsers, tools) is sequential code without a protocol.

### How the parts meet

`EventLoop` runs the function of a `LoopWork` request on a `ThreadPool`, whose worker pushes a
completion and notifies the loop through the same latch and eventfd as `AsyncLoopWakeUp`.
The monitor is a client of the loop, of a wake-up request and of two `EventObject`s. Streams are clients
of the loop through their requests, and HTTP is a client of streams. Fiber worker pools do not use `ThreadPool`: they have threads
and a wake event of their own.

## Modules, and how they correspond to the code

```
ConditionVariables    the sleepers of a condition variable
ThreadSet             a finite set of threads
RWLock           ->   ReadersWriters   (abstract)   PrimitivesProofs
Barrier          ->   Rendezvous       (abstract)   PrimitivesProofs
Semaphore, EventObject                          PrimitivesProofs
ThreadPool       ->   TaskPool         (abstract)   ThreadPoolProofs
CircularQueue    ->   BoundedDeque     (abstract)   PrimitivesProofs
EventLoop                                       EventLoopProofs
LoopWakeUp       <-   LoopMonitor  (the monitor over the loop of LoopWakeUp)   LoopMonitorProofs
FiberWorkerPool                                 FiberWorkerPoolProofs
FiberSync                                       FiberSyncProofs
Streams          <-   ReadableStream, WritableStream  <-  RequestStreams, TransformStream
                 <-   Pipeline  ->  Broadcast (abstract)   PipelineProofs
HttpClientOperation  <-  HttpClientScheduler  ->  Response (abstract)   HttpClientProofs
```

`A -> B` means that A is shown to implement B, `A <- B` that B extends A.

**Threading.** A critical section of the mutex is one action; code outside of it is an action of
its own. `Lock*`, `Acquire`, `Wait` are calls up to the first time the thread sleeps or returns, and
`Retry*` is what a woken thread does once it has the mutex again. Condition variables are sets of
sleepers; `Signal` takes one out, `Broadcast` all, `SpuriousWakeup` any. `Barrier` has a
`generation` modulo `Generations`, because the C++ counter is a `uint32_t` that wraps.

**ThreadPool.** The worker loop is `WorkerExit`, `WorkerSleep`, `WorkerGrab`, `WorkerFinish`. The
test of `numWorkerThreads` that `queueTask` and `waitForTask` make before they lock is a separate
action (`QueueTask`, `WaitForTask`) from the critical section (`QueueLocked`,
`WaitForTaskLoop`). `create` starts threads one by one (`CreateThread`), any of which may fail
(`CreateFailed`). `destroy` is `Destroy`, `DestroyWait` and `DestroyReset`. Sizes have the width of
`SizeMax`, so that a counter that goes below zero wraps as in C++.

**EventLoop.** All members of `AsyncEventLoop::Internal` are fields of the record `loop` and its
methods are operators from one value of `loop` to the next, with their names. The loop is single
threaded, so one action is what the thread does up to the next user callback, and the user's code is
whatever actions of the client happen until `Return`. A step is `RunStep`, `SubmitRequests`…,
`BlockingPoll`, `DispatchCompletions`, then the phases for timers, events, manual completions, pool
completions and cancellations. Five kinds of requests stand for the ways of setting a request up
and of completing it: a descriptor watched by epoll (`socket`), the readiness request that stays
registered (`readiness`), a write that completes at once (`write`), work on the pool (`work`) and
timers (`timeout`). Failures can be set at each point where the code has an error path. The
assertions of the code set the field `asserted`. `close` goes through `ClosingStages`: it forgets what waits in sequences
(`Close`), stops request after request of one list after the other (`CloseStops`, `ClosePops`), and has the loop run until
nothing is left (`CloseDone`). Worker threads go on pushing completions between any two of these steps.

**LoopWakeUp, LoopMonitor.** `wakeUp` is three actions, one per atomic: the count of the request,
the latch, the write to the eventfd; `executeWakeUps` reads the eventfd, releases the latch, and
walks the list along links that are those of whichever list the request is in (`NextOf`).
`LoopMonitor` extends the module with the thread of the monitor and the methods of the application,
and conjoins their steps with those of the loop.

**FiberWorkerPool.** The POSIX wake event with each atomic access a step of its own, `workerMain`
with each test of its condition a step of its own, `spawn` with and without an injection queue,
`done`, `requestStop` and `requestCancelAll`, and what a fiber does: return, yield, wait. Instead of
the generation and the copies that workers made of it, the model keeps the set of workers whose
copy is up to date: only equality is ever tested, and 2^32 increments during one wait are
excluded.

**FiberSync.** The four primitives that fibers wait on, over the part of the scheduler that suspends,
wakes and cancels a fiber. An action is what a thread does while it holds one lock, that of the primitive
or that of the scheduler. The node on the stack of a waiter is one variable, `node`: its flag `notified` and
its counter can only go from queued, to notified, to counted down. `queue` is what is reached from
`waitHead`; `waitTail` is kept beside it because `FiberEvent::signal` resets it only after its loop. The
classes have a copy each of queueing, taking and removing nodes; the definitions are mapped to one of the copies.
`TestCounter`, `Suspend`, `PublishSuspension` and `Resume` are the four moments of a suspension between which
wake-ups and cancellations come in. A behaviour has one `setting`: the primitive, its fibers, how many
workers run them, and its usage (signals from outside, cancellation, reset). The variable `credit` is history:
permits that were put in and not taken out for good.

**Streams.** Everything runs on one thread, in calls that nest: `push` emits, the listener writes, the write
completes at once, its callback resumes the stream that is still emitting. The model keeps the stack
of these calls (`stack`). A frame is a method about to run, or what is left of one after a call, named
for what comes next (`afterData`, `pushedSync`, `afterCallback`); an action runs the frame on top up to
its next call, so that code after a call sees the state the call left. With an empty stack
the thread is in the event loop, which completes a read, a write, a stop, or the work of a transform,
in any order. `Streams` has the state and the pool, one module per class has its methods, and
`Pipeline` the listeners and callbacks that connect them. `CircularQueue` is used as what it is shown
to be, a bounded sequence. A buffer holds the number of the item in it, read by whoever writes it at
that time: a buffer reused too early shows as a wrong item. A transform makes `expansion` buffers of each
input and `trailer` at its end, the item numbers telling their order. An assertion of the code that
fails, and a null pointer that is used, is a frame `abort` that stays.

**HttpClientOperation, HttpClientScheduler.** The worker thread of an operation is what libcurl calls back and the
code after `curl_easy_perform`; the record `worker` says where it is, which event it has in hand, and how much is left of the
chunk that curl passed. The owner is one thread, and `owner` says in which call it is. What one of them does under the
mutex is an action, so is what it does between two such sections, and a `wait` ends where the mutex is taken again. Reads without
a lock (`notifier`, the scheduler's `initialized`) are steps of their own. curl is external: it calls back with a head, then with
chunks of the body, and returns, with an error only after a cancel or where `usage` says that requests fail. A piece
of body is what fits in a buffer; `content` is the number of the piece in it, so that a buffer that is filled too early
shows as a wrong piece (0 in free buffers). `sent` and `heard` are history. A behaviour has one `setting`: whether
the owner polls, calls a scheduler or is in `executeBlocking`, the memory, what curl passes, and the usage. `init()` of the scheduler is two steps, because
workers may look at it in between.

### Models with several instances

- `MCPrimitives` checks six modules that do not interact. A behaviour picks one `primitive` and
  leaves the others in their initial state.
- `MCThreadPoolClients` picks the `callers`: all three clients, or the owner alone. That calls
  return, that tasks settle and that workers are counted is stated for the owner alone, since it is
  false of several clients, as described under [findings](#disagreements-found).
- A behaviour of `EventLoop` has one of the `Settings`: the kinds of the requests, the sequences they
  execute on with their options, what may fail, and what the client does (`usage`). `MCEventLoop` has three:
  `Watched`, with requests the kernel watches and a timer; `Sequenced`, with everything a client may do
  with a sequence and with close; and `OneShot`, in which things have to come to an end.
- The settings of `MCHttpClient` are `Polled`, `Closed`, `Scheduled` and `Blocking`, by who calls the operation and whether it is closed.

### Definitions for the sensitivity of the checks

Each module has a few operators commented as *slips*: a counter left alone, a wake-up to one
instead of all, a test left out. They are not used by the specifications. Each property was seen to
fail with one of them in the place of the definition it imitates (`mutants` in `PROJECT.json`).

## What the runs check

| Run | Model | Instance | Shows |
|---|---|---|---|
| `primitives` | `MCPrimitives` | 4 threads; 2 generations; 1 resource, at most 5 releases; a ring of 4 slots, 2 items; 3 fibers, 1 or 2 workers, 1 thread outside, at most 2 permits | exact counters, no lost wake-up, resources and signals reach somebody, nobody stays blocked; fiber primitives lose no permit, no node and no wake-up; `RWLock` (exclusion, writer priority), `Barrier` (rounds apart) and `CircularQueue` implement their abstractions (`PromisesKept` for the last two) |
| `threadpool_clients` | `MCThreadPoolClients` | 2 workers, 3 clients, 3 tasks, failing thread creation | the list, ownership, counters, no idle worker with work, waits return only when they may, FIFO order (`TaskPool`); alone: workers counted, tasks settle, calls return |
| `threadpool_waiters` | `MCThreadPool` | 2 workers, 2 clients, 2 tasks | **finding 1** |
| `eventloop` | `MCEventLoop` | three settings of three requests each; 3 or 5 starts | counters and lists, registrations, no failing assertion, no callback that is not owed, one request of a sequence at a time, close leaves nothing, with stops, exclusions, reactivations, interrupts anywhere, also between poll and dispatch; progress of sequences and of cancellations |
| `eventloop_stopwork` | `MCEventLoop` | 2 starts | **finding 2** |
| `wakeups` | `MCLoopWakeUp` | 3 requests (one of a monitor, one not coalesced), 2 threads and the application, 3 starts, 3 wake-ups | no lost wake-up, delivery, a sound walk, and the hand-over of the loop |
| `fibers` | `MCFiberWorkerPool` | 2 workers, 1 thread outside, 1 fiber | no ready fiber left to sleepers (no injection queue), signals within parked workers, all workers leave |
| `fibers_injection` | `MCFiberWorkerPool` | 1 worker, 1 thread outside, 1 fiber | **finding 3** |
| `streams` | `MCPipeline` | 170 pipelines: 1 or 2 sinks, no transform or 1, sources of both kinds, 1 to 5 buffers, queues of 1 or 2, 2 to 4 chunks, failures and destructions | exact references, no failing assertion, one close per stream, every sink gets everything in order before the end, the pipeline ends |
| `streams_fanout` | `MCPipeline` | 2 sinks, 2 buffers | **finding 4** |
| `http` | `MCHttpClient` | 7 settings: 1 operation with 1 to 3 buffers, a queue of 1 to 5 and at most 3 pieces, or 2 operations with a scheduler | buffers neither shared nor lost, no sleeper that has what it waits for, events noticed; the listener hears what `Response` promises; requests end, `close` and `executeBlocking` return |
| `http_overflow` | `MCHttpClient` | 1 buffer, a queue of 1, a chunk of 3 pieces | **finding 5** |

### Bounds

*Primitives*: two threads suffice for most conflicts; the third is the one that overtakes, the fourth
lets two readers, or two writers, wait at the same time. Two generations is the smallest width
of the counter, the worst case for confusing two rounds. Of three fibers one holds what two wait for, so that the
queue has a head and a tail; with two workers one of them signals while another suspends or leaves; two permits
make the loop of a signal go around twice. *ThreadPool*: with three tasks the list has
a head, a middle and a tail, two workers run tasks at the same time, and a third client calls while
two are inside; the third task is used only where one client is alone. *EventLoop*: with three requests
lists have a middle; the bounds on starts let each request start, and at least one start again.
*LoopWakeUp*: three wake-ups are one in each of the phases before, during and after a callback; counts
saturate at the bound. With a monitor (created first) `MaxMonitored` bounds starts and wake-ups by two.
*FiberWorkerPool*: the fiber may be spawned again and again, which is what makes the next publication meet
the leftovers of the last. Two workers and two fibers, three workers and one fiber, and two workers
with two outside threads were also checked, for the safety properties without the injection queue.

*Streams*: two sinks are the fewest of which one is slower; one transform has the source and the sink for neighbours (two
abort at the end, see below). Pools and queues are chosen below, at and above each other, so that the
buffers run out before the queues are full, and the other way round. Four chunks are more than fit in
the smaller ones at once, two or three in the pipelines with a transform. Each of the user's calls happens
once, at any time the event loop waits. Of pipelines without a transform, every combination of one to five buffers,
queues of one to three, both kinds of sources, one or two sinks and all usages was also checked, in parts.

*HttpClient*: a queue of one and one or two buffers make the worker wait for a slot and for a buffer in turn, three pieces in one chunk go
around both. Where an operation is closed under way, the memory holds everything curl may pass, two pieces. One operation has the
scheduler with everything that the user may do; with two, of which one is ready while the other is polled, the requests have no body.
Requests follow each other without bound.

### Fairness

- Threads that can run are run (weak fairness per thread); woken threads get the mutex. Nothing is assumed of the
  fibers of `FiberSync`, of which only safety is checked.
- Nobody has to make a call, signal, release or wake anything up, and spurious wake-ups need not happen.
- Task functions, callbacks and fibers return. A fiber may yield or wait any number of times, but one that
  gets to run again and again returns (strong fairness of `Complete`).
- The client goes on calling `runOnce`; a poll returns when the eventfd is readable. In `EventLoop`, for progress
  alone, a descriptor that stays registered is reported some day (strong fairness): without it a sequence
  may wait for a peer that never answers.
- Of streams: the thread goes on with the calls on its stack, and reads, writes, stops and the work of transforms complete.
  Failures and calls of the user need not happen. A read that fails and a sink that is destroyed leave a pipeline
  open in the code, which expects the user to destroy the source then.
- Of an `HttpClientOperation`: its worker and the calls of its owner go on, waits time out, `curl_easy_perform` gets on and returns
  (after a cancel because curl asks `curlProgressCallback`; otherwise because the response ends or fails). Who has started a request polls it again and again, or calls
  `init` and `pollReady` of the scheduler (strong fairness: these calls are possible between others); nobody has to start, cancel or close.
- Of the monitor's application it is assumed that it does what `onNewEventsAvailable` is for: it takes the loop
  back after a poll and starts monitoring again.

`CHECK_DEADLOCK FALSE` stands where the system may stop for good: several clients of a thread pool
that block each other (finding 1), fiber workers that have all left, and a pipeline that has ended.

### Usage that the passing runs leave out

The code breaks under some usages that its documentation does not exclude. They are guarded by an element of
`usage` (or by a constant), so that each can be switched on in a configuration to see what it does:

| Usage | What TLC refutes |
|---|---|
| `stopQueued`: stop a request that waits in its sequence | `CountersExact`, `FoundWhereStateSays`: `stop` takes it out of `submissions`, where it is not |
| `joinReactivated`: a callback reactivates its request and starts another of the same sequence | `SequenceSerial` |
| `reviveInError`: restart or reactivate a request from its error callback | `NoAssertionFails` |
| `withdraw` with a readiness request | `NoAssertionFails` |
| failing setup, sequence without `clearSequenceOnError` | `SequenceProgress`: `reportError` resumes nothing |
| a timer on a sequence | `SequenceProgress`: its callback resumes nothing |
| failing setup | `NoCallbackWhileSubmitting`, stated after a comment of `AsyncEventLoop::submitRequests` in `Async/Async.h`; no run checks it |
| `startsBeforeWakeUp`: start a wake-up between the poll and `executeWakeUps` of one step | `NoLostWakeUp`: the notification is consumed before the request is in the active list |
| `Recreates`: create a closed monitor again | `MonitorHandsOver`: `close` leaves `finished` and `enterBlockingMode` set |
| a timer on a sequence | `SequenceSerial`: when its callback reactivates it nothing marks the sequence as running again, and what is started on the sequence next is submitted beside it |
| `fails` with `"activate"` for a request that the kernel watches | `WatchersExact`: `reportError` frees a request that was registered in setup, and leaves it registered |
| `fails` with `"event"` (`EventErrorSettings`) | `WatchersExact`: `reportError` marks the request free without a teardown and the descriptor stays registered with a pointer to it, although `Async/Async.h:110` says that the request "can be freed as soon as the user callback is called" |
| two clients of a thread pool, one of which destroys it | `DeadPoolRefusesTasks`: `queueTask` tests `numWorkerThreads` before it locks |
| a sequence with `clearSequenceOnCancel`, the default (`CancelledSettings`) | `SequenceProgress`: `completeCancellation` does not resume the sequence (`Async.cpp:1754`): what is started on it between `stop` and the end of the cancellation is never submitted, although `Async/Async.h:102` says that the callback of a request that was started "will be called both in case of success and in case of any error" |
| `"stopsNext"` in `Usage` of `LoopWakeUp`, with four requests and no monitor (`MaxMonitored = 0`) | `WakeUpDelivered`: `executeWakeUps` takes the next request of the walk before it calls the callback (`Async.cpp:2316`). When the callback stops that request, its link leads on into `submissions`; the rest of the active wake-ups is skipped with `pendingWakeUps` above zero, and `wakeUp`, which "Wakes up event loop, scheduling AsyncLoopWakeUp::callback on next AsyncEventLoop::run" (`Async/Async.h:399`), never notifies for them again |
| `closeInFlight` with less memory than curl may fill, `Setting("polls", {o1}, {b1}, 1, 2, 2, 0, {"close", "closeInFlight"})` | `RequestsEnd`: `close()` joins a worker that waits for what only `poll()` frees, as in finding 5 |
| `reopen`: an operation of a live scheduler is closed and initialized again, `Setting("schedules", {o1}, {b1}, 1, 1, 1, 0, {"close", "reopen"})` | `RequestsEnd`: `close()` clears `notifier` (`HttpClient.cpp:1303`), nothing marks the operation ready any more and `pollReady` leaves its events alone |
| failing thread creation | `WorkersCounted`: the workers that were started are not counted and nobody stops them |
| `FiberSync` with `"cancel"` and two workers, or with signals from outside | `NodesReached`, `PermitsKept`, `HandedOver`: `signal` and `unlock` set `notified` and let go of the lock before they call `done` for the counter of the node (`Fibers.cpp:5991`). A waiter that is cancelled at that moment finds itself notified, passes its permit on and returns, and the node with it, whose counter is then counted down. FIBERS-0008 says that the node "must not outlive the suspended wait call" |
| `FiberSync` with `"reset"` of an event and two workers, or with signals from outside | `NodesReached`: while `FiberEvent::signal` has let go of its lock in its loop, `waitTail` still points at the node it took. A fiber that resets the event and waits again is linked behind that node, and no signal finds it any more |

## What is proved

With TLAPS, for every value of the constants that satisfies the named assumptions:

| Module | Theorems | Assumptions |
|---|---|---|
| `PrimitivesProofs` | `LockTypes`, `LockExclusion`, `LockCounts` (`CountersExact`), `LockWakeups` (`NoLostWakeup`), `LockImplementation` (of `ReadersWriters`) | finitely many threads |
| | `BarrierRounds` (`RoundsApart`), `BarrierImplementation` (of `Rendezvous`) | a finite, nonempty team; at least two generations |
| | `WokenForResources` (`EnoughAwake` of `Semaphore`) | finitely many threads, an initial count that is not negative |
| | `KeptSignalHeard` (`SignalHeard` of `EventObject`) | none |
| | `QueueTypes` (`TypeOK` of `CircularQueue`), `QueueImplementation` (of `BoundedDeque`) | at least one slot; nothing is not an item |
| | `TypesCorrect` (`TypesOK`), `WaitsAreSound` (`WaitsSound`), `PromisesAreKept` (`PromisesKept`): the properties of the run `primitives` | those above and those of the ring; three fibers, in the settings of `MCPrimitives` |
| `FiberSyncProofs` | `TypeCorrect`, `WaitsAreSound` (`WaitsSound` of `FiberSync`) | finitely many fibers and threads outside, which are different; `MaxCredit` a natural number; `Null` not a fiber; `SoundUsages` (see below) |
| `ThreadPoolProofs` | `TypeCorrect`, `ListShape`, `Ownership`, `Bookkeeping`, `RunningCount`, `NoLostWakeup`, `WaitsCorrect`, `Implementation` (of `TaskPool`) | finitely many workers and tasks, `Null` not a task, `SizeMax` above the number of workers |
| `EventLoopProofs` | `TypeCorrect`, `BookkeepingIsExact`, `WatchersAreExact`, `AssertionsHold`, `SequencesAreSerial`, `ClosedLeavesNothing` (the six invariants of the run `eventloop`), `CallbacksAreOwed` (`CallbackIsOwed`) | finitely many requests; `Null` neither a request nor a sequence; every setting a `Setting`, with work only on sequences; `SoundUsage` (see below) |
| `FiberWorkerPoolProofs` | `TypeCorrect`, `Inductive`, `SignalsBounded` (`SignalsWithinParked`), `ReadyIsNoticed` (`NoFiberForgottenUnderLock`) | finitely many workers; no worker is a thread outside the pool; `Null` not a thread |
| `LoopMonitorProofs` | `LoopLosesNoWakeUp` and `MonitorLosesNoWakeUp` (`NoLostWakeUp`), `LoopWalksSoundly` and `MonitorWalksSoundly` (`WalkSound`), `MonitorTypesOK` (`TypesOK`), `MonitorNeverShares` | `Null` not a request, `App` a thread; `UsualUsage` and, for the monitor, `NeverRecreated` (see below) |
| `PipelineProofs` | `TypeCorrect` (`TypeOK`), `BuffersKept` (`NoneReused`, the half of `RefsExact` that keeps a buffer from being reused) | finitely many transforms and sinks, which are different and not the source; every setting a `Setting` with a sink, whose transforms make something of an input or at the end |
| `HttpClientProofs` | `HandsOverSoundly` (`HandOverSound`), `HearsWhatIsPromised` (implementation of `Response`) | finitely many buffers, which are not other events; every setting has a buffer and a slot in the queue |

**RWLock.** The inductive invariant adds to types, exclusion and exact counters that only blocked
threads sleep in the two condition variables. Exclusion needs exact counters: the code
decides by counters, the property speaks of threads. The counters are cardinalities of sets of
threads, so each step is a lemma about moving one thread from one set to another.

**Barrier.** `RoundsApart` says that `waitCount` is the number of threads whose copy of `generation` is the
current one, and that only these may sleep. A round is complete only when the last thread of the team
arrives, so at that moment nobody is left of the previous one. This is why two values of the
generation suffice, and why the wrap of the counter does no harm.

**Semaphore, EventObject.** The properties are inductive once every sleeper is known to be blocked: who takes a resource
lowers both sides of `EnoughAwake` by at most one, and a release that adds a resource wakes a sleeper.

**All primitives side by side.** A step of `MCPrimitives` is a step of one primitive that leaves the variables of the others alone, so a behaviour of
it is, for each of them, a behaviour of that primitive: what was proved of each one holds, and its properties are those of `MCPrimitives`. The fairness of `MCSpec` is not
used.

**ThreadPool.** The inductive invariant (`IInv`) says that some sequence of tasks is the list (`FifoIs`),
that the list and the executing workers share the tasks the pool owns, that `numRunningTasks`
counts the workers that execute, and that no worker sleeps while there is work. That the sequence is
the only one for given pointers (`ChainUnique`) needs induction over its positions; as the provers
cannot instantiate an induction theorem with an operator, the module proves the form
that speaks of a set, from the well-foundedness of the natural numbers. The refinement maps `pending` to
that sequence: every step of the list is one of those that `ListStep` lists (append, take the
head, drop all, nothing). `WaitsCorrect` follows from `IdlePoolOwnsNothing`: an empty list and
`numRunningTasks = 0` leave no owned task, which is what `waitForTask` concludes from.

**CircularQueue.** The invariant is the type: both indices in the ring. `QueueShape` relates it to the sequence the ring stands
for, `Contents`, whose slots are in the ring and never the one of the write index. Each operation then is one on the
sequence, item by item: the slots that move, the one that is written, and the length.

**Pipeline.** `Holders` counts who has a buffer while the event loop waits. In the middle of a callback there are more references, because one is taken before a
buffer is passed on and given back after the call returns. The inductive invariant counts at every step of every nested call: `RefsInv` says that a
buffer has at least as many references as holders, where a frame that is to give back its reference (`HoldingCalls`) holds the buffer
too, the slot of a pending write does not once the `write` that was made of it is under way (`Clearing`), and neither does a transform that has given back its output
and is still to become `Finalized` (`Finalizers`). Each action is a chain of steps that move one holder to another place, take one with its
reference or drop one, and the theory of counting that they need (sequences that are appended to, shortened, or changed at one place) is the first part of the module.

That every holder is a real one needs the other two parts. `StackInv` is the discipline of the stack: `write` runs as soon as it was called, and only where the
stream can accept it, so that it never fails with the buffer in hand; the call that clears a slot of the pending writes has nothing above it but what `write` may call; the end of the work of a
transform is the outermost call. `TypesInv` is the type of each variable, relative to the buffers that have been filled (`Full`): what is queued or written
has been, a request under way and a transform at work have their buffers, and a stream that is not in the pipeline is never called. TLC checks the same `IInv` on the pipelines of the run.

`BuffersKept` restricts nothing: it holds for any number of sinks and transforms, for queues and pools of any size, and whatever is destroyed or fails, also where
the other properties do not (see [below](#pipelines-that-the-run-leaves-out)). An assertion that fails stops the program, and what it leaves is sound.

**EventLoop.** `Sound` speaks of a value of `loop` also in the middle of an action, between two of the operators it is made of: it has
as parameters the requests that the loop has taken from `submissions` and put nowhere yet (`held`), the one whose callback has reactivated it before its sequence
goes on (`again`), the one that has its completion callback and is still registered (`completing`), and whether `close` has begun to pop the completions of
the pool (`popped`). Its parts are `Counted` (each counter is the cardinality it stands for), `Placed` (in which list a request is, by its state, and that no list
has anything twice), `Tasked` (the same for workers), `Registered` (for epoll) and `InTurn` (which request each sequence runs, and which sequences
are tracked). Each operator on `loop` has a lemma: from a sound `l` it makes a sound `m`, with the parameters and the few fields that it
changes; an action is a chain of them. The properties that the runs check need all five parts at once: the counters follow from who is active, who is
active from where a request can come from, that from the lists, and the lists depend on the sequences.

`IInv` adds what is known of the thread of the loop. `CallbackInv` says in which states the request of a callback can be. `PhaseInv` says that an event
epoll returned is for a request that is active, or was stopped after the poll and is marked (`needsTeardown`), which is why stale events are dropped; that the
next request of the walk over the cancellations is still in them; and that a request that runs in the pool cannot be stopped and forgotten between the
poll and the pool phase. `ClosingInv` says what each stage of `close` has achieved, so that nothing needs a fairness
argument: a stage ends when it finds nobody left to stop, and when the last one has ended only cancellations are left. `SoundUsage` is the
conjunction of what the table above leaves out; `MCEventLoop` assumes it of its settings, so that TLC evaluates it, and TLC checks the same `IInv` on these settings and on
two more: a timer beside a socket and a readiness request of one sequence, and a sequence of which everything may fail.

**FiberWorkerPool.** A pending signal is for a worker that slept in `wait()` and has not left it since
(`SignalsCounted`), which bounds the signals. Without an injection queue the thread that notifies one worker
has the scheduler locked and has left a ready fiber, so nobody else can take or publish one until the signal
is out (`Discipline`). A worker that is about to sleep although a fiber is ready has a copy of the
generation from before it was counted up (`Unseen`), and therefore does not sleep. What is left is the
signal that goes nowhere, because as many are pending as workers parked for them:
then another worker is awake and will look for work before it parks (`Watched`). TLC checks the same invariant on three workers.

**FiberSync.** A waiter's node goes from the queue (`queued`) into the hand of the one fiber or thread that signals (`notified`), and from
there to the scheduler (`done`). `FiberInv` says which of these goes with which place in the wait and which status of the fiber, so that a fiber that leaves
its wait with success was counted down, and one that fails was cancelled. `NotifiedInv` gives every notified node exactly one caller that still has to count it down:
this is the window in which the lock of the primitive is not held. `QueueInv` makes the queue the set of queued nodes, each of them once, and
`waitTail` its last. `PermitsKept` then counts: the permits in the primitive, those that fibers were granted and those that a signal in progress still
has to give are what was put in and not taken out for good, and each step moves one of them from one place to another. `HandedOver` says that a mutex without a permit
has one owner, the only fiber it can have been granted to. A cancelled fiber or a reset event can break into
the window; `Exclusive` is what keeps them out: under `SoundUsages`, the hypothesis, where somebody cancels or resets an event there is one worker and nobody
signals from outside, so that who signals is the fiber that runs. The two rows of the table above are what happens otherwise.

**LoopWakeUp, LoopMonitor.** `LoopInv` is what holds whoever drives the loop: a request is linked once, in the list
that its state names; the next request of a walk stays linked while a callback runs (`WalkInv`); and for a request that was
asked for somebody is on the way to the loop, or the walk is still ahead of it (`WakeUpInv`). Both modules share the proof that the
steps of the loop and of `wakeUp` keep it. It needs in addition that nothing waits in `submissions` between a poll and the
wake-ups it reported (`Quiet`), because the walk reads the notification for all requests and sees only the active ones. A thread
that steps the loop itself keeps that by order of its calls. A monitor keeps it because the application cannot submit while
the loop is polled: that is `Handshake`, which says by the two event objects and the two flags whether the application
holds the loop (`Held`) or the monitoring thread has it or is about to (`Lent`). `close` breaks the handshake and `Quiet` with it, and after it nothing
is dispatched. The hypotheses leave out what the table above refutes: `UsualUsage` the two usages under which `NoLostWakeUp` and `WakeUpDelivered` fail, `NeverRecreated` a
monitor that is created again after `close`.

**HttpClient.** An event goes from the hand of the worker through the queue into the hand of the owner. `Pending` is all of that as one
sequence: to queue and to dequeue leave it as it is, which makes most steps trivial, and what happens at its ends is what `Response` speaks
of. `InOrder` says that a head can only be first and an end only last in it, and that the pieces between are numbered from what the listener heard
to what came; so no two pending pieces are in one buffer, and the buffers in use are those of the pending
events plus the one being filled and the one being released (`BuffersInv`). `SleepInv` says on what each side sleeps: the worker on a full queue or on buffers
that are all in use, the owner on an empty queue; both at once would need buffers in use that are nowhere, since a setting has a buffer and a slot. `NoticeInv` covers
also the time before the scheduler is initialized, when the flags are up that `init` raised. For the refinement the head is
received at the latest when the thread ends (`RequestInv`), so that an end is always heard after a head. The usages are not restricted: also
`closeInFlight` and `reopen`, with which requests need not end, keep all of this.

A proof found a flaw of the model: the guards of the `CASE` in `AfterEvent` overlapped, so that TLA+ leaves open which value is meant while TLC takes the first one.
They are now ordered as in the code.

### Only model-checked

Of the streams, what does not hold for every pipeline, and what goes beyond references: that no reference is lost (the other half of `RefsExact`), `NoAssertionFails`, `ClosedOnce`
and `ImplementsBroadcast`. The [table](#pipelines-that-the-run-leaves-out) has pipelines that refute them; a theorem would need as its hypothesis which pipelines do not, and that is
known by TLC's search only, not by a condition in the code.

Everything about liveness (of the run `eventloop` that is `OneShotEnds`, of the run `streams` `PipelineEnds`). Liveness under fairness, and `ENABLED`, are beyond the prover: of the run `primitives` that is
`BlockedGetOut`. No module uses `RECURSIVE`, so that all may be proved about later.

## Disagreements found

1. **`ThreadPool`: a completion may wake the wrong waiter.** `signalCompletedTask` signals one
   waiter of `taskCompleted`, but `waitForTask` and `waitForAllTasks` wait there for different
   conditions. With two waiting clients the signal can go to the one whose condition does not
   hold, and the other sleeps although its task is done (`DoneTaskReleasesCaller`).
2. **`AsyncEventLoop`: stopping work whose completion is queued.** The request stays in
   `manualThreadPoolCompletions` in state `Cancelling`, and the release assertion of the pool phase
   fails (`NoAssertionFails`).
3. **`FiberWorkerPoolWakeEvent`: a late signal silences the next one.** With an injection queue
   `spawn` notifies without the scheduler lock. Worker and publisher can act so that the fiber is
   taken between the increment of `generation` and the signal; the signal then wakes the worker,
   parked again, for nothing, and stays in `pendingSignals`: the next `notifyOne` finds
   `pendingSignals < parked` false, and the worker sleeps while a fiber is ready
   (`NoFiberForgotten`). Where `spawn` holds the lock this cannot happen
   (`NoFiberForgottenUnderLock`).
4. **`AsyncPipeline`: two sinks that both write at the end abort it.** `afterSinkEnd` removes the listener
   of every sink that is not writing, also the ones it removed before and the ones that `endPipes` never
   added: the second removal fails and the release assertion with it (`SinksEnd`).
5. **`HttpClient::executeBlocking`: a body that does not fit can make it hang.** The listener cancels and the call polls once more, without waiting,
   and closes. `close()` joins the worker thread without taking events. If more was received at once than the queue and the buffers hold, the worker
   waits for a slot or for a buffer, also for the event that says that the request was cancelled, and nobody frees one (`OverflowReported`). The same is
   behind "If the chosen event queue, ... or response buffers are exhausted, the operation reports an error" (`HttpClient.md:66-68`): the
   code waits instead.

The table of [usages](#usage-that-the-passing-runs-leave-out) has more of them; no run repeats those.

### Pipelines that the run leaves out

`MCPipeline` states its settings by `Straight` and `Through`; each of these was tried as a setting of its own. `Documentation/Libraries/AsyncStreams.md` says that
"a pipeline records bounded pending writes and resumes the relevant readable as writes complete" and that
"`pushEnd()` ends a readable after queued data is delivered".

| Pipeline | What TLC refutes, and why |
|---|---|
| `Through(One, "request", 4, 1, 3, 1, 0, {})`: four buffers, queues of one | `PipelineEnds`: the transform puts its input back for want of a buffer, its write queue is full, a write to it is pending. `afterWrite` returns while anything is pending (`AsyncStreams.cpp:1438`), so nobody resumes the transform although buffers are free |
| `Through(One, "request", 5, 1, 3, 1, 1, {})`: a trailer with queues of one | `ImplementsBroadcast`: `afterWrite` looks at the queue of the source, not at the one of the transform (line 1446), and ends the sinks before the trailer |
| `Through(One, "request", 3, 1, 2, 2, 0, {})`: a transform that doubles, three buffers | `RefsExact`: "writable unshift failed", the input cannot be put back into the full write queue and its reference is lost |
| `Straight(One, "sync", 5, 1, 1, {})` with five chunks: the pipeline of the test `pipelineBackpressureSyncSource` with one buffer more and a shorter read queue | `NoAssertionFails` and `PipelineEnds`: "push: dropping buffer". `push` sets `SyncPushing` (line 395) over the `Pausing` that the pipeline, its listener, has set, so that the source reads on until its queue is full. In the test the pool runs dry before |
| `Through(One, "sync", 5, 1, 2, 1, 2, {})` | `ImplementsBroadcast`: for the same reason as with a trailer above, the last items are lost |
| `Through(One, "request", 3, 1, 2, 1, 0, {"destroySource"})` | `PipelineEnds`: nobody ends the transform of a source that was destroyed at that moment |
| `Through(One, "request", 3, 1, 2, 1, 1, {"readFails", "destroySource"})` | `ImplementsBroadcast`: a sink is still written when the pipeline has taken itself apart |
| two transforms | `unpipe` dereferences the source after it set it to null (line 1155) |
| `destroyClosed`, without the excuse for it in `ClosedOnce` | `ClosedOnce`: `destroy()` of a stream that has ended closes it again |
| `destroySink`, and `RefsExact` with equality | the buffer under way and the ones of its callbacks keep references |


## What is not modelled

- Of the event loop: the io_uring, IOCP and kqueue backends, `runOnce` called from a callback, external
  completions, the order of deadlines, partial writes and several writes on one descriptor,
  `enumerateRequests`, listeners, wake-ups on sequences, polls that fail. Requests started while
  `close` is running.
- Of `EventObject`: the manual mode, which the header says is incomplete.
- Of the fiber worker pool: deques and stealing, idle spinning, a pool that is started again,
  uninterruptible waits, spawns from inside fibers or with a counter, an injection queue that is full, Windows.
- Of the fiber primitives: that a wait ends when the scheduling is fair (`NobodySleepsOn` and `NobodyWaitsInVain` are
  the safety side of it), time limits, counters of several units, root contexts that wait.
- Of streams: child, growable, read-only and one-time buffers; `init` and starting again; `autoDestroy` off; listeners of a
  user other than the calls named under `usage`; a request that fails to start; `SyncZLibTransformStream`, whose `canEndWritable` (line 1603) keeps a buffer
  that it asked for when it has ended, so that the pool has one less.
- Of `HttpClientOperation`: request bodies, redirects, the text of heads and headers, `pthread_create` that fails, an end without
  head when HTTP/2 was required, the backends of Apple and Windows, an owner that calls from several threads. A `start` that the backend refuses
  (in the callback that ends a request, while the old thread is on its way out) leaves the modelled state as it was; that
  `processPendingEvents` then resets the state of the request body of a request that was started there is not modelled.
- Memory ordering weaker than sequential consistency, and memory safety.
- The parts without a module, with the reasons, are listed under `components` in `PROJECT.json`.

## Plan

Done: Threading, the core of the event loop, wake-ups and monitor, the parking of fiber workers, what fibers wait on, streams and pipelines, operations and scheduler of `HttpClient`. Next, in this order:

1. **Proofs.** That no reference is lost while nothing is destroyed, from the same counts with equality; `ClosedOnce`, from which of the frames that close a
   stream may be on the stack together; then `NoAssertionFails` for pipelines with one sink and no transform.
2. **More of the event loop.** `PosixWrites` (partial writes, several writes on one descriptor), timers with
   deadlines, sequences in `LoopWakeUp`, io_uring with cancellations that complete later.
3. **Fibers.** Worker deques and stealing, counters of several units, time limits, and `FiberSync` composed with
   `FiberWorkerPool`; then the job scheduler.
4. **Clients.** `AsyncFibers` and `Await` over an abstract loop, whose promise `EventLoop` is to implement; the adapter of
   `HttpClient` to streams; the pool of connections of `Http` over the streams; `FileSystemWatcher`.
