----------------------------- MODULE ThreadPool -----------------------------
(***************************************************************************)
(* SC::ThreadPool (Libraries/Threading/ThreadPool.cpp): a fixed number of  *)
(* detached workers that execute caller-owned tasks from an intrusive      *)
(* FIFO.  Clients call create, queueTask, waitForTask, waitForAllTasks and *)
(* destroy; create and destroy belong to the owner.                        *)
(*                                                                         *)
(* A critical section of poolMutex is one step.  What the code does        *)
(* outside the mutex is a step of its own: the tests of numWorkerThreads   *)
(* at the start of queueTask and waitForTask, the whole of create, and the *)
(* reset of stopRequested at the end of destroy.                           *)
(***************************************************************************)
EXTENDS Integers, FiniteSets, Sequences, ConditionVariables

CONSTANTS
    Workers,        \* threads the operating system can give to create
    Clients,        \* threads that call the pool
    Owner,          \* the client that creates and destroys it
    Tasks,
    Null,           \* nullptr
    SizeMax,        \* the largest size_t
    CreateMayFail   \* whether pthread_create may fail

ASSUME ThreadPoolAssumption ==
    /\ IsFiniteSet(Workers) /\ IsFiniteSet(Tasks)
    /\ Owner \in Clients
    /\ Null \notin Tasks
    /\ SizeMax \in Nat /\ SizeMax > Cardinality(Workers)
    /\ CreateMayFail \in BOOLEAN

VARIABLES
    taskHead, taskTail,   \* ends of the FIFO
    next,                 \* Task::next
    owned,                \* the tasks whose Task::threadPool is this pool
    numRunningTasks,
    numWorkerThreads,
    stopRequested,
    taskAvailable,        \* workers asleep in taskAvailable.wait
    taskCompleted,        \* clients asleep in taskCompleted.wait
    worker,               \* where each worker is
    executing,            \* the task each worker holds
    client,               \* where each client is
    argument,             \* the task each client passed, or the size for create
    idx                   \* threads that create has started so far

pool == <<taskHead, taskTail, next, owned, numRunningTasks, numWorkerThreads,
          stopRequested>>
vars == <<pool, taskAvailable, taskCompleted, worker, executing, client, argument, idx>>

TaskOrNull == Tasks \cup {Null}

WorkerLocations == {
    "none",       \* not created, or terminated
    "waiting",    \* in waitForAvailableTask, asleep or about to take the mutex
    "running" }   \* executing its task

ClientLocations == {
    "idle",
    "creating",       \* create: starting threads
    "queueing",       \* queueTask: pool was initialised, mutex not yet taken
    "waitingTask",    \* waitForTask: asleep or about to take the mutex
    "waitingAll",     \* waitForAllTasks: in its loop
    "stopping",       \* destroy: about to call waitForAllTasks
    "stoppingLoop",   \* destroy: in the loop of waitForAllTasks
    "resetting" }     \* destroy: about to reset stopRequested

TypeOK ==
    /\ taskHead \in TaskOrNull /\ taskTail \in TaskOrNull
    /\ next \in [Tasks -> TaskOrNull]
    /\ owned \in SUBSET Tasks
    /\ numRunningTasks \in 0 .. SizeMax
    /\ numWorkerThreads \in 0 .. SizeMax
    /\ stopRequested \in BOOLEAN
    /\ taskAvailable \in SUBSET Workers
    /\ taskCompleted \in SUBSET Clients
    /\ worker \in [Workers -> WorkerLocations]
    /\ executing \in [Workers -> TaskOrNull]
    /\ client \in [Clients -> ClientLocations]
    /\ argument \in [Clients -> TaskOrNull \cup (1 .. Cardinality(Workers))]
    /\ idx \in 0 .. Cardinality(Workers)

Init ==
    /\ taskHead = Null /\ taskTail = Null
    /\ next = [t \in Tasks |-> Null]
    /\ owned = {}
    /\ numRunningTasks = 0 /\ numWorkerThreads = 0
    /\ stopRequested = FALSE
    /\ taskAvailable = {} /\ taskCompleted = {}
    /\ worker = [w \in Workers |-> "none"]
    /\ executing = [w \in Workers |-> Null]
    /\ client = [c \in Clients |-> "idle"]
    /\ argument = [c \in Clients |-> Null]
    /\ idx = 0

\* The FIFO as the pointers lay it out: what a walk from the head meets.
Chains == UNION {[1 .. n -> Tasks] : n \in 0 .. Cardinality(Tasks)}
IsChain(q) ==
    /\ q = <<>> => taskHead = Null
    /\ q # <<>> => taskHead = q[1] /\ next[q[Len(q)]] = Null
    /\ \A i \in 1 .. Len(q) - 1 : next[q[i]] = q[i + 1]

Live == {w \in Workers : worker[w] # "none"}
Running == {w \in Workers : worker[w] = "running"}

Minus1(n) == IF n = 0 THEN SizeMax ELSE n - 1   \* size_t arithmetic

-----------------------------------------------------------------------------
(* The workers. *)

\* Slips in the updates below, tried by the mutation runs.
ExitNotCounted == numWorkerThreads
FinishNotCounted == numRunningTasks
FinishSignalsNobody == {taskCompleted}
TailKept == taskTail

WorkersLeft == Minus1(numWorkerThreads)
RunningLeft == Minus1(numRunningTasks)

\* Who is asleep after signalCompletedTask: a stop is signalled by the exit.
AsleepAfterFinish ==
    IF stopRequested THEN {taskCompleted} ELSE Signal(taskCompleted)

\* The tail after the head was taken: the last task available empties the FIFO.
TailAfterGrab == IF next[taskHead] = Null THEN Null ELSE taskTail

\* A stop was requested: the worker terminates.
WorkerExit(w) ==
    /\ worker[w] = "waiting" /\ w \notin taskAvailable
    /\ stopRequested
    /\ numWorkerThreads' = WorkersLeft
    /\ taskCompleted' \in Signal(taskCompleted)
    /\ worker' = [worker EXCEPT ![w] = "none"]
    /\ UNCHANGED <<taskHead, taskTail, next, owned, numRunningTasks, stopRequested,
                   taskAvailable, executing, client, argument, idx>>

WorkerSleep(w) ==
    /\ worker[w] = "waiting" /\ w \notin taskAvailable
    /\ ~stopRequested /\ taskHead = Null
    /\ taskAvailable' = taskAvailable \cup {w}
    /\ UNCHANGED <<pool, taskCompleted, worker, executing, client, argument, idx>>

\* The worker grabs the oldest task.
WorkerGrab(w) ==
    /\ worker[w] = "waiting" /\ w \notin taskAvailable
    /\ ~stopRequested /\ taskHead # Null
    /\ executing' = [executing EXCEPT ![w] = taskHead]
    /\ worker' = [worker EXCEPT ![w] = "running"]
    /\ numRunningTasks' = numRunningTasks + 1
    /\ taskHead' = next[taskHead]
    /\ taskTail' = TailAfterGrab
    /\ UNCHANGED <<next, owned, numWorkerThreads, stopRequested,
                   taskAvailable, taskCompleted, client, argument, idx>>

\* The task function returned: signalCompletedTask.
WorkerFinish(w) ==
    /\ worker[w] = "running"
    /\ owned' = owned \ {executing[w]}
    /\ next' = [next EXCEPT ![executing[w]] = Null]
    /\ numRunningTasks' = RunningLeft
    /\ taskCompleted' \in AsleepAfterFinish
    /\ worker' = [worker EXCEPT ![w] = "waiting"]
    /\ executing' = [executing EXCEPT ![w] = Null]
    /\ UNCHANGED <<taskHead, taskTail, numWorkerThreads, stopRequested,
                   taskAvailable, client, argument, idx>>

WorkerStep(w) == WorkerExit(w) \/ WorkerSleep(w) \/ WorkerGrab(w) \/ WorkerFinish(w)

-----------------------------------------------------------------------------
(* The clients. *)

\* Slips in the tests and updates below, tried by the mutation runs.
NotTestedIfQueued(t) == FALSE
OnlyQueuedCounts == taskHead # Null
NoWorkerWoken == taskAvailable
AnySize == 0 .. Cardinality(Workers \ Live)
EnqueueAtHead(t) ==
    /\ taskHead' = t /\ taskTail' = (IF taskHead = Null THEN t ELSE taskTail)
    /\ next' = [next EXCEPT ![t] = taskHead]

CreateSizes == 1 .. Cardinality(Workers \ Live)
AlreadyQueued(t) == t \in owned
TasksInFlight == taskHead # Null \/ numRunningTasks # 0
WorkersAsleepAfterBroadcast == Broadcast(taskAvailable)

\* Appends t to the FIFO.
Enqueue(t) ==
    /\ taskHead' = IF taskHead = Null THEN t ELSE taskHead
    /\ next' = IF taskHead = Null THEN next ELSE [next EXCEPT ![taskTail] = t]
    /\ taskTail' = t

\* Moves client c, which is not asleep.
Goes(c, from, to) ==
    /\ client[c] = from /\ c \notin taskCompleted
    /\ client' = [client EXCEPT ![c] = to]

Create(c) ==
    /\ c = Owner
    /\ numWorkerThreads = 0
    /\ Goes(c, "idle", "creating")
    /\ \E n \in CreateSizes : argument' = [argument EXCEPT ![c] = n]
    /\ idx' = 0
    /\ UNCHANGED <<pool, taskAvailable, taskCompleted, worker, executing>>

CreateThread(c) ==
    /\ client[c] = "creating"
    /\ idx < argument[c]
    /\ \E w \in Workers \ Live : worker' = [worker EXCEPT ![w] = "waiting"]
    /\ idx' = idx + 1
    /\ UNCHANGED <<pool, taskAvailable, taskCompleted, executing, client, argument>>

\* pthread_create failed: create returns, whatever it has started so far.
CreateFailed(c) ==
    /\ CreateMayFail
    /\ Goes(c, "creating", "idle")
    /\ idx < argument[c]
    /\ argument' = [argument EXCEPT ![c] = Null]
    /\ idx' = 0
    /\ UNCHANGED <<pool, taskAvailable, taskCompleted, worker, executing>>

CreateDone(c) ==
    /\ Goes(c, "creating", "idle")
    /\ idx = argument[c]
    /\ numWorkerThreads' = argument[c]
    /\ argument' = [argument EXCEPT ![c] = Null]
    /\ idx' = 0
    /\ UNCHANGED <<taskHead, taskTail, next, owned, numRunningTasks, stopRequested,
                   taskAvailable, taskCompleted, worker, executing>>

\* queueTask and waitForTask first test numWorkerThreads, without the mutex.
QueueTask(c) ==
    /\ numWorkerThreads > 0
    /\ Goes(c, "idle", "queueing")
    /\ \E t \in Tasks : argument' = [argument EXCEPT ![c] = t]
    /\ UNCHANGED <<pool, taskAvailable, taskCompleted, worker, executing, idx>>

\* The critical section of queueTask.
QueueLocked(c) ==
    LET t == argument[c]
    IN  /\ Goes(c, "queueing", "idle")
        /\ \/ /\ AlreadyQueued(t)    \* returns an error
              /\ UNCHANGED <<pool, taskAvailable>>
           \/ /\ ~AlreadyQueued(t)
              /\ owned' = owned \cup {t}
              /\ Enqueue(t)
              /\ taskAvailable' = WorkersAsleepAfterBroadcast
              /\ UNCHANGED <<numRunningTasks, numWorkerThreads, stopRequested>>
        /\ argument' = [argument EXCEPT ![c] = Null]
        /\ UNCHANGED <<taskCompleted, worker, executing, idx>>

WaitForTask(c) ==
    /\ numWorkerThreads > 0
    /\ Goes(c, "idle", "waitingTask")
    /\ \E t \in Tasks : argument' = [argument EXCEPT ![c] = t]
    /\ UNCHANGED <<pool, taskAvailable, taskCompleted, worker, executing, idx>>

\* The loop of waitForTask.
WaitForTaskLoop(c) ==
    \/ /\ argument[c] \in owned /\ TasksInFlight
       /\ Goes(c, "waitingTask", "waitingTask")
       /\ taskCompleted' = taskCompleted \cup {c}
       /\ UNCHANGED <<pool, taskAvailable, worker, executing, argument, idx>>
    \/ /\ argument[c] \notin owned \/ ~TasksInFlight
       /\ Goes(c, "waitingTask", "idle")
       /\ argument' = [argument EXCEPT ![c] = Null]
       /\ UNCHANGED <<pool, taskAvailable, taskCompleted, worker, executing, idx>>

\* The loop condition of waitForAllTasks.
AllMustWait ==
    IF stopRequested THEN numWorkerThreads # 0 ELSE TasksInFlight

\* waitForAllTasks called by a client at `from`, which blocks at `loop` and
\* returns to `to`.
WaitAllEnter(c, from, loop, to) ==
    \/ /\ numWorkerThreads # 0 /\ AllMustWait
       /\ Goes(c, from, loop)
       /\ taskCompleted' = taskCompleted \cup {c}
    \/ /\ numWorkerThreads = 0 \/ ~AllMustWait
       /\ Goes(c, from, to)
       /\ UNCHANGED taskCompleted

WaitAllLoop(c, loop, to) ==
    \/ /\ AllMustWait
       /\ Goes(c, loop, loop)
       /\ taskCompleted' = taskCompleted \cup {c}
    \/ /\ ~AllMustWait
       /\ Goes(c, loop, to)
       /\ UNCHANGED taskCompleted

WaitForAllTasks(c) ==
    /\ WaitAllEnter(c, "idle", "waitingAll", "idle")
    /\ UNCHANGED <<pool, taskAvailable, worker, executing, argument, idx>>

WaitForAllTasksLoop(c) ==
    /\ WaitAllLoop(c, "waitingAll", "idle")
    /\ UNCHANGED <<pool, taskAvailable, worker, executing, argument, idx>>

\* The first critical section of destroy: free the tasks that have not been
\* executed and tell the workers to stop.
Destroy(c) ==
    /\ c = Owner
    /\ numWorkerThreads # 0
    /\ Goes(c, "idle", "stopping")
    /\ \E q \in Chains :
          /\ IsChain(q)
          /\ LET freed == {q[i] : i \in 1 .. Len(q)}
             IN  /\ owned' = owned \ freed
                 /\ next' = [t \in Tasks |-> IF t \in freed THEN Null ELSE next[t]]
    /\ taskHead' = Null /\ taskTail' = Null
    /\ stopRequested' = TRUE
    /\ taskAvailable' = WorkersAsleepAfterBroadcast
    /\ UNCHANGED <<numRunningTasks, numWorkerThreads, taskCompleted, worker,
                   executing, argument, idx>>

DestroyWait(c) ==
    /\ \/ WaitAllEnter(c, "stopping", "stoppingLoop", "resetting")
       \/ WaitAllLoop(c, "stoppingLoop", "resetting")
    /\ UNCHANGED <<pool, taskAvailable, worker, executing, argument, idx>>

DestroyReset(c) ==
    /\ Goes(c, "resetting", "idle")
    /\ stopRequested' = FALSE
    /\ UNCHANGED <<taskHead, taskTail, next, owned, numRunningTasks, numWorkerThreads,
                   taskAvailable, taskCompleted, worker, executing, argument, idx>>

ClientCall(c) ==
    Create(c) \/ QueueTask(c) \/ WaitForTask(c) \/ WaitForAllTasks(c) \/ Destroy(c)

ClientStep(c) ==
    \/ CreateThread(c) \/ CreateFailed(c) \/ CreateDone(c)
    \/ QueueLocked(c)
    \/ WaitForTaskLoop(c) \/ WaitForAllTasksLoop(c)
    \/ DestroyWait(c) \/ DestroyReset(c)

\* pthread_cond_wait may return although nobody signalled.
SpuriousWakeup ==
    /\ \/ \E w \in taskAvailable :
             taskAvailable' = taskAvailable \ {w} /\ UNCHANGED taskCompleted
       \/ \E c \in taskCompleted :
             taskCompleted' = taskCompleted \ {c} /\ UNCHANGED taskAvailable
    /\ UNCHANGED <<pool, worker, executing, client, argument, idx>>

Next ==
    \/ \E w \in Workers : WorkerStep(w)
    \/ \E c \in Clients : ClientCall(c) \/ ClientStep(c)
    \/ SpuriousWakeup

Spec == Init /\ [][Next]_vars

\* The operating system runs every thread that is awake and task functions
\* return; nobody has to make a call, and no wakeup comes for free.
Fairness ==
    /\ \A w \in Workers : WF_vars(WorkerStep(w))
    /\ \A c \in Clients : WF_vars(ClientStep(c))

FairSpec == Spec /\ Fairness

-----------------------------------------------------------------------------

\* ThreadPool: the FIFO pointers always form one list from head to tail, and
\* only a task in it, or one taken from it and still executing, has a next.
FifoWellFormed ==
    \E q \in Chains :
        /\ IsChain(q)
        /\ taskTail = IF q = <<>> THEN Null ELSE q[Len(q)]
        /\ \A i, j \in 1 .. Len(q) : q[i] = q[j] => i = j
        /\ \A t \in Tasks : next[t] # Null =>
              \/ \E i \in 1 .. Len(q) : q[i] = t
              \/ \E w \in Running : executing[w] = t

\* ThreadPool: a task belongs to the pool exactly while it waits in the FIFO
\* or one worker executes it, never both and never two workers.
OwnedExact ==
    \A q \in Chains : IsChain(q) =>
        LET queued == {q[i] : i \in 1 .. Len(q)}
            busy == {executing[w] : w \in Running}
        IN  /\ queued \cap busy = {} /\ owned = queued \cup busy
            /\ \A v, w \in Running : executing[v] = executing[w] => v = w

\* ThreadPool: the pointers and the workers agree on the tasks of the pool: no
\* queueTask, grab, completion or destroy loses a task, keeps one, or has it twice.
TasksExact == FifoWellFormed /\ OwnedExact

\* ThreadPool: numRunningTasks, on which both waits rely, counts the workers
\* that execute a task.
RunningExact == numRunningTasks = Cardinality(Running)

\* ThreadPool: a worker never sleeps while there is a task or a stop request.
NoIdleWorkerForgotten ==
    taskAvailable # {} => taskHead = Null /\ ~stopRequested

\* ThreadPool::numWorkerThreads: how many workers exist, 0 meaning that the
\* pool is not initialised; only inside create it lags behind.
WorkersCounted ==
    client[Owner] # "creating" => numWorkerThreads = Cardinality(Live)

\* ThreadPool::waitForTask, waitForAllTasks: they return only when the pool is done
\* with the task, or with every task, also when they conclude so from the FIFO and
\* numRunningTasks alone; destroy lets go of callers that wait for all.
WaitsHonoured ==
    [][\A c \in Clients : client'[c] = "idle" =>
         /\ client[c] = "waitingTask" => argument[c] \notin owned
         /\ client[c] = "waitingAll" => owned = {} \/ stopRequested]_vars

\* ThreadPool::queueTask: a pool without workers refuses tasks ("Cannot queue
\* tasks on an uninitialized threadpool").
DeadPoolRefusesTasks == [][owned' \subseteq owned \/ numWorkerThreads > 0]_vars

\* ThreadPool::waitForTask: in a pool that nobody destroys, a caller whose
\* task is done is let go.
DoneTaskReleasesCaller ==
    []~stopRequested => \A c \in Clients, t \in Tasks :
        client[c] = "waitingTask" /\ argument[c] = t /\ t \notin owned
            ~> client[c] = "idle" \/ t \in owned

Promise == INSTANCE TaskPool
    WITH pending <- CHOOSE q \in Chains : IsChain(q),
         running <- {executing[w] : w \in Running}

\* ThreadPool: tasks are executed once each, in the order of queueTask, and
\* destroy frees exactly those that were not started.
ImplementsPromise == Promise!Spec

\* ThreadPool: an accepted task is executed, or freed by destroy.
TasksSettle == \A t \in Tasks : t \in owned ~> t \notin owned

\* ThreadPool: a call to any method returns.
CallsReturn == \A c \in Clients : client[c] # "idle" ~> client[c] = "idle"
=============================================================================
