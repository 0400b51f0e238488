--------------------------- MODULE FiberWorkerPool ---------------------------
(***************************************************************************)
(* SC::FiberWorkerPool (Libraries/Fibers/Fibers.cpp, POSIX): the worker    *)
(* threads of a FiberScheduler, the event they park on while no fiber is   *)
(* ready, and the publication of ready fibers that wakes them.  One life   *)
(* of a pool without worker deques, from its start to the exit of its      *)
(* workers, with an injection queue that never is full, or with none.      *)
(*                                                                         *)
(* Atomics that are accessed without a lock are steps of their own.  The   *)
(* mutex of the event is free unless a worker stands between its tests.    *)
(* Instead of the generation and the copies the workers took of it, the    *)
(* model keeps the workers whose copy is still equal to it.                *)
(***************************************************************************)
EXTENDS Naturals, FiniteSets, SequencesExt, ConditionVariables

CONSTANTS
    Workers, Publishers,   \* the pool's threads, and threads outside it
    Fibers,
    Null

ASSUME FiberWorkerPoolAssumption ==
    /\ IsFiniteSet(Workers)
    /\ Workers \cap Publishers = {}
    /\ Null \notin Workers \cup Publishers

VARIABLES
    injectionQueue,    \* whether the pool was started with one
    status,            \* of every fiber
    released,          \* fibers whose counter is zero
    cancelRequested,   \* fibers that were asked to stop
    injection,         \* what is in it, in the order of reservation
    schedulerLock,     \* who holds it
    current,           \* workers whose observedGeneration is the generation
    parked, pendingSignals,
    condition,         \* workers asleep in pthread_cond_wait
    conditionWaited,   \* workers that were, during this wait
    pc,                \* where every thread is
    fiber,             \* the fiber it has in hand
    stopRequested,
    cancelled,         \* workers that already called requestCancelAll
    toCancel           \* what is left for the requestCancelAll under way

fibers == <<injectionQueue, status, released, cancelRequested, injection>>
event == <<current, parked, pendingSignals, condition, conditionWaited>>
stopping == <<stopRequested, cancelled, toCancel>>
vars == <<fibers, event, stopping, schedulerLock, pc, fiber>>

Threads == Workers \cup Publishers

Notifying == {"notifyOne", "lookOne", "signalOne", "notifyAll", "lookAll", "signalAll"}
Home(t) == IF t \in Workers THEN "loop" ELSE "idle"

Ready == {f \in Fibers : status[f] = "ready"}                 \* readyFibers
Active == {f \in Fibers : status[f] \notin {"invalid", "reserved", "completed"}}
Publishing ==                                                 \* injectionPublishing
    {p \in Publishers : injectionQueue /\ pc[p] \in {"reserving", "counted"}}
MutexFree == \A w \in Workers : pc[w] \notin {"tested", "announced", "retests"}

TypeOK ==
    /\ injectionQueue \in BOOLEAN
    /\ status \in [Fibers -> {"invalid", "reserved", "counted", "ready", "running",
                              "suspending", "waiting", "completed"}]
    /\ released \in SUBSET Fibers /\ cancelRequested \in SUBSET Fibers
    /\ injection \in Seq(Fibers)
    /\ schedulerLock \in Threads \cup {Null}
    /\ current \in SUBSET Workers
    /\ parked = Cardinality({w \in Workers : pc[w] \in {"announced", "asleep"}})
    /\ pendingSignals \in Nat
    /\ conditionWaited \in SUBSET Workers
    /\ condition \in SUBSET {w \in conditionWaited : pc[w] = "asleep"}
    /\ \A p \in Publishers : pc[p] \in {"idle", "reserving", "counted"} \cup Notifying
    /\ \A w \in Workers : pc[w] \in
          {"loop", "pops", "runs", "suspends", "cancels", "observes", "decides",
           "asksPublishing", "rechecks", "mayExit", "mayExitToo", "waits", "tested",
           "announced", "asleep", "retests", "exited"} \cup Notifying
    /\ fiber \in [Threads -> Fibers \cup {Null}]
    /\ stopRequested \in BOOLEAN
    /\ cancelled \in SUBSET Workers /\ toCancel \in SUBSET Fibers

Init ==
    /\ injectionQueue \in BOOLEAN
    /\ status = [f \in Fibers |-> "invalid"]
    /\ released = {} /\ cancelRequested = {}
    /\ injection = <<>>
    /\ schedulerLock = Null
    /\ current = {} /\ condition = {} /\ conditionWaited = {}
    /\ parked = 0 /\ pendingSignals = 0
    /\ pc = [t \in Threads |-> Home(t)]
    /\ fiber = [t \in Threads |-> Null]
    /\ stopRequested = FALSE /\ cancelled = {} /\ toCancel = {}

Goes(t, from, to) == pc[t] = from /\ pc' = [pc EXCEPT ![t] = to]

-----------------------------------------------------------------------------
(* FiberWorkerPoolWakeEvent.                                               *)

\* Slips the code could have made, tried by the mutation runs.
SignalKept(w) == pendingSignals
SleepUntested(w) ==
    /\ Goes(w, "announced", "asleep")
    /\ condition' = condition \cup {w}
    /\ conditionWaited' = conditionWaited \cup {w}
    /\ UNCHANGED <<fibers, current, parked, pendingSignals, stopping, schedulerLock, fiber>>
WakeUncounted(w) ==
    /\ w \notin condition /\ MutexFree
    /\ Goes(w, "asleep", "retests")
    /\ UNCHANGED <<fibers, event, stopping, schedulerLock, fiber>>
LastWakesNobody(w) ==
    /\ Goes(w, "runs", "loop")
    /\ status' = [status EXCEPT ![fiber[w]] = "completed"]
    /\ fiber' = [fiber EXCEPT ![w] = Null]
    /\ UNCHANGED <<injectionQueue, released, cancelRequested, injection, event, stopping,
                   schedulerLock>>

\* notifyOne or notifyAll returns: requestCancelAll goes on with its next fiber,
\* every other caller is done and lets go of the scheduler lock if it holds it.
Notified(t) ==
    IF schedulerLock = t /\ toCancel # {}
    THEN pc' = [pc EXCEPT ![t] = "cancels"] /\ UNCHANGED schedulerLock
    ELSE /\ pc' = [pc EXCEPT ![t] = Home(t)]
         /\ schedulerLock' = IF schedulerLock = t THEN Null ELSE schedulerLock

Bump(t) ==
    /\ Goes(t, "notifyOne", "lookOne") \/ Goes(t, "notifyAll", "lookAll")
    /\ current' = {}
    /\ UNCHANGED <<fibers, parked, pendingSignals, condition, conditionWaited, stopping,
                   schedulerLock, fiber>>

Look(t) ==
    /\ \/ parked # 0 /\ Goes(t, "lookOne", "signalOne") /\ UNCHANGED schedulerLock
       \/ parked # 0 /\ Goes(t, "lookAll", "signalAll") /\ UNCHANGED schedulerLock
       \/ parked = 0 /\ pc[t] \in {"lookOne", "lookAll"} /\ Notified(t)
    /\ UNCHANGED <<fibers, event, stopping, fiber>>

SignalOne(t) ==
    /\ pc[t] = "signalOne" /\ MutexFree
    /\ IF pendingSignals < parked
       THEN pendingSignals' = pendingSignals + 1 /\ condition' \in Signal(condition)
       ELSE UNCHANGED <<pendingSignals, condition>>
    /\ Notified(t)
    /\ UNCHANGED <<fibers, current, parked, conditionWaited, stopping, fiber>>

SignalAll(t) ==
    /\ pc[t] = "signalAll" /\ MutexFree
    /\ pendingSignals' = parked
    /\ condition' = Broadcast(condition)
    /\ Notified(t)
    /\ UNCHANGED <<fibers, current, parked, conditionWaited, stopping, fiber>>

\* What a worker that leaves wait() makes of the signals.
SignalsLeft(w) ==
    IF w \in conditionWaited /\ pendingSignals > 0
    THEN pendingSignals - 1 ELSE pendingSignals

\* The head of the loop in wait(), with the mutex.
WaitTest(w) ==
    /\ \/ pc[w] = "waits" /\ MutexFree
       \/ pc[w] = "retests"
    /\ IF w \in current
       THEN /\ pc' = [pc EXCEPT ![w] = "tested"]
            /\ UNCHANGED <<pendingSignals, conditionWaited>>
       ELSE /\ pc' = [pc EXCEPT ![w] = "loop"]
            /\ pendingSignals' = SignalsLeft(w)
            /\ conditionWaited' = conditionWaited \ {w}
    /\ UNCHANGED <<fibers, current, parked, condition, stopping, schedulerLock, fiber>>

WaitAnnounce(w) ==
    /\ Goes(w, "tested", "announced")
    /\ parked' = parked + 1
    /\ UNCHANGED <<fibers, current, pendingSignals, condition, conditionWaited, stopping,
                   schedulerLock, fiber>>

\* The second test, after `parked` tells notifiers of this worker.
WaitSleep(w) ==
    /\ \/ /\ w \in current
          /\ Goes(w, "announced", "asleep")
          /\ condition' = condition \cup {w}
          /\ conditionWaited' = conditionWaited \cup {w}
          /\ UNCHANGED parked
       \/ /\ w \notin current
          /\ Goes(w, "announced", "retests")
          /\ parked' = parked - 1
          /\ UNCHANGED <<condition, conditionWaited>>
    /\ UNCHANGED <<fibers, current, pendingSignals, stopping, schedulerLock, fiber>>

\* pthread_cond_wait returns to a worker that was woken and got the mutex.
WaitWake(w) ==
    /\ w \notin condition /\ MutexFree
    /\ Goes(w, "asleep", "retests")
    /\ parked' = parked - 1
    /\ UNCHANGED <<fibers, current, pendingSignals, condition, conditionWaited, stopping,
                   schedulerLock, fiber>>

\* pthread_cond_wait may return although nobody signalled.
SpuriousWakeup ==
    /\ \E w \in condition : condition' = condition \ {w}
    /\ UNCHANGED <<fibers, current, parked, pendingSignals, conditionWaited, stopping,
                   schedulerLock, pc, fiber>>

-----------------------------------------------------------------------------
(* A fiber is in the injection queue once, or not at all.                  *)
Without(queue, f) ==
    IF Contains(queue, f)
    THEN RemoveAt(queue, CHOOSE i \in DOMAIN queue : queue[i] = f) ELSE queue

-----------------------------------------------------------------------------
(* Publication: spawn by a thread outside the pool, and the release of a   *)
(* counter a fiber may wait for.                                           *)

SpawnReserve(p, f) ==
    /\ injectionQueue
    /\ status[f] \in {"invalid", "completed"}
    /\ Goes(p, "idle", "reserving")
    /\ status' = [status EXCEPT ![f] = "reserved"]
    /\ injection' = Append(injection, f)
    /\ fiber' = [fiber EXCEPT ![p] = f]
    /\ UNCHANGED <<injectionQueue, released, cancelRequested, event, stopping, schedulerLock>>

\* Without an injection queue the scheduler stays locked until the end of spawn.
SpawnLocked(p, f) ==
    /\ ~injectionQueue /\ schedulerLock = Null
    /\ status[f] \in {"invalid", "completed"}
    /\ Goes(p, "idle", "counted")
    /\ status' = [status EXCEPT ![f] = "counted"]
    /\ released' = released \ {f} /\ cancelRequested' = cancelRequested \ {f}
    /\ schedulerLock' = p
    /\ fiber' = [fiber EXCEPT ![p] = f]
    /\ UNCHANGED <<injectionQueue, injection, event, stopping>>

SpawnCount(p) ==
    /\ Goes(p, "reserving", "counted")
    /\ status' = [status EXCEPT ![fiber[p]] = "counted"]
    /\ released' = released \ {fiber[p]} /\ cancelRequested' = cancelRequested \ {fiber[p]}
    /\ UNCHANGED <<injectionQueue, injection, event, stopping, schedulerLock, fiber>>

\* The task cannot be initialised: workers may have parked on its account.
SpawnFails(p) ==
    /\ IF Publishing = {p} /\ Active = {}
       THEN Goes(p, "reserving", "notifyAll") ELSE Goes(p, "reserving", "idle")
    /\ status' = [status EXCEPT ![fiber[p]] = "invalid"]
    /\ injection' = Without(injection, fiber[p])
    /\ fiber' = [fiber EXCEPT ![p] = Null]
    /\ UNCHANGED <<injectionQueue, released, cancelRequested, event, stopping, schedulerLock>>

\* publishInjection, or pushReadyUnlocked.
Publish(p) ==
    /\ Goes(p, "counted", "notifyOne")
    /\ status' = [status EXCEPT ![fiber[p]] = "ready"]
    /\ fiber' = [fiber EXCEPT ![p] = Null]
    /\ UNCHANGED <<injectionQueue, released, cancelRequested, injection, event, stopping, schedulerLock>>

\* `done` brings the counter of f to zero, by which a waiting f becomes ready.
Done(p, f) ==
    /\ schedulerLock = Null
    /\ f \in Active \ (released \cup cancelRequested)
    /\ released' = released \cup {f}
    /\ IF status[f] = "waiting"
       THEN /\ Goes(p, "idle", "notifyOne")
            /\ status' = [status EXCEPT ![f] = "ready"]
            /\ schedulerLock' = p
       ELSE pc[p] = "idle" /\ UNCHANGED <<pc, status, schedulerLock>>
    /\ UNCHANGED <<injectionQueue, cancelRequested, injection, event, stopping, fiber>>

RequestStop(p) ==
    /\ ~stopRequested /\ stopRequested' = TRUE
    /\ Goes(p, "idle", "notifyAll")
    /\ UNCHANGED <<fibers, event, cancelled, toCancel, schedulerLock, fiber>>

-----------------------------------------------------------------------------
(* workerMain.                                                             *)

\* The first worker steps after a stop request each call requestCancelAll.
CancelAll(w) ==
    /\ stopRequested /\ w \notin cancelled
    /\ schedulerLock = Null
    /\ cancelled' = cancelled \cup {w}
    /\ toCancel' = Active
    /\ IF Active = {} THEN pc[w] = "loop" /\ UNCHANGED <<pc, schedulerLock>>
                      ELSE Goes(w, "loop", "cancels") /\ schedulerLock' = w
    /\ UNCHANGED <<fibers, event, stopRequested, fiber>>

CancelNext(w) ==
    /\ pc[w] = "cancels"
    /\ \E f \in toCancel :
        /\ toCancel' = toCancel \ {f}
        /\ cancelRequested' = cancelRequested \cup {f}
        /\ \/ /\ status[f] = "waiting"
              /\ status' = [status EXCEPT ![f] = "ready"]
              /\ pc' = [pc EXCEPT ![w] = "notifyOne"]
              /\ UNCHANGED schedulerLock
           \/ /\ status[f] # "waiting"
              /\ IF toCancel = {f}
                 THEN pc' = [pc EXCEPT ![w] = "loop"] /\ schedulerLock' = Null
                 ELSE UNCHANGED <<pc, schedulerLock>>
              /\ UNCHANGED status
    /\ UNCHANGED <<injectionQueue, released, injection, event, stopRequested, cancelled, fiber>>

ReadsReady(w) ==
    /\ ~stopRequested \/ w \in cancelled
    /\ IF Ready # {} THEN Goes(w, "loop", "pops") ELSE Goes(w, "loop", "observes")
    /\ UNCHANGED <<fibers, event, stopping, schedulerLock, fiber>>

\* runNoWait.  Of the injection queue only the oldest reservation can be taken.
Pop(w) ==
    /\ schedulerLock = Null
    /\ LET takeable == {f \in Ready : f \in Range(injection) => f = Head(injection)}
       IN  \/ takeable = {} /\ Goes(w, "pops", "loop") /\ UNCHANGED <<status, injection, fiber>>
           \/ \E f \in takeable :
                /\ Goes(w, "pops", "runs")
                /\ status' = [status EXCEPT ![f] = "running"]
                /\ injection' = Without(injection, f)
                /\ fiber' = [fiber EXCEPT ![w] = f]
    /\ UNCHANGED <<injectionQueue, released, cancelRequested, event, stopping, schedulerLock>>

\* The fiber returns; who completes the last one wakes every worker.
Complete(w) ==
    /\ IF Active = {fiber[w]} THEN Goes(w, "runs", "notifyAll") ELSE Goes(w, "runs", "loop")
    /\ status' = [status EXCEPT ![fiber[w]] = "completed"]
    /\ fiber' = [fiber EXCEPT ![w] = Null]
    /\ UNCHANGED <<injectionQueue, released, cancelRequested, injection, event, stopping, schedulerLock>>

\* The fiber yields, and is published again by publishSuspensionUnlocked.
Yield(w) ==
    /\ fiber[w] \notin cancelRequested
    /\ schedulerLock = Null /\ schedulerLock' = w
    /\ Goes(w, "runs", "notifyOne")
    /\ status' = [status EXCEPT ![fiber[w]] = "ready"]
    /\ fiber' = [fiber EXCEPT ![w] = Null]
    /\ UNCHANGED <<injectionQueue, released, cancelRequested, injection, event, stopping>>

\* The fiber waits for its counter (waitImpl)...
Wait(w) ==
    /\ schedulerLock = Null /\ fiber[w] \notin released \cup cancelRequested
    /\ Goes(w, "runs", "suspends")
    /\ status' = [status EXCEPT ![fiber[w]] = "suspending"]
    /\ UNCHANGED <<injectionQueue, released, cancelRequested, injection, event, stopping, schedulerLock, fiber>>

\* ... unless that is released by now (publishSuspensionUnlocked).
PublishSuspension(w) ==
    /\ schedulerLock = Null
    /\ IF fiber[w] \in released \cup cancelRequested
       THEN /\ Goes(w, "suspends", "notifyOne")
            /\ status' = [status EXCEPT ![fiber[w]] = "ready"]
            /\ schedulerLock' = w
       ELSE /\ Goes(w, "suspends", "loop")
            /\ status' = [status EXCEPT ![fiber[w]] = "waiting"]
            /\ UNCHANGED schedulerLock
    /\ fiber' = [fiber EXCEPT ![w] = Null]
    /\ UNCHANGED <<injectionQueue, released, cancelRequested, injection, event, stopping>>

Observe(w) ==
    /\ Goes(w, "observes", "decides")
    /\ current' = current \cup {w}
    /\ UNCHANGED <<fibers, parked, pendingSignals, condition, conditionWaited, stopping,
                   schedulerLock, fiber>>

\* Whether to park: with work about, but none of it ready; or to leave.
Decide(w) ==
    /\ CASE pc[w] = "decides" ->
              pc' = [pc EXCEPT ![w] = IF stopRequested THEN "mayExit"
                                      ELSE IF Active # {} THEN "rechecks" ELSE "asksPublishing"]
         [] pc[w] = "asksPublishing" ->
              pc' = [pc EXCEPT ![w] = IF Publishing # {} THEN "rechecks" ELSE "mayExit"]
         [] pc[w] = "rechecks" ->
              pc' = [pc EXCEPT ![w] = IF Ready = {} THEN "waits" ELSE "mayExit"]
         [] pc[w] = "mayExit" ->
              pc' = [pc EXCEPT ![w] = IF Active = {} THEN "mayExitToo" ELSE "loop"]
         [] pc[w] = "mayExitToo" ->
              pc' = [pc EXCEPT ![w] = IF Publishing = {} THEN "exited" ELSE "loop"]
         [] OTHER -> FALSE
    /\ UNCHANGED <<fibers, event, stopping, schedulerLock, fiber>>

-----------------------------------------------------------------------------

Notify(t) == Bump(t) \/ Look(t) \/ SignalOne(t) \/ SignalAll(t)

\* What a worker does without being asked; whether a fiber yields or waits is
\* up to it.
Work(w) ==
    \/ WaitTest(w) \/ WaitAnnounce(w) \/ WaitSleep(w) \/ WaitWake(w)
    \/ CancelAll(w) \/ CancelNext(w) \/ ReadsReady(w) \/ Pop(w)
    \/ PublishSuspension(w) \/ Observe(w) \/ Decide(w)

GoOn(p) == SpawnCount(p) \/ SpawnFails(p) \/ Publish(p)

Call(p) ==
    \/ \E f \in Fibers : SpawnReserve(p, f) \/ SpawnLocked(p, f) \/ Done(p, f)
    \/ RequestStop(p)

Next ==
    \/ \E t \in Threads : Notify(t)
    \/ \E w \in Workers : Work(w) \/ Complete(w) \/ Yield(w) \/ Wait(w)
    \/ \E p \in Publishers : Call(p) \/ GoOn(p)
    \/ SpuriousWakeup

Spec == Init /\ [][Next]_vars

\* The operating system runs every thread; nobody has to call the pool or to
\* release a counter; and a fiber that gets to run again and again returns.
Fairness ==
    /\ \A t \in Threads : WF_vars(Notify(t))
    /\ \A w \in Workers : WF_vars(Work(w)) /\ SF_vars(Complete(w))
    /\ \A p \in Publishers : WF_vars(GoOn(p))

FairSpec == Spec /\ Fairness

-----------------------------------------------------------------------------

Exited == {w \in Workers : pc[w] = "exited"}

\* FiberWorkerPoolWakeEvent: "no ready publication can be lost between recheck
\* and parking": while a fiber is ready a worker is awake or about to be woken.
NoFiberForgotten ==
    Ready # {} =>
        \/ \E w \in Workers \ Exited : w \notin condition
        \/ \E t \in Threads : pc[t] \in Notifying
        \/ Exited = Workers

\* FiberWorkerPool: so it is at least where spawn keeps the scheduler locked.
NoFiberForgottenUnderLock == injectionQueue \/ NoFiberForgotten

\* FiberWorkerPoolWakeEvent: pendingSignals never outnumbers the parked workers,
\* so that it is zero when a pool is started again (resetDiagnostics asserts it).
SignalsWithinParked == MutexFree => pendingSignals <= parked

\* FiberWorkerPool::join, shutdown: every worker leaves when all fibers are through,
\* and also, although fibers wait, when stop is requested and spawn is no more called.
WorkersLeave ==
    LET spawned(from) == \A f \in Fibers : status[f] \notin from IN
    /\ <>[](Active = {} /\ spawned({"reserved"})) => <>(Exited = Workers)
    /\ [](stopRequested => spawned({"reserved", "counted"}))
           => (stopRequested ~> Exited = Workers)
=============================================================================
