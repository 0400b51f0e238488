------------------------------ MODULE FiberSync ------------------------------
(***************************************************************************)
(* FiberEvent, FiberAutoResetEvent, FiberSemaphore and FiberMutex          *)
(* (Libraries/Fibers/Fibers.cpp) over the part of FiberScheduler that      *)
(* suspends, wakes and cancels a fiber.  The four share one protocol: who  *)
(* waits queues a node on its own stack and waits for the node's counter;  *)
(* who signals takes the first node under the lock of the primitive, and   *)
(* counts its counter down after it let go of that lock.                   *)
(*                                                                         *)
(* An action is what a thread does under one lock.  A behaviour has one    *)
(* primitive, setting.kind, for the fibers setting.fibers that are run by  *)
(* setting.workers; setting.usage says what else is done:                  *)
(*   "outside"  threads that are no fibers signal                          *)
(*   "cancel"   fibers are cancelled, at any time                          *)
(*   "reset"    fibers reset the event                                     *)
(* MaxCredit bounds what a semaphore is given.                             *)
(***************************************************************************)
EXTENDS Integers, SequencesExt, FiniteSets

CONSTANTS Fibers, Outside, Null, Settings, MaxCredit

FiberSyncAssumption ==
    /\ IsFiniteSet(Fibers) /\ IsFiniteSet(Outside) /\ Fibers \cap Outside = {}
    /\ Null \notin Fibers
    /\ MaxCredit \in Nat

\* The usages in which a waiter cannot leave, or wait again, between the two steps of a
\* signal: with one worker and no threads outside nobody else runs then.
SoundUsages ==
    \A s \in Settings :
        "cancel" \in s.usage \/ ("reset" \in s.usage /\ s.kind = "event") =>
            s.workers = 1 /\ "outside" \notin s.usage

Callers == Fibers \cup Outside

VARIABLES
    setting,
    permits,           \* availableCount; `signaled` and `not locked` are 0 or 1
    owner,             \* of the mutex
    queue,             \* the fibers whose nodes are reached from waitHead
    waitTail,
    node,              \* each fiber's node: "queued", "notified" with its counter at
                       \* one, "done" with its counter at zero, "none" outside of a wait
    status, cancelRequested,
    pc,
    popped,            \* the node that a signalling thread took
    left,              \* how many permits it has still to hand out
    credit             \* permits put in and not taken out for good (history variable)

grants == <<permits, owner, credit>>
waiters == <<queue, waitTail>>
tasks == <<status, cancelRequested>>
calls == <<popped, left>>
vars == <<setting, grants, waiters, node, tasks, pc, calls>>

kind == setting.kind
Uses(u) == u \in setting.usage

Locations == {"out", "waits", "tested", "suspended", "woken", "failed", "passesOn", "holds",
              "wakes", "signals"}
Statuses == {"ready", "running", "suspending", "waiting", "completed"}

TypeOK ==
    /\ setting \in Settings
    /\ permits \in Nat /\ credit \in Nat
    /\ owner \in Fibers \cup {Null} /\ waitTail \in Fibers \cup {Null}
    /\ queue \in Seq(Fibers)
    /\ node \in [Fibers -> {"none", "queued", "notified", "done"}]
    /\ status \in [Fibers -> Statuses]
    /\ cancelRequested \in [Fibers -> BOOLEAN]
    /\ pc \in [Callers -> Locations]
    /\ popped \in [Callers -> Fibers \cup {Null}]
    /\ left \in [Callers -> 0 .. MaxCredit]

Init ==
    /\ setting \in Settings
    /\ permits \in IF kind \in {"event", "autoReset"} THEN {0, 1} ELSE {1}
    /\ credit = permits
    /\ owner = Null /\ waitTail = Null /\ queue = <<>>
    /\ node = [f \in Fibers |-> "none"]
    /\ status = [f \in Fibers |-> IF f \in setting.fibers THEN "ready" ELSE "completed"]
    /\ cancelRequested = [f \in Fibers |-> FALSE]
    /\ pc = [t \in Callers |-> "out"]
    /\ popped = [t \in Callers |-> Null] /\ left = [t \in Callers |-> 0]

Goes(t, from, to) == pc[t] = from /\ pc' = [pc EXCEPT ![t] = to]

-----------------------------------------------------------------------------
(* FiberScheduler                                                          *)

\* The root context of a worker switches to a ready fiber, or back.
Run(f) ==
    /\ status[f] = "ready"
    /\ Cardinality({g \in Fibers : status[g] \in {"running", "suspending"}}) < setting.workers
    /\ status' = [status EXCEPT ![f] = "running"]
    /\ UNCHANGED <<setting, grants, waiters, node, cancelRequested, pc, calls>>

Yield(f) ==
    /\ status[f] = "running" /\ pc[f] \in {"out", "holds"} /\ ~cancelRequested[f]
    /\ status' = [status EXCEPT ![f] = "ready"]
    /\ UNCHANGED <<setting, grants, waiters, node, cancelRequested, pc, calls>>

Complete(f) ==
    /\ status[f] = "running" /\ pc[f] = "out"
    /\ status' = [status EXCEPT ![f] = "completed"]
    /\ UNCHANGED <<setting, grants, waiters, node, cancelRequested, pc, calls>>

\* A task that completed is spawned again.
Spawn(f) ==
    /\ f \in setting.fibers /\ status[f] = "completed"
    /\ status' = [status EXCEPT ![f] = "ready"]
    /\ cancelRequested' = [cancelRequested EXCEPT ![f] = FALSE]
    /\ UNCHANGED <<setting, grants, waiters, node, pc, calls>>

\* wait() of the counter in the node: may it have reached zero already?
TestCounter(f) ==
    /\ status[f] = "running"
    /\ IF node[f] = "done" THEN Goes(f, "waits", "woken") ELSE Goes(f, "waits", "tested")
    /\ UNCHANGED <<setting, grants, waiters, node, tasks, calls>>

Suspend(f) ==
    /\ status[f] = "running"
    /\ IF cancelRequested[f]
       THEN Goes(f, "tested", "failed") /\ UNCHANGED status
       ELSE /\ Goes(f, "tested", "suspended")
            /\ status' = [status EXCEPT ![f] = "suspending"]
    /\ UNCHANGED <<setting, grants, waiters, node, cancelRequested, calls>>

\* A slip this method could have made, tried by the mutation runs.
PublishUntested(f) ==
    /\ status[f] = "suspending"
    /\ status' = [status EXCEPT ![f] = "waiting"]
    /\ UNCHANGED <<setting, grants, waiters, node, cancelRequested, pc, calls>>

\* The worker tells the scheduler after it left the fiber's stack: nothing that came in
\* between may be missed.
PublishSuspension(f) ==
    /\ status[f] = "suspending"
    /\ status' = [status EXCEPT ![f] =
                    IF node[f] = "done" \/ cancelRequested[f] THEN "ready" ELSE "waiting"]
    /\ UNCHANGED <<setting, grants, waiters, node, cancelRequested, pc, calls>>

Resume(f) ==
    /\ status[f] = "running"
    /\ IF cancelRequested[f] THEN Goes(f, "suspended", "failed") ELSE Goes(f, "suspended", "woken")
    /\ UNCHANGED <<setting, grants, waiters, node, tasks, calls>>

\* cancelTaskUnlocked
Cancel(f) ==
    /\ Uses("cancel") /\ ~cancelRequested[f] /\ status[f] # "completed"
    /\ cancelRequested' = [cancelRequested EXCEPT ![f] = TRUE]
    /\ status' = IF status[f] = "waiting" THEN [status EXCEPT ![f] = "ready"] ELSE status
    /\ UNCHANGED <<setting, grants, waiters, node, pc, calls>>

-----------------------------------------------------------------------------
(* The queue of nodes                                                      *)

QueueWaiter(f) ==
    /\ queue' = IF waitTail = Null THEN <<f>>
                ELSE IF queue # <<>> /\ Last(queue) = waitTail THEN Append(queue, f)
                ELSE queue   \* linked to a node that is in the queue no more
    /\ waitTail' = f

PopWaiter ==
    /\ queue # <<>> /\ queue' = Tail(queue)
    /\ waitTail' = IF Len(queue) = 1 THEN Null ELSE waitTail

\* Another: the tail is left at the node that is taken out.
RemoveForgetsTail(f) ==
    /\ queue' = RemoveFirst(queue, f)
    /\ UNCHANGED waitTail

RemoveWaiter(f) ==
    /\ queue' = RemoveFirst(queue, f)
    /\ waitTail' = IF waitTail # f THEN waitTail
                   ELSE IF queue' = <<>> THEN Null ELSE Last(queue')

-----------------------------------------------------------------------------
(* Waiting                                                                 *)

Blocks(f) ==
    /\ permits = 0
    /\ QueueWaiter(f)
    /\ node' = [node EXCEPT ![f] = "queued"]
    /\ Goes(f, "out", "waits")
    /\ UNCHANGED grants

EventWait(f) ==
    /\ kind = "event"
    /\ \/ permits = 1 /\ UNCHANGED <<grants, waiters, node, pc>>
       \/ Blocks(f)

AutoResetWait(f) ==
    /\ kind = "autoReset"
    /\ \/ /\ permits = 1
          /\ permits' = 0 /\ credit' = credit - 1
          /\ UNCHANGED <<owner, waiters, node, pc>>
       \/ Blocks(f)

SemaphoreWait(f) ==
    /\ kind = "semaphore"
    /\ \/ /\ permits # 0
          /\ permits' = permits - 1
          /\ Goes(f, "out", "holds")
          /\ UNCHANGED <<owner, credit, waiters, node>>
       \/ Blocks(f)

MutexLock(f) ==
    /\ kind = "mutex"
    /\ \/ /\ permits = 1
          /\ permits' = 0 /\ owner' = f
          /\ Goes(f, "out", "holds")
          /\ UNCHANGED <<credit, waiters, node>>
       \/ Blocks(f)

Wait(f) ==
    /\ status[f] = "running" /\ pc[f] = "out"
    /\ EventWait(f) \/ AutoResetWait(f) \/ SemaphoreWait(f) \/ MutexLock(f)
    /\ UNCHANGED <<setting, tasks, calls>>

\* The wait ends well: who waited for a semaphore or a mutex holds it now.
WaitReturns(f) ==
    /\ status[f] = "running"
    /\ node' = [node EXCEPT ![f] = "none"]
    /\ \/ kind \in {"semaphore", "mutex"} /\ Goes(f, "woken", "holds") /\ UNCHANGED credit
       \/ kind = "autoReset" /\ Goes(f, "woken", "out") /\ credit' = credit - 1
       \/ kind = "event" /\ Goes(f, "woken", "out") /\ UNCHANGED credit
    /\ UNCHANGED <<setting, permits, owner, waiters, tasks, calls>>

\* Another: what a cancelled wait was given is lost with it.
FailsForGood(f) ==
    /\ status[f] = "running"
    /\ node' = [node EXCEPT ![f] = "none"] /\ Goes(f, "failed", "out")
    /\ IF node[f] = "queued" THEN RemoveWaiter(f) ELSE UNCHANGED waiters
    /\ UNCHANGED <<setting, grants, tasks, calls>>

\* The wait was cancelled: the node is taken out, or what it was given is passed on.
WaitFails(f) ==
    /\ status[f] = "running"
    /\ \/ /\ node[f] = "queued"
          /\ RemoveWaiter(f)
          /\ node' = [node EXCEPT ![f] = "none"] /\ Goes(f, "failed", "out")
       \/ /\ node[f] # "queued" /\ kind = "event"
          /\ node' = [node EXCEPT ![f] = "none"] /\ Goes(f, "failed", "out")
          /\ UNCHANGED waiters
       \/ /\ node[f] # "queued" /\ kind # "event"
          /\ Goes(f, "failed", "passesOn")
          /\ UNCHANGED <<waiters, node>>
    /\ UNCHANGED <<setting, grants, tasks, calls>>

-----------------------------------------------------------------------------
(* Signalling                                                              *)

\* signal or unlock returns, and the cancelled wait with it that passed its permit on.
Returns(t) ==
    /\ pc' = [pc EXCEPT ![t] = "out"]
    /\ node' = IF t \in Fibers THEN [node EXCEPT ![t] = "none"] ELSE node
    /\ left' = [left EXCEPT ![t] = 0]

\* The first node is notified under the lock of the primitive...
Notify(t) ==
    /\ node' = [node EXCEPT ![Head(queue)] = "notified"]
    /\ popped' = [popped EXCEPT ![t] = Head(queue)]
    /\ pc' = [pc EXCEPT ![t] = "wakes"]

\* ... and done() of its counter called without, which makes its fiber ready.
Done(t) ==
    /\ pc[t] = "wakes"
    /\ LET f == popped[t]
           woken == [node EXCEPT ![f] = "done"]
       IN  /\ status' = IF status[f] = "waiting" THEN [status EXCEPT ![f] = "ready"] ELSE status
           /\ IF kind \in {"event", "semaphore"}
              THEN node' = woken /\ Goes(t, "wakes", "signals") /\ UNCHANGED left
              ELSE /\ node' = IF t \in Fibers THEN [woken EXCEPT ![t] = "none"] ELSE woken
                   /\ Goes(t, "wakes", "out") /\ UNCHANGED left
    /\ popped' = [popped EXCEPT ![t] = Null]
    /\ UNCHANGED <<setting, grants, waiters, cancelRequested>>

\* FiberEvent::signal: the loop over the queue, whose tail is reset at its end.
EventNotifies(t) ==
    \/ /\ queue = <<>> /\ waitTail' = Null
       /\ Returns(t) /\ UNCHANGED <<queue, popped>>
    \/ /\ queue # <<>> /\ queue' = Tail(queue)
       /\ Notify(t) /\ UNCHANGED <<waitTail, left>>

EventSignal(t) ==
    /\ kind = "event"
    /\ \/ pc[t] = "out" /\ permits' = 1 /\ credit' = 1
       \/ pc[t] = "signals" /\ UNCHANGED <<permits, credit>>
    /\ EventNotifies(t)
    /\ UNCHANGED owner

\* Signals merge while nobody waits.
AutoResetSignal(t) ==
    /\ kind = "autoReset"
    /\ pc[t] \in {"out", "passesOn"}
    /\ \/ /\ queue = <<>> /\ permits' = 1
          /\ Returns(t) /\ UNCHANGED <<waiters, popped>>
       \/ /\ PopWaiter /\ Notify(t) /\ UNCHANGED <<permits, left>>
    /\ credit' = credit + (IF pc[t] = "out" THEN 1 ELSE 0)
                        - (IF queue = <<>> THEN permits ELSE 0)
    /\ UNCHANGED owner

\* FiberSemaphore::signal, from a test of its loop on that has n permits to give.
SemaphoreGives(t, n) ==
    \/ /\ n = 0 \/ queue = <<>>
       /\ permits' = permits + n
       /\ Returns(t) /\ UNCHANGED <<waiters, popped>>
    \/ /\ n # 0 /\ PopWaiter
       /\ Notify(t) /\ left' = [left EXCEPT ![t] = n - 1] /\ UNCHANGED permits

SemaphoreSignal(t) ==
    /\ kind = "semaphore"
    /\ \/ \E n \in 1 .. MaxCredit - credit :
            pc[t] = "out" /\ credit' = credit + n /\ SemaphoreGives(t, n)
       \/ pc[t] \in {"holds", "passesOn"} /\ SemaphoreGives(t, 1) /\ UNCHANGED credit
       \/ pc[t] = "signals" /\ SemaphoreGives(t, left[t]) /\ UNCHANGED credit
    /\ UNCHANGED owner

\* Another: the waiter takes the mutex only once it runs.
UnlockDisowns(f) ==
    /\ kind = "mutex" /\ pc[f] \in {"holds", "passesOn"}
    /\ \/ /\ queue = <<>> /\ permits' = 1 /\ owner' = Null
          /\ Returns(f) /\ UNCHANGED <<waiters, popped>>
       \/ /\ PopWaiter /\ owner' = Null
          /\ Notify(f) /\ UNCHANGED <<permits, left>>
    /\ UNCHANGED credit

\* The mutex belongs to the waiter before anybody can know that it was woken.
MutexUnlock(f) ==
    /\ kind = "mutex"
    /\ pc[f] \in {"holds", "passesOn"}
    /\ \/ /\ queue = <<>> /\ permits' = 1 /\ owner' = Null
          /\ Returns(f) /\ UNCHANGED <<waiters, popped>>
       \/ /\ PopWaiter /\ owner' = Head(queue)
          /\ Notify(f) /\ UNCHANGED <<permits, left>>
    /\ UNCHANGED credit

Signal(t) ==
    /\ t \in Fibers => status[t] = "running"
    /\ t \in Outside => Uses("outside") /\ kind # "mutex"
    /\ EventSignal(t) \/ AutoResetSignal(t) \/ SemaphoreSignal(t) \/ MutexUnlock(t)
    /\ UNCHANGED <<setting, tasks>>

Reset(f) ==
    /\ kind \in {"event", "autoReset"} /\ Uses("reset")
    /\ status[f] = "running" /\ pc[f] = "out"
    /\ permits' = 0
    /\ credit' = IF kind = "event" THEN 0 ELSE credit - permits
    /\ UNCHANGED <<setting, owner, waiters, node, tasks, pc, calls>>

-----------------------------------------------------------------------------

Next ==
    \/ \E f \in Fibers :
        \/ Spawn(f) \/ Run(f) \/ Yield(f) \/ Complete(f) \/ Cancel(f)
        \/ Wait(f) \/ TestCounter(f) \/ Suspend(f) \/ PublishSuspension(f) \/ Resume(f)
        \/ WaitReturns(f) \/ WaitFails(f) \/ Reset(f)
    \/ \E t \in Callers : Signal(t) \/ Done(t)

Spec == Init /\ [][Next]_vars

-----------------------------------------------------------------------------

Granted ==
    {f \in Fibers : \/ pc[f] = "holds"
                    \/ node[f] \in {"notified", "done"} /\ pc[f] \notin {"wakes", "signals"}}

\* What a caller of FiberSemaphore::signal has still to hand out, permit by permit.
ToGive == {g \in Callers \X (1 .. MaxCredit) : g[2] <= left[g[1]]}

\* Fibers.md: "one-shot ownership from an auto-reset event, semaphore, or mutex is
\* transferred to another waiter or retained for the next wait rather than being lost":
\* whoever is cancelled after it was selected, every permit is kept, held, in transit to a
\* waiter or still to be given, and there is none that nobody put in.
PermitsKept ==
    kind # "event" =>
        permits + Cardinality(Granted) + Cardinality(ToGive) = credit

\* FIBERS-0016: the mutex is owned from unlock to the waiter it was handed to, cancelled or
\* not, so that both assertions on the owner hold.
HandedOver ==
    kind = "mutex" => (permits = 1 <=> owner = Null) /\ Granted \subseteq {owner}

\* Nobody waits for what is there, except for an event whose signal is not done yet.
NobodyWaitsInVain ==
    permits # 0 /\ queue # <<>> =>
        kind = "event" /\ \E t \in Callers : pc[t] \in {"wakes", "signals"}

\* FIBERS-0008: a node is reached from the queue until it is popped or taken out, and
\* exists until whoever popped it is done with it.
NodesReached ==
    /\ \A f \in Fibers : node[f] = "queued" => Contains(queue, f)
    /\ \A t \in Callers : pc[t] = "wakes" => node[popped[t]] = "notified"

\* No fiber is left suspended whose counter is at zero or that was cancelled, however the
\* wake-up, the cancellation and the steps of its suspension mix.
NobodySleepsOn ==
    \A f \in Fibers :
        status[f] = "waiting" => node[f] \in {"queued", "notified"} /\ ~cancelRequested[f]

WaitsSound == PermitsKept /\ HandedOver /\ NobodyWaitsInVain /\ NodesReached /\ NobodySleepsOn
=============================================================================
