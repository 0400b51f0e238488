----------------------------- MODULE LoopMonitor -----------------------------
(***************************************************************************)
(* SC::AsyncEventLoopMonitor (Libraries/Async/Async.cpp): a thread of its  *)
(* own polls the loop of an application, which takes the loop back to      *)
(* submit requests and to dispatch completions.  The two hand the loop     *)
(* over with two event objects, and the application interrupts the poll    *)
(* with a wake-up request.                                                 *)
(*                                                                         *)
(* The loop and the wake-ups are those of LoopWakeUp.  While no monitor    *)
(* exists the thread of the application drives the loop as it does there.  *)
(* Each event object has one waiter, and its wait is one step, enabled     *)
(* once the object is signalled: module EventObject shows why it may.      *)
(***************************************************************************)
EXTENDS LoopWakeUp

CONSTANTS
    App,              \* the thread of the application
    MonitorWakeUp,    \* eventLoopWakeUp
    MaxMonitored,     \* bound on the starts and on the wake-ups with a monitor, created first
    Recreates         \* the application calls create() again after close()

ASSUME LoopMonitorAssumption ==
    /\ App \in Threads
    /\ MonitorWakeUp \in Coalesce
    /\ MaxMonitored \in Nat
    /\ Recreates \in BOOLEAN

VARIABLES
    monitored,     \* the monitor has a loop: eventLoop # nullptr
    app,           \* where the application is in a method of the monitor
    monitor,       \* where the monitoring thread is
    enterBlockingMode, exitBlockingMode,    \* the event objects, signalled or not
    needsWakeUp, finished,
    wakeUpHasBeenCalled, wakeUpMustBeSent

handshake == <<enterBlockingMode, exitBlockingMode, needsWakeUp, finished>>
answers == <<wakeUpHasBeenCalled, wakeUpMustBeSent>>
monitorVars == <<monitored, app, monitor, handshake, answers>>
all == <<vars, monitorVars>>

MonitorTypeOK ==
    /\ app \in {"idle", "submit", "enter", "wake", "await", "reset", "dispatch", "run",
                "finish", "interrupt", "join"}
    /\ monitor \in {"none", "enter", "poll", "polled", "exit", "test"}
    /\ {monitored, enterBlockingMode, exitBlockingMode, needsWakeUp, finished,
        wakeUpHasBeenCalled, wakeUpMustBeSent} \subseteq BOOLEAN

\* LoopWakeUp, LoopMonitor: their state stays in its types.
TypesOK == TypeOK /\ MonitorTypeOK

MonitorInit ==
    /\ Init
    /\ monitored = FALSE /\ app = "idle" /\ monitor = "none"
    /\ enterBlockingMode = FALSE /\ exitBlockingMode = FALSE
    /\ needsWakeUp = TRUE /\ finished = FALSE
    /\ wakeUpHasBeenCalled = FALSE /\ wakeUpMustBeSent = FALSE

-----------------------------------------------------------------------------
(* The application: create, startMonitoring                                *)

\* Before anything else happens, as MaxMonitored says, or, a usage of its own, after close().
MayCreate == IF finished THEN Recreates ELSE starts = 0 /\ calls = 0

Create ==
    /\ ~monitored /\ loop = "idle" /\ MayCreate
    /\ Start(MonitorWakeUp)
    /\ monitored' = TRUE /\ monitor' = "enter"
    /\ UNCHANGED <<app, handshake, answers>>

StartMonitoring ==
    /\ monitored /\ app = "idle" /\ RunStep
    /\ app' = "submit"
    /\ UNCHANGED <<monitored, monitor, handshake, answers>>

SubmitForMonitor ==
    /\ app = "submit" /\ SubmitRequests
    /\ UNCHANGED monitorVars

SubmittedForMonitor ==
    /\ app = "submit" /\ SubmitDone
    /\ app' = "enter"
    /\ UNCHANGED <<monitored, monitor, handshake, answers>>

EnterBlockingMode ==
    /\ app = "enter" /\ app' = "idle"
    /\ enterBlockingMode' = TRUE
    /\ UNCHANGED <<vars, monitored, monitor, exitBlockingMode, needsWakeUp, finished, answers>>

-----------------------------------------------------------------------------
(* The monitoring thread                                                   *)

WaitEnter ==
    /\ monitor = "enter" /\ enterBlockingMode
    /\ enterBlockingMode' = FALSE
    /\ monitor' = "poll"
    /\ UNCHANGED <<vars, monitored, app, exitBlockingMode, needsWakeUp, finished, answers>>

MonitorPoll ==
    /\ monitor = "poll" /\ PollReturns
    /\ monitor' = "polled"
    /\ UNCHANGED <<monitored, app, handshake, answers>>

\* The poll is over; onNewEventsAvailable is called next.
NeedsNoWakeUp ==
    /\ monitor = "polled" /\ monitor' = "exit"
    /\ needsWakeUp' = FALSE
    /\ UNCHANGED <<vars, monitored, app, enterBlockingMode, exitBlockingMode, finished, answers>>

ExitBlockingMode ==
    /\ monitor = "exit" /\ monitor' = "test"
    /\ exitBlockingMode' = TRUE
    /\ UNCHANGED <<vars, monitored, app, enterBlockingMode, needsWakeUp, finished, answers>>

TestFinished ==
    /\ monitor = "test"
    /\ monitor' = IF finished THEN "none" ELSE "enter"
    /\ UNCHANGED <<vars, monitored, app, handshake, answers>>

-----------------------------------------------------------------------------
(* The application: stopMonitoringAndDispatchCompletions, called once for  *)
(* every startMonitoring                                                   *)

StopMonitoring ==
    /\ monitored /\ app = "idle" /\ loop # "idle" /\ ~finished
    /\ wakeUpMustBeSent' = needsWakeUp
    /\ wakeUpHasBeenCalled' = (wakeUpHasBeenCalled /\ ~needsWakeUp)
    /\ app' = IF needsWakeUp THEN "wake" ELSE "await"
    /\ UNCHANGED <<vars, monitored, monitor, handshake>>

InterruptPoll ==
    /\ app = "wake" /\ AddWakeUp(App, MonitorWakeUp)
    /\ app' = "await"
    /\ UNCHANGED <<calls, monitored, monitor, handshake, answers>>

\* The step of the application waits for its wakeUp to return.
WaitExit ==
    /\ app = "await" /\ thread[App] = "idle" /\ exitBlockingMode
    /\ exitBlockingMode' = FALSE
    /\ app' = "reset"
    /\ UNCHANGED <<vars, monitored, monitor, enterBlockingMode, needsWakeUp, finished, answers>>

\* Slip: the flag is left as the monitoring thread set it.
NeverNeedsWakeUpAgain ==
    /\ app = "reset" /\ app' = "dispatch"
    /\ UNCHANGED <<vars, monitored, monitor, handshake, answers>>

NeedsWakeUpAgain ==
    /\ app = "reset" /\ app' = "dispatch"
    /\ needsWakeUp' = TRUE
    /\ UNCHANGED <<vars, monitored, monitor, enterBlockingMode, exitBlockingMode, finished, answers>>

\* A wake-up that the poll did not see is consumed by one more step of the loop.
Dispatched ==
    /\ app = "dispatch" /\ loop = "idle"
    /\ IF wakeUpMustBeSent /\ ~wakeUpHasBeenCalled
       THEN app' = "run" /\ RunStep
       ELSE app' = "idle" /\ UNCHANGED vars
    /\ wakeUpMustBeSent' = FALSE
    /\ UNCHANGED <<monitored, monitor, handshake, wakeUpHasBeenCalled>>

RunOnceReturns ==
    /\ app = "run" /\ loop = "idle"
    /\ app' = "idle"
    /\ UNCHANGED <<vars, monitored, monitor, handshake, answers>>

-----------------------------------------------------------------------------
(* The application: close                                                  *)

CloseMonitor ==
    /\ monitored /\ app = "idle"
    /\ finished' = TRUE
    /\ app' = "finish"
    /\ UNCHANGED <<vars, monitored, monitor, enterBlockingMode, exitBlockingMode, needsWakeUp, answers>>

\* Nobody waits for exitBlockingMode any more, so that both signals are one step.
CloseSignals ==
    /\ app = "finish" /\ app' = "interrupt"
    /\ enterBlockingMode' = TRUE /\ exitBlockingMode' = TRUE
    /\ UNCHANGED <<vars, monitored, monitor, needsWakeUp, finished, answers>>

CloseInterrupts ==
    /\ app = "interrupt" /\ app' = "join"
    /\ thread' = [thread EXCEPT ![App] = "notify"]
    /\ UNCHANGED <<lists, pendingWakeUps, wakeUpPending, eventFd, loop, walk, bounds,
                   monitored, monitor, handshake, answers>>

\* The events of the last poll are dropped and eventLoopWakeUp is stopped.
Joined ==
    /\ app = "join" /\ thread[App] = "idle" /\ monitor = "none"
    /\ app' = "idle" /\ monitored' = FALSE
    /\ loop' = "idle" /\ ready' = FALSE
    /\ StopRequest(MonitorWakeUp)
    /\ UNCHANGED <<pendingWakeUps, wakeUpPending, eventFd, thread, cursor, current,
                   reactivated, asserted, bounds, monitor, handshake, answers>>

-----------------------------------------------------------------------------
(* The loop and its user, on the thread of the application                 *)

\* The code of eventLoopWakeUp's callback, and the code of the user.
MonitorCallback ==
    /\ current = MonitorWakeUp /\ ReactivateRequest
    /\ wakeUpHasBeenCalled' = TRUE
    /\ UNCHANGED <<monitored, app, monitor, handshake, wakeUpMustBeSent>>

AppHasLoop == IF monitored THEN \/ app = "idle" /\ loop = "idle"
                                \/ app \in {"dispatch", "run"}
                           ELSE app = "idle"

WithinBounds(n) == monitor # "none" \/ finished => n < MaxMonitored

UserStep ==
    /\ AppHasLoop /\ current # MonitorWakeUp
    /\ \/ ReactivateRequest
       \/ \E r \in Requests \ {MonitorWakeUp} : (WithinBounds(starts) /\ Start(r)) \/ Stop(r)
    /\ UNCHANGED monitorVars

\* Steps of the loop that run to their end once the application drives the loop. Without
\* a monitor the application steps the loop at will.
Drives == app \in {"dispatch", "run"} \/ ~monitored

LoopGoesOn ==
    /\ Drives
    /\ \/ ~monitored /\ RunStep
       \/ SubmitRequests \/ SubmitDone \/ (eventFd /\ BlockingPoll)
       \/ ReadEvent \/ CancellationsDone \/ ReleaseLatch \/ ExecuteWakeUp
       \/ (reactivated \/ current # MonitorWakeUp) /\ CallbackReturns
       \/ AfterCallback \/ LoopNotify \/ LoopWrite
    /\ UNCHANGED monitorVars

LoopPolls == Drives /\ BlockingPoll /\ UNCHANGED monitorVars

OtherThreads ==
    /\ \/ \E t \in Threads \ {App}, r \in Requests \ {MonitorWakeUp} :
              WithinBounds(calls) /\ WakeUp(t, r)
       \/ \E t \in Threads : Notify(t) \/ Write(t)
    /\ UNCHANGED monitorVars

-----------------------------------------------------------------------------

\* Calls of the application go on until they return, callbacks included.
AppGoesOn ==
    \/ SubmitForMonitor \/ SubmittedForMonitor \/ EnterBlockingMode
    \/ InterruptPoll \/ WaitExit \/ NeedsWakeUpAgain \/ Dispatched \/ RunOnceReturns
    \/ CloseSignals \/ CloseInterrupts \/ Joined
    \/ LoopGoesOn \/ MonitorCallback

MonitorGoesOn ==
    WaitEnter \/ (eventFd /\ MonitorPoll) \/ NeedsNoWakeUp \/ ExitBlockingMode \/ TestFinished

AppAnswers == StartMonitoring \/ (loop = "dispatch" /\ StopMonitoring)

MonitorNext ==
    \/ Create \/ StartMonitoring \/ StopMonitoring \/ CloseMonitor
    \/ AppGoesOn \/ LoopPolls \/ MonitorGoesOn \/ MonitorPoll
    \/ UserStep \/ OtherThreads

MonitorSpec == MonitorInit /\ [][MonitorNext]_all

\* The threads run, polls return when the event descriptor is readable, and the application
\* does what onNewEventsAvailable is for: it takes the loop back after a poll, and has it
\* polled again.
MonitorFairSpec ==
    /\ MonitorSpec
    /\ WF_all(AppGoesOn \/ AppAnswers) /\ WF_all(MonitorGoesOn)
    /\ \A t \in Threads : WF_all((Notify(t) \/ Write(t)) /\ UNCHANGED monitorVars)

-----------------------------------------------------------------------------

AppUsesLoop == app \in {"submit", "dispatch", "run"} \/ (app = "idle" /\ loop = "idle")

\* AsyncEventLoopMonitor: the loop is never polled while the application uses it...
NeverShared == monitor = "poll" => ~AppUsesLoop

\* ... and every call of the monitor returns: stopMonitoringAndDispatchCompletions gets the
\* loop back although nothing happened, and its extra step does not block; close joins the
\* thread.
MonitorHandsOver == []NeverShared /\ (app # "idle" ~> app = "idle")
=============================================================================
