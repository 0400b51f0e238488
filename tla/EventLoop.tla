------------------------------ MODULE EventLoop ------------------------------
(***************************************************************************)
(* SC::AsyncEventLoop (Libraries/Async/Async.cpp) with its epoll backend:  *)
(* the life of the requests, the sequences and the counters, through       *)
(* start, stop, the three phases of a step, callbacks and close.           *)
(*                                                                         *)
(* Everything but the worker threads and the kernel runs on one thread, so *)
(* an action is what that thread does up to the next user callback, or     *)
(* from the end of one: user code is whatever the client does meanwhile.   *)
(* The members of AsyncEventLoop::Internal are the fields of `loop`, and   *)
(* its methods are operators from one value of `loop` to the next.         *)
(***************************************************************************)
EXTENDS Integers, SequencesExt

CONSTANTS
    Requests, Sequences, Null,
    Settings   \* how the loop may be set up and used, of which a behaviour has one

Kinds == {"socket", "readiness", "write", "work", "timeout"}
FailPoints == {"setup", "activate", "event", "complete"}
UsagePatterns == {"stopQueued", "stopWorkLate", "joinReactivated", "reviveInError",
    "withdraw", "betweenPhases", "clearSequence", "interrupt", "close", "noWait",
    "exclude", "stop", "reactivate"}

Setting == [
    kind          : [Requests -> Kinds],
    sequenceOf    : [Requests -> Sequences \cup {Null}],
    clearOnCancel : SUBSET Sequences,                 \* clearSequenceOnCancel
    clearOnError  : SUBSET Sequences,                 \* clearSequenceOnError
    fails         : [Requests -> SUBSET FailPoints],
    usage         : SUBSET UsagePatterns,             \* see the user operations
    maxStarts     : Nat ]                             \* bound on the calls of start

\* Usages that break the loop are left out here; the README says what each of them breaks.
SoundSetting(s) ==
    /\ s.usage \cap {"stopQueued", "stopWorkLate", "joinReactivated", "reviveInError"} = {}
    /\ \A r \in Requests :
        /\ "event" \notin s.fails[r]
        /\ "activate" \in s.fails[r] => s.kind[r] \notin {"socket", "readiness"}
        /\ "withdraw" \in s.usage => s.kind[r] # "readiness"
        /\ s.kind[r] = "timeout" => s.sequenceOf[r] = Null
SoundUsage == \A s \in Settings : SoundSetting(s)

ASSUME EventLoopAssumption ==
    /\ IsFiniteSet(Requests)
    /\ Null \notin Requests \cup Sequences
    /\ \A s \in Settings :
        /\ s \in Setting
        /\ \A r \in Requests : s.kind[r] = "work" => s.sequenceOf[r] # Null

VARIABLES
    loop,       \* AsyncEventLoop::Internal, the requests, the sequences and epoll
    phase,      \* where the thread of the loop is
    syncMode,   \* "NoWait" or "Forced", of the current step
    batch,      \* events epoll_wait returned and that are not dispatched yet
    cursor,     \* `async` of executeCancellationCallbacks
    cb,         \* the user callback being executed
    closing,    \* how far close() got, see ClosingStages
    starts

vars == <<loop, phase, syncMode, batch, cursor, cb, closing, starts>>

\* The setting is part of the loop and never changes.
Kind == loop.setting.kind
SequenceOf == loop.setting.sequenceOf
ClearOnCancel == loop.setting.clearOnCancel
ClearOnError == loop.setting.clearOnError
Fails == loop.setting.fails
Usage == loop.setting.usage
MaxStarts == loop.setting.maxStarts

States == {"Free", "Setup", "Submitting", "Active", "Reactivate", "Cancelling"}
NoCallback == [kind |-> "none", req |-> Null, again |-> FALSE, ok |-> TRUE]
\* What close() is about to stop, "run" before its run(), "ran" in it, "end" after it.
ClosingStages ==
    {"no", "submissions", "sequences", "pool", "active", "manual", "run", "ran", "end"}
Event == [req : Requests \cup {Null}, err : BOOLEAN]   \* req = Null is the wake-up descriptor

Loop == [
    setting : Settings,
    state : [Requests -> States],
    manual : SUBSET Requests, excluded : SUBSET Requests, needsTeardown : SUBSET Requests,
    listed : SUBSET Requests, watched : SUBSET Requests,
    submissions : Seq(Requests), cancellations : Seq(Requests),
    manualCompletions : Seq(Requests), poolCompletions : Seq(Requests),
    numberOfSubmissions : Nat, numberOfActiveHandles : Nat,
    numberOfManualCompletions : Nat, numberOfExternals : Int,
    queue : [Sequences -> Seq(Requests)],
    runningAsync : SUBSET Sequences, runningRequest : [Sequences -> Requests \cup {Null}],
    tracked : SUBSET Sequences, task : [Requests -> {"idle", "queued", "pushed", "done"}],
    wake : BOOLEAN, runTimers : BOOLEAN, interrupted : BOOLEAN, asserted : BOOLEAN ]

TypeOK ==
    /\ loop \in Loop /\ -loop.numberOfExternals \in Nat
    /\ closing \in ClosingStages
    /\ phase \in {"idle", "submit", "poll", "polled", "timers", "events", "manual", "pool",
                  "cancel", "closed"}
    /\ syncMode \in {"NoWait", "Forced"}
    /\ batch \in SUBSET Event
    /\ cursor \in Requests \cup {Null}
    /\ cb \in [kind : {"none", "complete", "error", "timer", "close"},
               req : Requests \cup {Null}, again : BOOLEAN, ok : BOOLEAN]
    /\ starts \in 0 .. MaxStarts

Init ==
    /\ \E s \in Settings :
       loop = [ setting |-> s, state |-> [r \in Requests |-> "Free"],
                manual |-> {}, excluded |-> {}, needsTeardown |-> {},
                listed |-> {}, watched |-> {},
                submissions |-> <<>>, cancellations |-> <<>>,
                manualCompletions |-> <<>>, poolCompletions |-> <<>>,
                numberOfSubmissions |-> 0, numberOfActiveHandles |-> 0,
                numberOfManualCompletions |-> 0, numberOfExternals |-> 0,
                queue |-> [q \in Sequences |-> <<>>],
                runningAsync |-> {}, runningRequest |-> [q \in Sequences |-> Null],
                tracked |-> {}, task |-> [r \in Requests |-> "idle"],
                wake |-> FALSE, runTimers |-> FALSE, interrupted |-> FALSE,
                asserted |-> FALSE ]
    /\ phase = "idle" /\ syncMode = "Forced"
    /\ batch = {} /\ cursor = Null
    /\ cb = NoCallback
    /\ closing = "no" /\ starts = 0

-----------------------------------------------------------------------------
(* Sequences and submission                                                *)

AssertRelease(l, holds) == IF holds THEN l ELSE [l EXCEPT !.asserted = TRUE]

UntrackSequenceIfIdle(l, q) ==
    IF q \notin l.runningAsync /\ l.queue[q] = <<>>
        THEN [l EXCEPT !.tracked = @ \ {q}] ELSE l

PopNextInSequence(l, q) ==
    LET next == Head(l.queue[q]) IN
    [l EXCEPT !.queue[q] = Tail(@),
              !.runningAsync = @ \cup {q}, !.runningRequest[q] = next,
              !.tracked = @ \cup {q},
              !.submissions = Append(@, next), !.numberOfSubmissions = @ + 1]

QueueSubmission(l, r) ==
    LET q == SequenceOf[r]
        m == [l EXCEPT !.state[r] = "Setup"]
        n == [m EXCEPT !.queue[q] = Append(@, r), !.tracked = @ \cup {q}]
    IN  IF q = Null
        THEN [m EXCEPT !.submissions = Append(@, r), !.numberOfSubmissions = @ + 1]
        ELSE IF q \in l.runningAsync THEN n ELSE PopNextInSequence(n, q)

\* Slips this code could have made, tried by the mutation runs.
ResumeAlways(l, q) == IF l.queue[q] # <<>> THEN PopNextInSequence(l, q) ELSE UntrackSequenceIfIdle(l, q)
ResumeForgets(l, q) == UntrackSequenceIfIdle(l, q)

ResumeSequence(l, q) ==
    IF q \in l.runningAsync THEN l
    ELSE IF l.queue[q] # <<>> THEN PopNextInSequence(l, q)
    ELSE UntrackSequenceIfIdle(l, q)

\* flags = 0 also forgets that the request ever had a task.
MarkAsFree(l, S) ==
    [l EXCEPT !.state = [r \in Requests |-> IF r \in S THEN "Free" ELSE @[r]],
              !.manual = @ \ S, !.excluded = @ \ S, !.needsTeardown = @ \ S]

ClearSequence(l, q) ==
    UntrackSequenceIfIdle([MarkAsFree(l, ToSet(l.queue[q])) EXCEPT !.queue[q] = <<>>], q)

-----------------------------------------------------------------------------
(* The active requests and their count                                     *)

\* A sequenced request is found through its sequence, but timers through their list.
InTypedList(r) == SequenceOf[r] = Null \/ Kind[r] = "timeout"

RemoveIgnoresExcluded(l, r) ==
    LET q == SequenceOf[r]
        m == [l EXCEPT !.state[r] = "Free"]
        n == IF q = Null THEN m
             ELSE UntrackSequenceIfIdle([m EXCEPT !.runningAsync = @ \ {q},
                      !.runningRequest[q] = IF @ = r THEN Null ELSE @], q)
    IN  IF r \in l.manual THEN [n EXCEPT !.numberOfManualCompletions = @ - 1]
        ELSE [n EXCEPT !.numberOfActiveHandles = @ - 1, !.listed = @ \ {r}]

RemoveActiveHandle(l, r) ==
    LET q == SequenceOf[r]
        m == [AssertRelease(l, l.state[r] = "Active") EXCEPT !.state[r] = "Free"]
        n == IF q = Null THEN m
             ELSE UntrackSequenceIfIdle([m EXCEPT !.runningAsync = @ \ {q},
                      !.runningRequest[q] = IF @ = r THEN Null ELSE @], q)
    IN  IF r \in l.manual THEN [n EXCEPT !.numberOfManualCompletions = @ - 1]
        ELSE [n EXCEPT !.numberOfActiveHandles = @ - 1,
                       !.numberOfExternals = IF r \in l.excluded THEN @ + 1 ELSE @,
                       !.listed = @ \ {r}]

AddUncounted(l, r) ==
    [l EXCEPT !.state[r] = "Active", !.listed = IF InTypedList(r) THEN @ \cup {r} ELSE @]

AddActiveHandle(l, r) ==
    LET q == SequenceOf[r]
        m == [AssertRelease(l, l.state[r] = "Submitting") EXCEPT !.state[r] = "Active"]
        n == IF q = Null THEN m
             ELSE [m EXCEPT !.tracked = @ \cup {q}, !.runningAsync = @ \cup {q},
                            !.runningRequest[q] = r]
    IN  IF r \in l.manual THEN [m EXCEPT !.numberOfManualCompletions = @ + 1]
        ELSE [n EXCEPT !.numberOfActiveHandles = @ + 1,
                       !.numberOfExternals = IF r \in l.excluded THEN @ - 1 ELSE @,
                       !.listed = IF InTypedList(r) THEN @ \cup {r} ELSE @]

NumberOfHandles(l) == l.numberOfActiveHandles + l.numberOfExternals

-----------------------------------------------------------------------------
(* Staging of one submission                                               *)

SetupAsync(l, r) ==
    [l EXCEPT !.manual = @ \ {r}, !.needsTeardown = @ \ {r}]

\* Sockets and readiness requests register with epoll once, in setup.
Watches(r) == Kind[r] \in {"socket", "readiness"}

SetupDone(l, r) ==
    [SetupAsync(l, r) EXCEPT !.watched = IF Watches(r) THEN @ \cup {r} ELSE @]

\* A write that finishes at once only waits for its completion to be dispatched.
PosixWriteActivate(l, r) ==
    [l EXCEPT !.manual = @ \cup {r}, !.manualCompletions = Append(@, r)]

ActivateAsync(l, r) ==
    LET m == [l EXCEPT !.state[r] = "Submitting"] IN
    AddActiveHandle(
        CASE Kind[r] = "work"  -> [m EXCEPT !.task[r] = "queued"]
          [] Kind[r] = "write" -> PosixWriteActivate(m, r)
          [] OTHER             -> m, r)

TeardownSkipped(l, r) == l
TeardownAsync(l, r) == [l EXCEPT !.watched = @ \ {r}]

PushToCancellationQueue(l, r) ==
    LET q == SequenceOf[r]
        m == IF q # Null /\ q \in ClearOnCancel THEN ClearSequence(l, q) ELSE l
    IN  [m EXCEPT !.cancellations = Append(@, r)]

\* waitForTask of CancelAsyncPhase: the function of the task has returned.
TaskOver(l, r) == l.task[r] \in {"idle", "done"}

CancelAsync(l, r) ==
    [l EXCEPT !.poolCompletions = RemoveFirst(@, r), !.task[r] = "idle"]

-----------------------------------------------------------------------------
(* The user of the loop: in a callback, or between the calls of runOnce    *)

Dispatching == {"timers", "events", "manual", "pool"}
UserCode ==
    \/ cb # NoCallback
    \/ phase = "idle" /\ closing = "no"
    \/ phase = "polled" /\ "betweenPhases" \in Usage

SequenceOfCallback == IF cb.req = Null THEN Null ELSE SequenceOf[cb.req]

\* Usages of their own: a callback that both reactivates its request and starts
\* another one of the same sequence, or restarts a failing request; callbacks
\* that start requests while close() is running are left out.
MayStart(r) ==
    /\ closing = "no"
    /\ cb.again /\ SequenceOf[r] # Null /\ SequenceOf[r] = SequenceOfCallback
           => "joinReactivated" \in Usage
    /\ cb.req = r /\ cb.kind = "error" => "reviveInError" \in Usage
    /\ cb.req = r => ~cb.again

Start(r) ==
    /\ UserCode /\ starts < MaxStarts
    /\ loop.state[r] = "Free" /\ MayStart(r)
    /\ loop' = QueueSubmission(loop, r)
    /\ starts' = starts + 1
    /\ UNCHANGED <<phase, syncMode, batch, cursor, cb, closing>>

\* Internal::stop, by state.
StopActive(l, r) ==
    LET m == RemoveActiveHandle([l EXCEPT !.needsTeardown = @ \cup {r}], r) IN
    [m EXCEPT !.state[r] = "Cancelling",
              !.manual = @ \ {r}, !.manualCompletions = RemoveFirst(@, r),
              !.submissions = Append(@, r), !.numberOfSubmissions = @ + 1]

StopSubmitted(l, r) ==
    PushToCancellationQueue(
        [l EXCEPT !.state[r] = "Cancelling", !.numberOfSubmissions = @ - 1,
                  !.submissions = RemoveFirst(@, r)], r)

StopRequest(l, r) ==
    CASE l.state[r] = "Active"     -> StopActive(l, r)
      [] l.state[r] = "Setup"      -> StopSubmitted(l, r)
      [] l.state[r] = "Reactivate" -> StopSubmitted(TeardownAsync(l, r), r)

\* Stopping a request that waits in its sequence, or a thread pool request whose
\* completion is about to be dispatched, are usages of their own.
MayStop(r) ==
    /\ loop.state[r] = "Setup" /\ ~Contains(loop.submissions, r) => "stopQueued" \in Usage
    /\ Kind[r] = "work" /\ loop.state[r] = "Active" /\ phase \in Dispatching \cup {"polled"}
           => "stopWorkLate" \in Usage
    /\ cb.kind = "error" => cb.req # r

Stop(r) ==
    /\ "stop" \in Usage /\ UserCode
    /\ loop.state[r] \in {"Setup", "Active", "Reactivate"} /\ MayStop(r)
    /\ loop' = StopRequest(loop, r)
    /\ UNCHANGED <<phase, syncMode, batch, cursor, cb, closing, starts>>

ExcludeFromActiveCount(r) ==
    /\ "exclude" \in Usage /\ UserCode
    /\ loop.state[r] \notin {"Free", "Cancelling"} /\ r \notin loop.excluded
    /\ loop' = [loop EXCEPT !.excluded = @ \cup {r}, !.numberOfExternals =
                   IF loop.state[r] = "Active" /\ r \notin loop.manual THEN @ - 1 ELSE @]
    /\ UNCHANGED <<phase, syncMode, batch, cursor, cb, closing, starts>>

IncludeInActiveCount(r) ==
    /\ UserCode
    /\ loop.state[r] # "Free" /\ r \in loop.excluded
    /\ loop' = [loop EXCEPT !.excluded = @ \ {r}, !.numberOfExternals =
                   IF loop.state[r] = "Active" /\ r \notin loop.manual THEN @ + 1 ELSE @]
    /\ UNCHANGED <<phase, syncMode, batch, cursor, cb, closing, starts>>

UserClearSequence(q) ==
    /\ "clearSequence" \in Usage /\ UserCode /\ loop.queue[q] # <<>>
    /\ loop' = ClearSequence(loop, q)
    /\ UNCHANGED <<phase, syncMode, batch, cursor, cb, closing, starts>>

Interrupt ==
    /\ "interrupt" \in Usage /\ UserCode /\ ~loop.interrupted
    /\ loop' = [loop EXCEPT !.interrupted = TRUE]
    /\ UNCHANGED <<phase, syncMode, batch, cursor, cb, closing, starts>>

\* AsyncResult::reactivateRequest(true).  A client that also does it for a failed
\* request, or after another one of the sequence was started, is a usage of its own.
Reactivated(l, r) ==
    CASE l.state[r] = "Free" /\ Kind[r] = "readiness" ->
             AddActiveHandle([l EXCEPT !.state[r] = "Submitting"], r)
      [] l.state[r] = "Free" /\ Kind[r] # "readiness" ->
             [l EXCEPT !.state[r] = "Reactivate", !.submissions = Append(@, r),
                       !.numberOfSubmissions = @ + 1]
      [] l.state[r] = "Submitting" -> AssertRelease(l, Kind[r] # "readiness")
      [] OTHER -> AssertRelease(l, FALSE)

MayReactivate(r) ==
    /\ IF cb.kind = "error" THEN "reviveInError" \in Usage ELSE loop.state[r] = "Free"
    /\ SequenceOf[r] \in loop.runningAsync => "joinReactivated" \in Usage \/ cb.kind = "error"

ReactivateRequest ==
    /\ "reactivate" \in Usage
    /\ cb.kind \in {"complete", "error", "timer"} /\ ~cb.again /\ MayReactivate(cb.req)
    /\ loop' = Reactivated(loop, cb.req)
    /\ cb' = [cb EXCEPT !.again = TRUE]
    /\ UNCHANGED <<phase, syncMode, batch, cursor, closing, starts>>

\* AsyncResult::reactivateRequest(false) after reactivateRequest(true).
WithdrawReactivation ==
    /\ "withdraw" \in Usage /\ cb.again
    /\ loop.state[cb.req] \in {"Reactivate", "Active"}
    /\ loop' = IF loop.state[cb.req] = "Active" THEN AssertRelease(loop, FALSE)
               ELSE [loop EXCEPT !.state[cb.req] = "Free", !.submissions = RemoveFirst(@, cb.req),
                                 !.numberOfSubmissions = @ - 1]
    /\ cb' = [cb EXCEPT !.again = FALSE]
    /\ UNCHANGED <<phase, syncMode, batch, cursor, closing, starts>>

-----------------------------------------------------------------------------
(* Around a callback                                                       *)

Call(kind, r, ok) == [kind |-> kind, req |-> r, again |-> FALSE, ok |-> ok]

\* completeAndReactivateOrTeardown up to the callback; waitForTask has returned.
BeginComplete(l, r) ==
    LET m == RemoveActiveHandle(l, r) IN
    [m EXCEPT !.needsTeardown = @ \cup {r}, !.manual = @ \ {r}, !.task[r] = "idle"]

Outcomes(r) == IF "complete" \in Fails[r] THEN BOOLEAN ELSE {TRUE}

BeginError(l, r) ==
    LET q == SequenceOf[r]
        m == IF l.state[r] = "Active" THEN RemoveActiveHandle(l, r) ELSE l
    IN  IF q # Null /\ q \in ClearOnError THEN ClearSequence(m, q) ELSE m

\* completeAndReactivateOrTeardown after the callback.
EndComplete(l) ==
    LET r == cb.req
        q == SequenceOf[r]
        m == [l EXCEPT !.needsTeardown = @ \ {r}]
        n == TeardownAsync(l, r)
    IN  IF cb.again
        THEN IF q = Null THEN m
             ELSE [m EXCEPT !.tracked = @ \cup {q}, !.runningAsync = @ \cup {q},
                            !.runningRequest[q] = r]
        ELSE IF q = Null THEN n
             ELSE IF ~cb.ok /\ q \in ClearOnError THEN ClearSequence(n, q)
             ELSE ResumeSequence(n, q)

\* reportError after the callback.
EndError(l) ==
    LET r == cb.req
        q == SequenceOf[r]
        m == IF q # Null /\ l.runningRequest[q] = r
             THEN UntrackSequenceIfIdle([l EXCEPT !.runningAsync = @ \ {q},
                                                  !.runningRequest[q] = Null], q)
             ELSE l
    IN  IF l.state[r] = "Cancelling" THEN l ELSE MarkAsFree(m, {r})

Return ==
    /\ cb # NoCallback
    /\ loop' = CASE cb.kind = "complete" -> EndComplete(loop)
                 [] cb.kind = "error"    -> EndError(loop)
                 [] OTHER                -> loop
    /\ cb' = NoCallback
    /\ UNCHANGED <<phase, syncMode, batch, cursor, closing, starts>>

-----------------------------------------------------------------------------
(* A step of the loop: submitRequests, blockingPoll, dispatchCompletions   *)

Running(p) == phase = p /\ cb = NoCallback

\* The condition of run().
WorkLeft ==
    \/ NumberOfHandles(loop) # 0 \/ loop.submissions # <<>>
    \/ loop.numberOfManualCompletions # 0 \/ loop.cancellations # <<>>

\* run() of close() is back at its condition: a step that was interrupted leaves it.
TestsWork == closing = "run" \/ (closing = "ran" /\ ~loop.interrupted)

RunStep ==
    /\ Running("idle")
    /\ closing = "no" \/ (TestsWork /\ WorkLeft)
    /\ closing' = IF closing = "run" THEN "ran" ELSE closing
    /\ syncMode' \in IF "noWait" \in Usage /\ closing = "no" THEN {"NoWait", "Forced"} ELSE {"Forced"}
    /\ phase' = "submit"
    /\ UNCHANGED <<loop, batch, cursor, cb, starts>>

\* The end of run(), which is the only place that resets interrupted.
RunReturns ==
    /\ Running("idle") /\ loop.interrupted /\ closing \in {"no", "ran"}
    /\ closing' = IF closing = "ran" THEN "end" ELSE closing
    /\ loop' = [loop EXCEPT !.interrupted = FALSE]
    /\ phase' = "cancel"
    /\ cursor' = IF loop.cancellations = <<>> THEN Null ELSE Head(loop.cancellations)
    /\ UNCHANGED <<syncMode, batch, cb, starts>>

Staged(l) == loop' = l /\ UNCHANGED cb
StageFails(l, r) == loop' = BeginError(l, r) /\ cb' = Call("error", r, FALSE)

StageSubmission(r, l) ==
    \/ /\ l.state[r] = "Setup"
       /\ \/ Staged(ActivateAsync(SetupDone(l, r), r))
          \/ "setup" \in Fails[r] /\ StageFails(SetupAsync(l, r), r)
          \/ /\ "activate" \in Fails[r]
             /\ StageFails([SetupDone(l, r) EXCEPT !.state[r] = "Submitting"], r)
    \/ /\ l.state[r] = "Reactivate"
       /\ \/ Staged(ActivateAsync(l, r))
          \/ "activate" \in Fails[r] /\ StageFails([l EXCEPT !.state[r] = "Submitting"], r)
    \/ /\ l.state[r] \notin {"Setup", "Reactivate"} /\ TaskOver(l, r)
       /\ Staged(AssertRelease(
              PushToCancellationQueue(TeardownAsync(CancelAsync(l, r), r), r),
              l.state[r] = "Cancelling"))

SubmitRequests ==
    /\ Running("submit") /\ loop.submissions # <<>>
    /\ StageSubmission(Head(loop.submissions),
           [loop EXCEPT !.submissions = Tail(@), !.numberOfSubmissions = @ - 1])
    /\ UNCHANGED <<phase, syncMode, batch, cursor, closing, starts>>

SubmitDone ==
    /\ Running("submit") /\ loop.submissions = <<>>
    /\ phase' = "poll"
    /\ UNCHANGED <<loop, syncMode, batch, cursor, cb, closing, starts>>

Timers == {r \in loop.listed : Kind[r] = "timeout"}
ErrorFlags(r) == IF "event" \in Fails[r] THEN BOOLEAN ELSE {FALSE}

\* epoll_pwait: any of the registered descriptors may be ready, and the wake-up
\* descriptor is when it was written; it returns without an event only in NoWait
\* mode, or because the earliest timer expired.
SyncWithKernel(noWait) ==
    /\ \E ready \in SUBSET loop.watched :
       \E err \in [ready -> BOOLEAN] :
           /\ \A r \in ready : err[r] \in ErrorFlags(r)
           /\ batch' = {[req |-> r, err |-> err[r]] : r \in ready}
                     \cup IF loop.wake THEN {[req |-> Null, err |-> FALSE]} ELSE {}
    /\ batch' = {} => noWait \/ Timers # {}
    /\ loop' = [loop EXCEPT !.runTimers = @ \/ (~noWait /\ Timers # {})]

\* Manual completions do not wait for other events.
BlockingPoll ==
    /\ Running("poll")
    /\ phase' = "polled"
    /\ IF NumberOfHandles(loop) > 0 \/ loop.numberOfManualCompletions # 0
       THEN SyncWithKernel(syncMode = "NoWait" \/ loop.numberOfManualCompletions # 0)
       ELSE /\ batch' = {}
            /\ loop' = AssertRelease(loop, NumberOfHandles(loop) >= 0)
    /\ UNCHANGED <<syncMode, cursor, cb, closing, starts>>

\* An interrupted loop drops the events; epoll will report them again.
DispatchCompletions ==
    /\ Running("polled")
    /\ IF loop.interrupted
       THEN phase' = "idle" /\ batch' = {} /\ UNCHANGED loop
       ELSE IF syncMode = "NoWait" \/ loop.runTimers
       THEN /\ phase' = "timers" /\ UNCHANGED batch
            /\ loop' = [loop EXCEPT !.runTimers = IF syncMode = "NoWait" THEN @ ELSE FALSE]
       ELSE phase' = "events" /\ UNCHANGED <<loop, batch>>
    /\ UNCHANGED <<syncMode, cursor, cb, closing, starts>>

\* invokeExpiredTimers; which timers have expired is the clock's choice here.
InvokeExpiredTimer(r) ==
    /\ Running("timers") /\ r \in Timers
    /\ loop' = RemoveActiveHandle(loop, r)
    /\ cb' = Call("timer", r, TRUE)
    /\ UNCHANGED <<phase, syncMode, batch, cursor, closing, starts>>

AnyEventCounts(r) == TRUE
EventCounts(r) == r \notin loop.needsTeardown

ExecuteCompletion(e) ==
    /\ Running("events") /\ e \in batch
    /\ batch' = batch \ {e}
    /\ \/ /\ e.req = Null      \* executeWakeUps: module LoopWakeUp
          /\ loop' = [loop EXCEPT !.wake = FALSE] /\ UNCHANGED cb
       \/ /\ e.req # Null /\ ~EventCounts(e.req)
          /\ UNCHANGED <<loop, cb>>
       \/ /\ e.req # Null /\ EventCounts(e.req)
          /\ loop' = IF e.err THEN BeginError(loop, e.req)
                     ELSE BeginComplete([loop EXCEPT !.manualCompletions = RemoveFirst(@, e.req)], e.req)
          /\ cb' \in IF e.err THEN {Call("error", e.req, FALSE)}
                     ELSE {Call("complete", e.req, ok) : ok \in Outcomes(e.req)}
    /\ UNCHANGED <<phase, syncMode, cursor, closing, starts>>

ExecuteManualCompletion ==
    /\ Running("manual") /\ loop.manualCompletions # <<>>
    /\ LET r == Head(loop.manualCompletions) IN
       /\ loop' = BeginComplete([loop EXCEPT !.manualCompletions = Tail(@)], r)
       /\ \E ok \in Outcomes(r) : cb' = Call("complete", r, ok)
    /\ UNCHANGED <<phase, syncMode, batch, cursor, closing, starts>>

ExecuteThreadPoolCompletion ==
    /\ Running("pool") /\ loop.poolCompletions # <<>>
    /\ LET r == Head(loop.poolCompletions) IN
       /\ TaskOver(loop, r)
       /\ loop' = BeginComplete([loop EXCEPT !.poolCompletions = Tail(@)], r)
       /\ \E ok \in Outcomes(r) : cb' = Call("complete", r, ok)
    /\ UNCHANGED <<phase, syncMode, batch, cursor, closing, starts>>

CancellationNotMarked(l, r) == [l EXCEPT !.cancellations = RemoveFirst(@, r)]

CompleteCancellation(l, r) ==
    LET q == SequenceOf[r]
        m == IF q # Null /\ l.runningRequest[q] = r
             THEN [l EXCEPT !.runningAsync = @ \ {q}, !.runningRequest[q] = Null] ELSE l
        n == [MarkAsFree(m, {r}) EXCEPT !.cancellations = RemoveFirst(@, r)]
    IN  IF q = Null THEN n
        ELSE IF q \notin ClearOnCancel THEN ResumeSequence(n, q)
        ELSE UntrackSequenceIfIdle(n, q)

\* executeCancellationCallbacks: the next request is read before the callback.
NextCancellation(r) ==
    LET i == CHOOSE j \in DOMAIN loop.cancellations : loop.cancellations[j] = r
    IN  IF i = Len(loop.cancellations) THEN Null ELSE loop.cancellations[i + 1]

ExecuteCancellationCallback ==
    /\ Running("cancel") /\ cursor # Null
    /\ loop' = CompleteCancellation(AssertRelease(loop, loop.state[cursor] = "Cancelling"), cursor)
    /\ cursor' = NextCancellation(cursor)
    /\ cb' = Call("close", cursor, TRUE)
    /\ UNCHANGED <<phase, syncMode, batch, closing, starts>>

PhaseDone ==
    /\ \/ Running("timers") /\ phase' = "events" /\ UNCHANGED cursor
       \/ Running("events") /\ batch = {} /\ phase' = "manual" /\ UNCHANGED cursor
       \/ /\ Running("manual") /\ loop.manualCompletions = <<>>
          /\ phase' = "pool" /\ UNCHANGED cursor
       \/ /\ Running("pool") /\ loop.poolCompletions = <<>>
          /\ phase' = "cancel"
          /\ cursor' = IF loop.cancellations = <<>> THEN Null ELSE Head(loop.cancellations)
       \/ Running("cancel") /\ cursor = Null /\ phase' = "idle" /\ UNCHANGED cursor
    /\ UNCHANGED <<loop, syncMode, batch, cb, closing, starts>>

-----------------------------------------------------------------------------
(* Closing the loop                                                        *)

\* A slip: requests that wait in their sequence are forgotten.
SequencesKept(l) == l

ClearTracked(l) ==
    [MarkAsFree(l, UNION {ToSet(l.queue[q]) : q \in l.tracked}) EXCEPT
         !.queue = [q \in Sequences |-> IF q \in l.tracked THEN <<>> ELSE @[q]],
         !.tracked = @ \cap l.runningAsync]

Close ==
    /\ "close" \in Usage /\ Running("idle") /\ closing = "no"
    /\ loop' = ClearTracked(loop)
    /\ closing' = "submissions"
    /\ UNCHANGED <<phase, syncMode, batch, cursor, cb, starts>>

\* stopRequests and stopSequenceRequests stop what is neither free nor cancelling; the
\* first of a list, any of the sequences, and of the lists of active requests.
Stoppable(r) == loop.state[r] \notin {"Free", "Cancelling"}
FirstToStop(s, r) ==
    \E i \in DOMAIN s : s[i] = r /\ Stoppable(r) /\ \A j \in 1 .. i - 1 : ~Stoppable(s[j])
RunningOfSequences == {loop.runningRequest[q] : q \in loop.tracked} \ {Null}

ToStop == {r \in Requests :
    CASE closing = "submissions" -> FirstToStop(loop.submissions, r)
      [] closing = "sequences"   -> r \in RunningOfSequences /\ Stoppable(r)
      [] closing = "active"      -> r \in loop.listed /\ Stoppable(r)
      [] closing = "manual"      -> FirstToStop(loop.manualCompletions, r)
      [] OTHER                   -> FALSE}

AfterStage ==
    CASE closing = "submissions" -> "sequences"
      [] closing = "sequences"   -> "pool"
      [] closing = "active"      -> "manual"
      [] OTHER                   -> "run"

CloseStops ==
    /\ closing \in {"submissions", "sequences", "active", "manual"}
    /\ \/ \E r \in ToStop : loop' = StopRequest(loop, r) /\ UNCHANGED closing
       \/ ToStop = {} /\ closing' = AfterStage /\ UNCHANGED loop
    /\ UNCHANGED <<phase, syncMode, batch, cursor, cb, starts>>

\* Completions that the workers have pushed so far, of requests active or stopped.
ClosePops ==
    /\ closing = "pool"
    /\ IF loop.poolCompletions = <<>> THEN closing' = "active" /\ UNCHANGED loop
       ELSE LET r == Head(loop.poolCompletions)
                l == [loop EXCEPT !.poolCompletions = Tail(@)]
            IN  /\ loop' = IF Stoppable(r) THEN StopRequest(l, r) ELSE l
                /\ UNCHANGED closing
    /\ UNCHANGED <<phase, syncMode, batch, cursor, cb, starts>>

CloseDone ==
    /\ Running("idle")
    /\ closing = "end" \/ (TestsWork /\ ~WorkLeft)
    /\ phase' = "closed" /\ closing' = "no"
    /\ UNCHANGED <<loop, syncMode, batch, cursor, cb, starts>>

\* create() of a loop that was closed makes a new epoll descriptor.
Reopen ==
    /\ phase = "closed"
    /\ phase' = "idle"
    /\ loop' = [loop EXCEPT !.watched = {}]
    /\ UNCHANGED <<syncMode, batch, cursor, cb, closing, starts>>

-----------------------------------------------------------------------------
(* Worker threads: ActivateAsyncPhase::executeThreadPoolOperation          *)

TaskPushes(r) ==
    /\ loop.task[r] = "queued"
    /\ loop' = [loop EXCEPT !.task[r] = "pushed", !.poolCompletions = Append(@, r)]
    /\ UNCHANGED <<phase, syncMode, batch, cursor, cb, closing, starts>>

TaskWakesLoop(r) ==
    /\ loop.task[r] = "pushed"
    /\ loop' = [loop EXCEPT !.task[r] = "done", !.wake = TRUE]
    /\ UNCHANGED <<phase, syncMode, batch, cursor, cb, closing, starts>>

UserStep ==
    \/ \E r \in Requests : Start(r) \/ Stop(r)
    \/ \E r \in Requests : ExcludeFromActiveCount(r) \/ IncludeInActiveCount(r)
    \/ \E q \in Sequences : UserClearSequence(q)
    \/ Interrupt \/ ReactivateRequest \/ WithdrawReactivation \/ Close \/ Reopen

LoopStep ==
    \/ RunStep \/ RunReturns \/ SubmitRequests \/ SubmitDone \/ CloseStops \/ ClosePops
    \/ DispatchCompletions \/ PhaseDone \/ CloseDone
    \/ \E r \in Requests : InvokeExpiredTimer(r)
    \/ \E e \in batch : ExecuteCompletion(e)
    \/ ExecuteManualCompletion \/ ExecuteThreadPoolCompletion \/ ExecuteCancellationCallback

Next ==
    \/ UserStep \/ Return \/ LoopStep \/ BlockingPoll
    \/ \E r \in Requests : TaskPushes(r) \/ TaskWakesLoop(r)

Spec == Init /\ [][Next]_vars

\* The client goes on calling runOnce, its callbacks return, worker threads run
\* their task, and a descriptor that stays registered is reported ready some day.
FairSpec ==
    /\ Spec
    /\ WF_vars(LoopStep) /\ WF_vars(Return) /\ WF_vars(BlockingPoll)
    /\ \A r \in Requests :
        /\ WF_vars(TaskPushes(r)) /\ WF_vars(TaskWakesLoop(r))
        /\ WF_vars(InvokeExpiredTimer(r))
        /\ SF_vars(BlockingPoll /\ \E e \in batch' : e.req = r)

-----------------------------------------------------------------------------

Occurs(s, r) == Cardinality({i \in DOMAIN s : s[i] = r})
InQueue(r) == IF SequenceOf[r] = Null THEN 0 ELSE Occurs(loop.queue[SequenceOf[r]], r)
\* Popped by close().
Dropped(r) ==
    closing \notin {"no", "submissions", "sequences"} /\ ~Contains(loop.poolCompletions, r)
Failing(r) == cb.kind = "error" /\ cb.req = r

\* AsyncEventLoop::Internal: the four counters that decide whether run() goes on
\* and whether a poll may block are the sizes of what they count.
CountersExact ==
    LET active == {r \in Requests : loop.state[r] = "Active"} IN
    /\ loop.numberOfSubmissions = Len(loop.submissions)
    /\ loop.numberOfActiveHandles = Cardinality(active \ loop.manual)
    /\ loop.numberOfManualCompletions = Cardinality(active \cap loop.manual)
    /\ -loop.numberOfExternals = Cardinality((active \ loop.manual) \cap loop.excluded)

\* AsyncRequest: the intrusive links are shared by all lists, so a request is in
\* exactly the one list its state names, once, and a free one is in none.
FoundWhereStateSays == \A r \in Requests :
    LET st == loop.state[r]
        cancelling == Occurs(loop.cancellations, r)
    IN
    /\ Occurs(loop.submissions, r) + InQueue(r) =
           CASE st \in {"Setup", "Reactivate"} -> IF Failing(r) THEN 0 ELSE 1
             [] st = "Cancelling"              -> 1 - cancelling
             [] OTHER                          -> 0
    /\ cancelling > 0 => st = "Cancelling"
    /\ Occurs(loop.manualCompletions, r) = IF st = "Active" /\ r \in loop.manual THEN 1 ELSE 0
    /\ r \in loop.listed <=> st = "Active" /\ r \notin loop.manual /\ InTypedList(r)
    /\ Occurs(loop.poolCompletions, r) =
           IF st \in {"Active", "Cancelling"} /\ loop.task[r] \in {"pushed", "done"} /\ ~Dropped(r)
           THEN 1 ELSE 0

\* AsyncEventLoop::Internal: counters and lists agree with the states of the requests.
BookkeepingExact == CountersExact /\ FoundWhereStateSays

\* teardownAsync: epoll knows a request only while the loop does, so that a request
\* whose callback has returned can be freed; and an active one stays registered.
WatchersExact == \A r \in Requests :
    LET st == loop.state[r] IN
    /\ r \in loop.watched =>
           \/ st \in {"Active", "Reactivate"} \/ cb.req = r
           \/ st = "Cancelling" /\ Occurs(loop.submissions, r) = 1
    /\ st \in {"Active", "Reactivate"} /\ Watches(r) => r \in loop.watched

\* AsyncSequence: at most one request of a sequence is on its way at any time.
SequenceSerial == \A q \in Sequences :
    Cardinality({r \in Requests :
        /\ SequenceOf[r] = q
        /\ \/ loop.state[r] = "Active"
           \/ loop.state[r] \in {"Setup", "Reactivate"} /\ Contains(loop.submissions, r)}) <= 1

\* SC_ASYNC_ASSERT_RELEASE: no assertion of the loop fails.
NoAssertionFails == ~loop.asserted

\* AsyncRequest::stop, runStepExecuteCompletions: a completion callback is for a
\* request that is being submitted or active, never for a stopped or finished one.
CallbackIsOwed ==
    [][cb' # cb /\ cb'.kind \in {"complete", "error", "timer"} /\ cb.kind = "none" =>
           loop.state[cb'.req] \in {"Active", "Setup", "Reactivate"}]_vars

\* AsyncEventLoop::close: it returns with every request free, nothing registered
\* with the kernel or running in the pool, and all counts zero.
CloseLeavesNothing == phase = "closed" =>
    /\ \A r \in Requests : loop.state[r] = "Free" /\ loop.task[r] \in {"idle", "done"}
    /\ loop.watched = {} /\ loop.tracked = {}
    /\ loop.numberOfActiveHandles = 0 /\ loop.numberOfExternals = 0
    /\ loop.numberOfManualCompletions = 0 /\ loop.numberOfSubmissions = 0

\* AsyncEventLoop::submitRequests: it runs no user callback.
NoCallbackWhileSubmitting == phase = "submit" => cb = NoCallback

\* AsyncRequest::stop: a stopped request gets free, its close callback is called.
StopCompletes == \A r \in Requests :
    loop.state[r] = "Cancelling" ~> loop.state[r] = "Free"

\* AsyncSequence: a request waiting in a sequence is submitted or dropped some day.
SequenceProgress == \A r \in Requests : InQueue(r) > 0 ~> InQueue(r) = 0
=============================================================================
