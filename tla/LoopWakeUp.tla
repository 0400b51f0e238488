------------------------------ MODULE LoopWakeUp ------------------------------
(***************************************************************************)
(* SC::AsyncLoopWakeUp (Libraries/Async/Async.cpp) on epoll: any thread    *)
(* asks for a callback on the thread of the loop.  The pendingWakeUps of a *)
(* request, the shared latch wakeUpPending and the eventfd are each read   *)
(* and written atomically, but one after the other.                        *)
(*                                                                         *)
(* Of the loop this module keeps what the wake-ups meet: the submission of *)
(* requests, the poll, the other callbacks of a dispatch, and              *)
(* executeWakeUps with its walk along the list of active requests, whose   *)
(* links are those of every other list.  Module EventLoop has the rest.    *)
(***************************************************************************)
EXTENDS Naturals, SequencesExt

CONSTANTS
    Requests, Threads, Null,
    Coalesce,      \* the requests started with the option coalesce
    Usage,         \* subset of {"stopsNext", "startsBeforeWakeUp"}, see MayStop, MayStart
    MaxStarts, MaxWakeUps   \* bounds on the calls of start and of wakeUp

ASSUME LoopWakeUpAssumption ==
    /\ Null \notin Requests
    /\ Coalesce \in SUBSET Requests
    /\ Usage \in SUBSET {"stopsNext", "startsBeforeWakeUp"}
    /\ MaxStarts \in Nat /\ MaxWakeUps \in Nat

VARIABLES
    state,            \* the state of each request
    pendingWakeUps,
    activeLoopWakeUps,
    submissions,      \* a cancelled request that left it waits for its close callback
    wakeUpPending,    \* the latch that merges notifications
    eventFd,          \* the event descriptor is readable
    thread,           \* where each thread is in wakeUp
    loop,             \* where the thread of the loop is
    ready,            \* epoll_wait returned the event descriptor
    cursor,           \* `async` of executeWakeUps
    current,          \* the request whose callback runs
    reactivated,      \* hasBeenReactivated
    asserted,         \* an assertion failed
    starts, calls

vars == <<state, pendingWakeUps, activeLoopWakeUps, submissions, wakeUpPending, eventFd,
          thread, loop, ready, cursor, current, reactivated, asserted, starts, calls>>
lists == <<state, activeLoopWakeUps, submissions>>
walk == <<ready, cursor, current, reactivated, asserted>>
bounds == <<starts, calls>>

TypeOK ==
    /\ state \in [Requests -> {"Free", "Setup", "Active", "Reactivate", "Cancelling"}]
    /\ pendingWakeUps \in [Requests -> 0 .. MaxWakeUps]
    /\ activeLoopWakeUps \in Seq(Requests) /\ submissions \in Seq(Requests)
    /\ {wakeUpPending, eventFd, ready, reactivated, asserted} \subseteq BOOLEAN
    /\ thread \in [Threads -> {"idle", "notify", "write"}]
    /\ loop \in {"idle", "submit", "poll", "dispatch", "clear", "walk", "callback", "return",
                 "notify", "write"}
    /\ cursor \in Requests \cup {Null} /\ current \in Requests \cup {Null}
    /\ starts \in 0 .. MaxStarts /\ calls \in 0 .. MaxWakeUps

Init ==
    /\ state = [r \in Requests |-> "Free"]
    /\ pendingWakeUps = [r \in Requests |-> 0]
    /\ activeLoopWakeUps = <<>> /\ submissions = <<>>
    /\ wakeUpPending = FALSE /\ eventFd = FALSE
    /\ thread = [t \in Threads |-> "idle"]
    /\ loop = "idle" /\ ready = FALSE
    /\ cursor = Null /\ current = Null /\ reactivated = FALSE
    /\ asserted = FALSE
    /\ starts = 0 /\ calls = 0

-----------------------------------------------------------------------------
(* The intrusive list: a request is linked once, or not at all             *)

Position(list, r) == CHOOSE j \in DOMAIN list : list[j] = r

Unlink(list, r) == IF Contains(list, r) THEN RemoveAt(list, Position(list, r)) ELSE list

-----------------------------------------------------------------------------
(* Any thread: AsyncLoopWakeUp::wakeUp                                     *)

\* Saturates: only the request of a monitor is asked for more often, and it is coalesced.
AddWakeUp(t, r) ==
    /\ thread[t] = "idle"
    /\ pendingWakeUps' = [pendingWakeUps EXCEPT ![r] = IF @ = MaxWakeUps THEN @ ELSE @ + 1]
    /\ thread' = [thread EXCEPT ![t] = IF pendingWakeUps[r] = 0 THEN "notify" ELSE "idle"]
    /\ UNCHANGED <<lists, wakeUpPending, eventFd, loop, walk, starts>>

WakeUp(t, r) ==
    /\ calls < MaxWakeUps /\ calls' = calls + 1
    /\ AddWakeUp(t, r)

\* wakeUpPending.exchange(true): only the one that sets the latch writes.
Exchange(place) == IF wakeUpPending THEN place ELSE "write"

Notify(t) ==
    /\ thread[t] = "notify"
    /\ thread' = [thread EXCEPT ![t] = Exchange("idle")]
    /\ wakeUpPending' = TRUE
    /\ UNCHANGED <<lists, pendingWakeUps, eventFd, loop, walk, bounds>>

Write(t) ==
    /\ thread[t] = "write"
    /\ thread' = [thread EXCEPT ![t] = "idle"]
    /\ eventFd' = TRUE
    /\ UNCHANGED <<lists, pendingWakeUps, wakeUpPending, loop, walk, bounds>>

-----------------------------------------------------------------------------
(* The user of the loop: between its steps and in callbacks                *)

UserCode == loop \in {"idle", "dispatch", "callback"}

\* Usage of its own: a request is started in the dispatch that is about to
\* execute wake-ups.
MayStart == loop = "dispatch" /\ ready => "startsBeforeWakeUp" \in Usage

Start(r) ==
    /\ UserCode /\ starts < MaxStarts /\ state[r] = "Free" /\ MayStart
    /\ state' = [state EXCEPT ![r] = "Setup"]
    /\ pendingWakeUps' = [pendingWakeUps EXCEPT ![r] = 0]
    /\ submissions' = Append(submissions, r)
    /\ starts' = starts + 1
    /\ UNCHANGED <<activeLoopWakeUps, wakeUpPending, eventFd, thread, loop, walk, calls>>

\* Usage of its own: a wake-up callback stops the request the walk visits next.
MayStop(r) == loop = "callback" /\ r = cursor => "stopsNext" \in Usage

\* Slips this code could have made are tried by the mutation runs: this one leaves the
\* request in the list of the active ones.
StopKeepsListed(r) ==
    /\ UserCode /\ state[r] \notin {"Free", "Cancelling"} /\ MayStop(r)
    /\ state' = [state EXCEPT ![r] = "Cancelling"]
    /\ submissions' = Append(Unlink(submissions, r), r)
    /\ UNCHANGED <<activeLoopWakeUps, pendingWakeUps, wakeUpPending, eventFd, thread, loop,
                   walk, bounds>>

StopRequest(r) ==
    /\ state[r] \notin {"Free", "Cancelling"}
    /\ state' = [state EXCEPT ![r] = "Cancelling"]
    /\ activeLoopWakeUps' = Unlink(activeLoopWakeUps, r)
    /\ submissions' = IF state[r] = "Active" THEN Append(submissions, r)
                                             ELSE Unlink(submissions, r)

Stop(r) ==
    /\ UserCode /\ MayStop(r) /\ StopRequest(r)
    /\ UNCHANGED <<pendingWakeUps, wakeUpPending, eventFd, thread, loop, walk, bounds>>

ReactivateRequest ==
    /\ loop = "callback" /\ state[current] = "Free" /\ ~reactivated
    /\ state' = [state EXCEPT ![current] = "Reactivate"]
    /\ submissions' = Append(submissions, current)
    /\ reactivated' = TRUE
    /\ UNCHANGED <<pendingWakeUps, activeLoopWakeUps, wakeUpPending, eventFd, thread, loop,
                   ready, cursor, current, asserted, bounds>>

-----------------------------------------------------------------------------
(* A step of the loop                                                      *)

RunStep ==
    /\ loop = "idle" /\ loop' = "submit"
    /\ UNCHANGED <<lists, pendingWakeUps, wakeUpPending, eventFd, thread, walk, bounds>>

SubmitRequests ==
    /\ loop = "submit" /\ submissions # <<>>
    /\ LET r == Head(submissions) IN
       /\ submissions' = Tail(submissions)
       /\ IF state[r] = "Cancelling" THEN UNCHANGED <<state, activeLoopWakeUps>>
          ELSE /\ state' = [state EXCEPT ![r] = "Active"]
               /\ activeLoopWakeUps' = Append(activeLoopWakeUps, r)
    /\ UNCHANGED <<pendingWakeUps, wakeUpPending, eventFd, thread, loop, walk, bounds>>

SubmitDone ==
    /\ loop = "submit" /\ submissions = <<>>
    /\ loop' = "poll"
    /\ UNCHANGED <<lists, pendingWakeUps, wakeUpPending, eventFd, thread, walk, bounds>>

\* epoll_pwait returns for the event descriptor, or for another one; the poll is left out
\* when nothing is active.
PollReturns ==
    /\ loop' = "dispatch"
    /\ ready' \in IF activeLoopWakeUps = <<>> THEN {FALSE, eventFd} ELSE {eventFd}
    /\ UNCHANGED <<lists, pendingWakeUps, wakeUpPending, eventFd, thread, cursor, current,
                   reactivated, asserted, bounds>>

BlockingPoll == loop = "poll" /\ PollReturns

\* completeWakeUp reads the event descriptor; without it there is nothing to execute,
\* and the cancelled requests get free.
ReadEvent ==
    /\ loop = "dispatch" /\ ready
    /\ eventFd' = FALSE /\ ready' = FALSE
    /\ loop' = "clear"
    /\ UNCHANGED <<lists, pendingWakeUps, wakeUpPending, thread, cursor, current,
                   reactivated, asserted, bounds>>

CancellationsDone ==
    /\ \/ loop = "dispatch" /\ ~ready
       \/ loop = "walk" /\ cursor = Null
    /\ loop' = "idle"
    /\ state' = [r \in Requests |-> IF state[r] = "Cancelling" /\ ~Contains(submissions, r)
                                    THEN "Free" ELSE state[r]]
    /\ UNCHANGED <<activeLoopWakeUps, submissions, pendingWakeUps, wakeUpPending, eventFd,
                   thread, walk, bounds>>

\* Slip: the latch is left to whoever sets it next.
LatchKept ==
    /\ loop = "clear" /\ loop' = "walk"
    /\ cursor' = IF activeLoopWakeUps = <<>> THEN Null ELSE Head(activeLoopWakeUps)
    /\ UNCHANGED <<lists, pendingWakeUps, wakeUpPending, eventFd, thread, ready, current,
                   reactivated, asserted, bounds>>

\* executeWakeUps releases the latch before it looks at any request.
ReleaseLatch ==
    /\ loop = "clear" /\ loop' = "walk"
    /\ wakeUpPending' = FALSE
    /\ cursor' = IF activeLoopWakeUps = <<>> THEN Null ELSE Head(activeLoopWakeUps)
    /\ UNCHANGED <<lists, pendingWakeUps, eventFd, thread, ready, current, reactivated,
                   asserted, bounds>>

\* The link `next` of a request, in whichever list the request is.
NextIn(list, r) ==
    IF Position(list, r) = Len(list) THEN Null ELSE list[Position(list, r) + 1]
NextOf(r) ==
    IF Contains(activeLoopWakeUps, r) THEN NextIn(activeLoopWakeUps, r)
    ELSE IF Contains(submissions, r) THEN NextIn(submissions, r) ELSE Null

\* Slip: a callback is run for every request of the list.
NeverTested(r) == TRUE

Asked(r) == pendingWakeUps[r] > 0

LeftPending(r) == IF r \in Coalesce THEN 0 ELSE pendingWakeUps[r] - 1

\* One request of the walk: consumePendingWakeUps and removeActiveHandle.
ExecuteWakeUp ==
    /\ loop = "walk" /\ cursor # Null
    /\ cursor' = NextOf(cursor)
    /\ IF ~Asked(cursor)
       THEN UNCHANGED <<loop, current, pendingWakeUps, lists, asserted>>
       ELSE /\ loop' = "callback" /\ current' = cursor
            /\ pendingWakeUps' = [pendingWakeUps EXCEPT ![cursor] = LeftPending(cursor)]
            /\ state' = [state EXCEPT ![cursor] = "Free"]
            /\ activeLoopWakeUps' = Unlink(activeLoopWakeUps, cursor)
            /\ UNCHANGED submissions
            /\ asserted' = (asserted \/ state[cursor] # "Active")
    /\ UNCHANGED <<wakeUpPending, eventFd, thread, ready, reactivated, bounds>>

CallbackReturns ==
    /\ loop = "callback" /\ loop' = "return"
    /\ UNCHANGED <<lists, pendingWakeUps, wakeUpPending, eventFd, thread, walk, bounds>>

\* Slip: every wake-up is taken to be coalesced.
AllConsumed == FALSE

\* What came while the callback ran and is not consumed yet needs a new notification.
MustNotify == reactivated /\ pendingWakeUps[current] > 0

AfterCallback ==
    /\ loop = "return"
    /\ loop' = IF MustNotify THEN "notify" ELSE "walk"
    /\ reactivated' = FALSE /\ current' = Null
    /\ UNCHANGED <<lists, pendingWakeUps, wakeUpPending, eventFd, thread, ready, cursor,
                   asserted, bounds>>

LoopNotify ==
    /\ loop = "notify"
    /\ loop' = Exchange("walk")
    /\ wakeUpPending' = TRUE
    /\ UNCHANGED <<lists, pendingWakeUps, eventFd, thread, walk, bounds>>

LoopWrite ==
    /\ loop = "write" /\ loop' = "walk"
    /\ eventFd' = TRUE
    /\ UNCHANGED <<lists, pendingWakeUps, wakeUpPending, thread, walk, bounds>>

LoopStep ==
    \/ RunStep \/ SubmitRequests \/ SubmitDone \/ (eventFd /\ BlockingPoll)
    \/ ReadEvent \/ CancellationsDone \/ ReleaseLatch \/ ExecuteWakeUp
    \/ CallbackReturns \/ AfterCallback \/ LoopNotify \/ LoopWrite

ThreadStep(t) == (\E r \in Requests : WakeUp(t, r)) \/ Notify(t) \/ Write(t)

Next ==
    \/ \E t \in Threads : ThreadStep(t)
    \/ \E r \in Requests : Start(r) \/ Stop(r)
    \/ ReactivateRequest \/ BlockingPoll \/ LoopStep

Spec == Init /\ [][Next]_vars

\* A thread inside wakeUp goes on; the loop goes on, its callbacks return, and its poll
\* returns when the event descriptor is readable: other descriptors may never be ready.
FairSpec ==
    /\ Spec
    /\ WF_vars(LoopStep)
    /\ \A t \in Threads : WF_vars(Notify(t)) /\ WF_vars(Write(t))

-----------------------------------------------------------------------------

Walking == loop \in {"walk", "callback", "return", "notify", "write"}

\* What a list holds from a request on.
From(list, r) == {list[j] : j \in Position(list, r) .. Len(list)}

\* The requests of the active list that the walk has still to visit.
Ahead ==
    IF Walking /\ Contains(activeLoopWakeUps, cursor) THEN From(activeLoopWakeUps, cursor) ELSE {}

\* executeWakeUps, wakeUp: the loop is on its way to every active request that was asked
\* for. Either somebody is about to set the latch, or it is set, and then the event
\* descriptor is or gets readable, or the walk has still to come by.
NoLostWakeUp ==
    /\ \A r \in Requests : state[r] = "Active" /\ pendingWakeUps[r] > 0 =>
        \/ wakeUpPending \/ r \in Ahead \/ loop = "notify"
        \/ \E t \in Threads : thread[t] = "notify"
    /\ wakeUpPending =>
        \/ eventFd \/ loop \in {"clear", "write"}
        \/ \E t \in Threads : thread[t] = "write"

\* executeWakeUps: a callback is only for an active request (the release assertion of
\* removeActiveHandle), and the active list is the list of the active requests.
WalkSound ==
    /\ ~asserted
    /\ ToSet(activeLoopWakeUps) = {r \in Requests : state[r] = "Active"}
    /\ Len(activeLoopWakeUps) = Cardinality(ToSet(activeLoopWakeUps))

\* AsyncLoopWakeUp::wakeUp: an active request that was asked for gets its callback.
WakeUpDelivered == \A r \in Requests :
    state[r] = "Active" /\ pendingWakeUps[r] > 0 ~> state[r] # "Active"
=============================================================================
