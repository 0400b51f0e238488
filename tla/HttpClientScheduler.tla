------------------------- MODULE HttpClientScheduler -------------------------
(***************************************************************************)
(* HttpClientOperationScheduler (Libraries/HttpClient): the notifier of    *)
(* several operations, which keeps one flag for each of them, set by the   *)
(* worker threads, so that the owner polls only those that have events.    *)
(***************************************************************************)
EXTENDS HttpClientOperation

VARIABLES
    schedulerInitialized,
    readyOperations,
    readyCV,           \* whether the owner sleeps there
    index, all         \* of the loops of pollReady and pollAll

scheduler == <<schedulerInitialized, readyOperations, readyCV, index, all>>
allVars == <<vars, scheduler>>

SchedulerTypeOK ==
    /\ schedulerInitialized \in BOOLEAN /\ readyCV \in BOOLEAN /\ all \in BOOLEAN
    /\ readyOperations \in [Operations -> BOOLEAN]
    /\ index \in 1 .. Len(setting.registered) + 1

SchedulerInit ==
    /\ Init
    /\ schedulerInitialized = FALSE /\ readyCV = FALSE /\ all = FALSE
    /\ readyOperations = [o \in Operations |-> FALSE]
    /\ index = 1

Registered == ToSet(setting.registered)

\* The first half of init(), and the flag it sets at its end.
Register ==
    /\ setting.client = "schedules" /\ owner.at = "out"
    /\ ~schedulerInitialized
    /\ \E o \in Registered : ~notifier[o]
    /\ \A o \in Registered : initialized[o]
    /\ readyOperations' = [o \in Operations |-> o \in Registered]
    /\ notifier' = [o \in Operations |-> o \in Registered]
    /\ UNCHANGED <<setting, initialized, request, queue, backend, worker, owner,
                   schedulerInitialized, readyCV, index, all>>

SchedulerStarts ==
    /\ owner.at = "out"
    /\ ~schedulerInitialized /\ \E o \in Registered : notifier[o]
    /\ schedulerInitialized' = TRUE
    /\ UNCHANGED <<vars, readyOperations, readyCV, index, all>>

SchedulerCloses ==
    /\ Uses("closeScheduler") /\ owner.at = "out"
    /\ schedulerInitialized
    /\ schedulerInitialized' = FALSE
    /\ notifier' = [o \in Operations |-> FALSE]
    /\ readyOperations' = [o \in Operations |-> FALSE]
    /\ UNCHANGED <<setting, initialized, request, queue, backend, worker, owner,
                   readyCV, index, all>>

SetsReady(o) ==
    /\ readyOperations' = [readyOperations EXCEPT ![o] = TRUE]
    /\ readyCV' = FALSE
    /\ UNCHANGED <<schedulerInitialized, index, all>>

\* Whether the scheduler is initialized is read before the mutex is taken.
NotifyHttpClientOperation(o) ==
    /\ WorkerGoes(o, "mark", IF schedulerInitialized THEN "set" ELSE AfterEvent(o))
    /\ UNCHANGED <<setting, lifetime, request, queue, backend, owner, scheduler>>

\* A slip: the sleeping owner is not told.
NotifySilently(o) ==
    /\ WorkerGoes(o, "set", AfterEvent(o))
    /\ readyOperations' = [readyOperations EXCEPT ![o] = TRUE]
    /\ UNCHANGED <<setting, lifetime, request, queue, backend, owner,
                   schedulerInitialized, readyCV, index, all>>

NotifyLocked(o) ==
    /\ WorkerGoes(o, "set", AfterEvent(o))
    /\ SetsReady(o)
    /\ UNCHANGED <<setting, lifetime, request, queue, backend, owner>>

MarkReady(o) ==
    /\ schedulerInitialized /\ owner.at = "out" /\ o \in Registered
    /\ SetsReady(o)
    /\ UNCHANGED vars

PollReady ==
    /\ schedulerInitialized /\ owner.at = "out"
    /\ \E waits \in BOOLEAN : owner' = [Idle EXCEPT !.at = "ready", !.waits = waits]
    /\ all' = FALSE /\ index' = 1
    /\ UNCHANGED <<setting, lifetime, request, queue, backend, worker,
                   schedulerInitialized, readyOperations, readyCV>>

WaitForReady ==
    /\ IF owner.waits /\ (\A o \in Registered : ~readyOperations[o])
                      /\ (\E o \in Registered : inFlight[o])
       THEN OwnerGoes("ready", "asleep") /\ readyCV' = TRUE
       ELSE OwnerGoes("ready", "scan") /\ UNCHANGED readyCV
    /\ UNCHANGED <<setting, lifetime, request, queue, backend, worker,
                   schedulerInitialized, readyOperations, index, all>>

\* It was told, it timed out, or neither.
WakeUpReady ==
    /\ OwnerGoes("asleep", "scan")
    /\ readyCV' = FALSE
    /\ UNCHANGED <<setting, lifetime, request, queue, backend, worker,
                   schedulerInitialized, readyOperations, index, all>>

PollAll ==
    /\ schedulerInitialized /\ OwnerGoes("out", "scan")
    /\ all' = TRUE /\ index' = 1
    /\ UNCHANGED <<setting, lifetime, request, queue, backend, worker,
                   schedulerInitialized, readyOperations, readyCV>>

\* An operation that cannot be polled ends the loop, its flag is cleared all the same.
Scan ==
    /\ owner.at = "scan" /\ index <= Len(setting.registered)
    /\ LET o == setting.registered[index] IN
        /\ index' = index + 1
        /\ readyOperations' = [readyOperations EXCEPT ![o] = all /\ @]
        /\ IF ~all /\ ~readyOperations[o] THEN UNCHANGED owner
           ELSE IF initialized[o] THEN Polls(o, "scan", FALSE, "scan")
           ELSE owner' = Idle
    /\ UNCHANGED <<setting, lifetime, request, queue, backend, worker,
                   schedulerInitialized, readyCV, all>>

ScanEnds ==
    /\ owner.at = "scan" /\ index > Len(setting.registered)
    /\ owner' = Idle
    /\ UNCHANGED <<setting, lifetime, request, queue, backend, worker, scheduler>>

-----------------------------------------------------------------------------

Notifies(o) == NotifyHttpClientOperation(o) \/ NotifyLocked(o)
SchedulerStep == WaitForReady \/ WakeUpReady \/ Scan \/ ScanEnds

\* Closing an operation takes its notifier away: one that is initialized again needs the
\* scheduler to be so, too.
MayReopen ==
    schedulerInitialized /\ ~Uses("reopen") =>
        \A o \in Operations : initialized'[o] => initialized[o]

Next ==
    \/ OperationNext /\ MayReopen /\ UNCHANGED scheduler
    \/ SchedulerStep \/ Register \/ SchedulerStarts \/ SchedulerCloses \/ PollReady \/ PollAll
    \/ \E o \in Operations : Notifies(o) \/ MarkReady(o)

\* Threads run, waits time out and calls go on; who has a request in flight polls it again
\* and again, or calls the scheduler.  curl_easy_perform gets on and returns.
Fairness ==
    /\ \A o \in Operations :
        /\ WF_allVars(WorkerStep(o) /\ UNCHANGED scheduler)
        /\ WF_allVars(Notifies(o))
        /\ SF_allVars(Poll(o) /\ UNCHANGED scheduler)
    /\ WF_allVars(OwnerStep /\ UNCHANGED scheduler)
    /\ WF_allVars(SchedulerStep)
    /\ SF_allVars(Register) /\ SF_allVars(SchedulerStarts) /\ SF_allVars(PollReady)

Spec == SchedulerInit /\ [][Next]_allVars
FairSpec == Spec /\ Fairness

-----------------------------------------------------------------------------

\* Each buffer in use is with the worker that fills it, in one event of the queue, or
\* with the listener, and nothing of a request is left when the next may start: nobody
\* writes what another reads, and no buffer gets lost.
BuffersAccounted ==
    \A o \in Operations :
        LET queued == {i \in DOMAIN events[o] : events[o][i] \in Buffers}
            filled == {w \in {worker[o]} : w.at \in {"copy", "enqueue"} /\ w.event \in Buffers}
            shown == {r \in {owner} : r.op = o /\ r.at \in {"handle", "release"} /\ r.event \in Buffers}
        IN  /\ inUse[o] = {events[o][i] : i \in queued} \cup {x.event : x \in filled \cup shown}
            /\ Cardinality(inUse[o]) =
                 Cardinality(queued) + Cardinality(filled) + Cardinality(shown)
            /\ ~inFlight[o] => events[o] = <<>> /\ inUse[o] = {}

\* One condition variable, and signal() instead of broadcast(), are enough: worker and
\* owner never sleep at once, and nobody sleeps on what is there.
NobodySleepsOn ==
    /\ \A o \in Operations :
        /\ eventCV[o] # {"worker", "owner"}
        /\ "worker" \in eventCV[o] =>
             \/ worker[o].at = "enqueue" /\ Len(events[o]) = setting.queueSize
             \/ worker[o].at = "allocate" /\ inUse[o] = setting.buffers
        /\ "owner" \in eventCV[o] => events[o] = <<>> /\ inFlight[o]
    /\ readyCV => \A o \in Registered : ~readyOperations[o]

\* HttpClientScheduler.h: an operation with queued events is ready, is about to be, or is
\* being polled right now.
EventsNoticed ==
    schedulerInitialized =>
        \A o \in Registered :
            notifier[o] /\ events[o] # <<>> =>
                \/ readyOperations[o] \/ worker[o].at \in {"notify", "mark", "set"}
                \/ owner.op = o /\ owner.at \in {"process", "handle", "release", "callback"}

HandOverSound == TypeOK /\ SchedulerTypeOK /\ BuffersAccounted /\ NobodySleepsOn /\ EventsNoticed

\* A request that its owner polls, itself or through the scheduler, ends; close returns,
\* and executeBlocking.
RequestsEnd ==
    /\ \A o \in Operations : (inFlight[o] /\ owner.at \notin {"closing"}) ~> ~inFlight[o]
    /\ (owner.at \in {"closing", "loop"}) ~> (owner.at \notin {"closing", "loop"})

\* HttpClient.h: "exhaustion fails the request instead of truncating silently": a
\* body that does not fit makes executeBlocking return.
OverflowReported == \A o \in Operations : Overflows(o) ~> owner.at = "returned"
=============================================================================
