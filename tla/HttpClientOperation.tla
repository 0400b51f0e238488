------------------------- MODULE HttpClientOperation -------------------------
(***************************************************************************)
(* HttpClientOperation (Libraries/HttpClient/HttpClient.cpp) over libcurl  *)
(* (Internal/HttpClientLinux.inl).  Each request has a worker thread that  *)
(* is in curl_easy_perform and turns what curl calls back into events of   *)
(* a bounded queue, with the body in a bounded set of buffers; the owner,  *)
(* a single thread, takes the events out in poll() and calls the listener. *)
(* One mutex with one condition variable serves all who wait: the worker   *)
(* for a slot or for a buffer, the owner for an event.                     *)
(*                                                                         *)
(* An action is what one thread does under the mutex, or between.  The     *)
(* owner polls, or has its calls made by a scheduler, or is in             *)
(* executeBlocking (setting.client).  curl passes setting.pieces pieces of *)
(* body, at most setting.chunk at once; a piece is what fits in a buffer.  *)
(***************************************************************************)
EXTENDS Integers, SequencesExt, FiniteSets, ConditionVariables

CONSTANTS Operations, Buffers, Settings, Nothing

\* init() refuses an operation without buffers or without a queue.
ASSUME HttpClientOperationAssumption ==
    /\ IsFiniteSet(Buffers) /\ Buffers \cap {"head", "complete", "error"} = {}
    /\ Nothing \notin Operations \cup Buffers \cup {"head", "complete", "error"}
    /\ \A s \in Settings :
        /\ s.buffers \subseteq Buffers /\ s.buffers # {}
        /\ s.queueSize \in Nat \ {0}
        /\ s.registered \in Seq(Operations)

VARIABLES
    setting,
    initialized, inFlight, notifier,
    events, inUse,
    content,           \* the number of the piece in a buffer, 0 where it does not matter
    eventCV,           \* who sleeps: "worker", "owner"
    cancelRequested, workerRunning, responseHeadSeen,
    worker,            \* where the thread is, its event, the pieces left of a chunk,
                       \* and how curl_easy_perform ended
    owner,             \* where it is, the operation and the event it processes, whether
                       \* poll may wait, and where to go on after it
    sent, heard        \* history of the request: pieces received, and what the listener heard

queue == <<events, inUse, content, eventCV>>
backend == <<cancelRequested, workerRunning, responseHeadSeen>>
lifetime == <<initialized, notifier>>
request == <<inFlight, sent, heard>>
vars == <<setting, lifetime, request, queue, backend, worker, owner>>

Promise == INSTANCE Response
ImplementsResponse == Promise!Spec
Silence == Promise!Silence

Uses(u) == u \in setting.usage
Ends == {"complete", "error"}

NoThread == [at |-> "none", event |-> Nothing, left |-> 0, outcome |-> "none"]
Idle == [at |-> "out", op |-> Nothing, event |-> Nothing, waits |-> FALSE, then |-> "out"]

WorkerStates ==
    [at : {"none", "perform", "allocate", "copy", "enqueue", "notify", "mark", "set", "ended", "exit"},
     event : Buffers \cup Ends \cup {"head", Nothing},
     left : Nat, outcome : Ends \cup {"none"}]

OwnerStates ==
    [at : {"out", "process", "handle", "release", "callback", "wait", "closing",
           "loop", "closes", "returned", "ready", "asleep", "scan"},
     op : Operations \cup {Nothing},
     event : Buffers \cup Ends \cup {"head", Nothing},
     waits : BOOLEAN,
     then : {"out", "loop", "closes", "scan"}]

TypeOK ==
    /\ setting \in Settings
    /\ initialized \in [Operations -> BOOLEAN] /\ notifier \in [Operations -> BOOLEAN]
    /\ inFlight \in [Operations -> BOOLEAN]
    /\ events \in [Operations -> Seq(Buffers \cup Ends \cup {"head"})]
    /\ inUse \in [Operations -> SUBSET Buffers]
    /\ content \in [Operations -> [Buffers -> Nat]]
    /\ eventCV \in [Operations -> SUBSET {"worker", "owner"}]
    /\ cancelRequested \in [Operations -> BOOLEAN]
    /\ workerRunning \in [Operations -> BOOLEAN]
    /\ responseHeadSeen \in [Operations -> BOOLEAN]
    /\ worker \in [Operations -> WorkerStates] /\ owner \in OwnerStates
    /\ sent \in [Operations -> Nat]
    /\ heard \in [Operations -> [head : BOOLEAN, body : Nat, end : Ends \cup {"none"}]]

Init ==
    /\ setting \in Settings
    /\ initialized = [o \in Operations |-> o \in setting.operations]
    /\ notifier = [o \in Operations |-> FALSE]
    /\ events = [o \in Operations |-> <<>>]
    /\ inUse = [o \in Operations |-> {}]
    /\ content = [o \in Operations |-> [b \in Buffers |-> 0]]
    /\ eventCV = [o \in Operations |-> {}]
    /\ cancelRequested = [o \in Operations |-> FALSE]
    /\ workerRunning = [o \in Operations |-> FALSE]
    /\ responseHeadSeen = [o \in Operations |-> FALSE]
    /\ worker = [o \in Operations |-> NoThread]
    /\ owner = Idle
    /\ Promise!Init

SignalCV(o) == \E left \in Signal(eventCV[o]) : eventCV' = [eventCV EXCEPT ![o] = left]
Sleeps(o, who) == who \notin eventCV[o] /\ eventCV' = [eventCV EXCEPT ![o] = @ \cup {who}]

-----------------------------------------------------------------------------
(* The worker thread                                                       *)

WorkerGoes(o, from, to) == worker[o].at = from /\ worker' = [worker EXCEPT ![o].at = to]

Has(o, from, event) ==
    /\ worker[o].at = from
    /\ worker' = [worker EXCEPT ![o].at = "enqueue", ![o].event = event]

ReceiveHead(o) ==
    /\ ~responseHeadSeen[o]
    /\ responseHeadSeen' = [responseHeadSeen EXCEPT ![o] = TRUE]
    /\ Has(o, "perform", "head")
    /\ UNCHANGED <<setting, lifetime, request, queue, cancelRequested, workerRunning, owner>>

ReceiveData(o) ==
    /\ responseHeadSeen[o]
    /\ worker[o].at = "perform"
    /\ \E n \in 1 .. setting.chunk :
        /\ sent[o] + n <= setting.pieces
        /\ worker' = [worker EXCEPT ![o].at = "allocate", ![o].left = n]
    /\ UNCHANGED <<setting, lifetime, request, queue, backend, owner>>

\* A slip: the buffers in use are not left out.
AllocateAnyBuffer(o) ==
    /\ worker[o].at = "allocate" /\ inFlight[o]
    /\ \E b \in setting.buffers :
        /\ inUse' = [inUse EXCEPT ![o] = @ \cup {b}]
        /\ worker' = [worker EXCEPT ![o].at = "copy", ![o].event = b]
    /\ UNCHANGED <<setting, lifetime, request, events, content, eventCV, backend, owner>>

\* The wait ends only when a buffer is free: nothing resets inFlight before the thread ends.
AllocateResponseBuffer(o) ==
    /\ worker[o].at = "allocate" /\ inFlight[o]
    /\ LET free == setting.buffers \ inUse[o]
       IN  \/ \E b \in free :
                /\ "worker" \notin eventCV[o]
                /\ inUse' = [inUse EXCEPT ![o] = @ \cup {b}]
                /\ worker' = [worker EXCEPT ![o].at = "copy", ![o].event = b]
                /\ UNCHANGED eventCV
           \/ free = {} /\ Sleeps(o, "worker") /\ UNCHANGED <<inUse, worker>>
    /\ UNCHANGED <<setting, lifetime, request, events, content, backend, owner>>

CopyData(o) ==
    /\ worker[o].at = "copy"
    /\ content' = [content EXCEPT ![o][worker[o].event] = sent[o] + 1]
    /\ sent' = [sent EXCEPT ![o] = @ + 1]
    /\ worker' = [worker EXCEPT ![o].at = "enqueue", ![o].left = @ - 1]
    /\ UNCHANGED <<setting, lifetime, inFlight, heard, events, inUse, eventCV, backend, owner>>

EnqueueEvent(o) ==
    /\ worker[o].at = "enqueue"
    /\ \/ /\ Len(events[o]) < setting.queueSize /\ "worker" \notin eventCV[o]
          /\ events' = [events EXCEPT ![o] = Append(@, worker[o].event)]
          /\ SignalCV(o)
          /\ WorkerGoes(o, "enqueue", "notify")
       \/ /\ Len(events[o]) = setting.queueSize /\ Sleeps(o, "worker")
          /\ UNCHANGED <<events, worker>>
    /\ UNCHANGED <<setting, lifetime, request, inUse, content, backend, owner>>

\* Where the thread is once the event is in the queue and the notifier was told.
AfterEvent(o) ==
    IF worker[o].event \in Ends THEN "exit"
    ELSE IF worker[o].outcome # "none" THEN "ended"
    ELSE IF worker[o].left > 0 THEN "allocate" ELSE "perform"

\* The notifier is read without a lock.  What it does is up to HttpClientScheduler.
Notify(o) ==
    /\ WorkerGoes(o, "notify", IF notifier[o] THEN "mark" ELSE AfterEvent(o))
    /\ UNCHANGED <<setting, lifetime, request, queue, backend, owner>>

\* curl_easy_perform returns.  The head of a response that never came is an event, too.
PerformReturns(o) ==
    /\ worker[o].at = "perform"
    /\ \E outcome \in Ends :
        /\ outcome = "complete" => responseHeadSeen[o]
        /\ outcome = "error" => cancelRequested[o] \/ Uses("fails")
        /\ worker' = [worker EXCEPT ![o] =
             [at |-> IF responseHeadSeen[o] THEN "ended" ELSE "enqueue",
              event |-> "head", left |-> 0, outcome |-> outcome]]
    /\ UNCHANGED <<setting, lifetime, request, queue, backend, owner>>

EnqueueEnd(o) ==
    /\ Has(o, "ended", worker[o].outcome)
    /\ UNCHANGED <<setting, lifetime, request, queue, backend, owner>>

WorkerExits(o) ==
    /\ worker[o].at = "exit"
    /\ workerRunning' = [workerRunning EXCEPT ![o] = FALSE]
    /\ worker' = [worker EXCEPT ![o] = NoThread]
    /\ UNCHANGED <<setting, lifetime, request, queue, cancelRequested, responseHeadSeen, owner>>

WorkerStep(o) ==
    \/ ReceiveHead(o) \/ ReceiveData(o) \/ PerformReturns(o)
    \/ AllocateResponseBuffer(o) \/ CopyData(o) \/ EnqueueEvent(o) \/ Notify(o)
    \/ EnqueueEnd(o) \/ WorkerExits(o)

-----------------------------------------------------------------------------
(* The owner                                                               *)

OwnerGoes(from, to) == owner.at = from /\ owner' = [owner EXCEPT !.at = to]

\* Where the user's code runs: between calls, or in a callback of the listener.
UserCode == owner.at \in {"out", "release", "callback"}

Starts(o) ==
    /\ initialized[o] /\ ~inFlight[o] /\ ~workerRunning[o]
    /\ inFlight' = [inFlight EXCEPT ![o] = TRUE]
    /\ sent' = [sent EXCEPT ![o] = 0]
    /\ heard' = [heard EXCEPT ![o] = Silence]
    /\ cancelRequested' = [cancelRequested EXCEPT ![o] = FALSE]
    /\ responseHeadSeen' = [responseHeadSeen EXCEPT ![o] = FALSE]
    /\ workerRunning' = [workerRunning EXCEPT ![o] = TRUE]
    /\ worker' = [worker EXCEPT ![o] = [NoThread EXCEPT !.at = "perform"]]
    /\ UNCHANGED <<setting, lifetime, queue>>

\* It is refused, and nothing changes, while the last thread has not left.
Start(o) ==
    /\ setting.client # "blocks"
    /\ \/ owner.at = "out"
       \/ Uses("startInCallback") /\ owner.at = "callback"
    /\ Starts(o)
    /\ UNCHANGED owner

Cancel(o) ==
    /\ Uses("cancel") /\ UserCode
    /\ initialized[o] /\ inFlight[o]
    /\ cancelRequested' = [cancelRequested EXCEPT ![o] = TRUE]
    /\ UNCHANGED <<setting, lifetime, request, queue, workerRunning, responseHeadSeen, worker, owner>>

\* poll, called from a place of the caller and returning to another.
Polls(o, from, waits, then) ==
    /\ owner.at = from
    /\ owner' = [at |-> "process", op |-> o, event |-> Nothing, waits |-> waits, then |-> then]

Poll(o) ==
    /\ setting.client = "polls" /\ initialized[o]
    /\ \E waits \in BOOLEAN : Polls(o, "out", waits, "out")
    /\ UNCHANGED <<setting, lifetime, request, queue, backend, worker>>

Return == IF owner.then = "out" THEN Idle ELSE [owner EXCEPT !.at = owner.then, !.event = Nothing]

\* A slip: a worker that waits for a slot is not told.
DequeueSilently ==
    /\ owner.at = "process" /\ events[owner.op] # <<>>
    /\ events' = [events EXCEPT ![owner.op] = Tail(@)]
    /\ owner' = [owner EXCEPT !.at = "handle", !.event = Head(events[owner.op])]
    /\ UNCHANGED <<setting, lifetime, request, inUse, content, eventCV, backend, worker>>

Dequeue ==
    LET o == owner.op IN
    /\ owner.at = "process" /\ events[o] # <<>>
    /\ events' = [events EXCEPT ![o] = Tail(@)]
    /\ SignalCV(o)
    /\ owner' = [owner EXCEPT !.at = "handle", !.event = Head(events[o])]
    /\ UNCHANGED <<setting, lifetime, request, inUse, content, backend, worker>>

NothingPending ==
    /\ owner.at = "process" /\ events[owner.op] = <<>>
    /\ owner' = IF owner.waits /\ inFlight[owner.op]
                THEN [owner EXCEPT !.at = "wait", !.waits = FALSE]
                ELSE Return
    /\ UNCHANGED <<setting, lifetime, request, queue, backend, worker>>

WaitForEvent ==
    LET o == owner.op IN
    /\ owner.at = "wait"
    /\ \/ inFlight[o] /\ events[o] = <<>> /\ Sleeps(o, "owner") /\ UNCHANGED owner
       \/ /\ "owner" \notin eventCV[o] /\ ~(inFlight[o] /\ events[o] = <<>>)
          /\ OwnerGoes("wait", "process") /\ UNCHANGED eventCV
    /\ UNCHANGED <<setting, lifetime, request, events, inUse, content, backend, worker>>

\* Events that came in at the same time are left to the next poll.
WaitTimesOut ==
    /\ owner.at = "wait" /\ "owner" \in eventCV[owner.op]
    /\ eventCV' = [eventCV EXCEPT ![owner.op] = @ \ {"owner"}]
    /\ owner' = Return
    /\ UNCHANGED <<setting, lifetime, request, events, inUse, content, backend, worker>>

HandleHead ==
    /\ owner.event = "head" /\ OwnerGoes("handle", "callback")
    /\ heard' = [heard EXCEPT ![owner.op].head = TRUE]
    /\ UNCHANGED <<setting, lifetime, inFlight, sent, queue, backend, worker>>

\* In executeBlocking the listener has room for setting.room pieces, and cancels beyond that.
NoRoom(pieces) == setting.client = "blocks" /\ pieces > setting.room
Overflows(o) == NoRoom(heard[o].body)

HandleData ==
    LET o == owner.op
        piece == content[o][owner.event]
    IN
    /\ owner.event \in Buffers /\ OwnerGoes("handle", "release")
    /\ heard' = [heard EXCEPT ![o].body = piece]
    /\ cancelRequested' = [cancelRequested EXCEPT ![o] = @ \/ NoRoom(piece)]
    /\ UNCHANGED <<setting, lifetime, inFlight, sent, queue, workerRunning, responseHeadSeen, worker>>

ReleaseResponseBuffer ==
    LET o == owner.op IN
    /\ OwnerGoes("release", "process")
    /\ inUse' = [inUse EXCEPT ![o] = @ \ {owner.event}]
    /\ content' = [content EXCEPT ![o][owner.event] = 0]
    /\ SignalCV(o)
    /\ UNCHANGED <<setting, lifetime, request, events, backend, worker>>

HandleEnd ==
    LET o == owner.op IN
    /\ owner.event \in Ends /\ OwnerGoes("handle", "callback")
    /\ inFlight' = [inFlight EXCEPT ![o] = FALSE]
    /\ heard' = [heard EXCEPT ![o].end = owner.event]
    /\ SignalCV(o)
    /\ UNCHANGED <<setting, lifetime, sent, events, inUse, content, backend, worker>>

CallbackReturns ==
    /\ OwnerGoes("callback", "process")
    /\ UNCHANGED <<setting, lifetime, request, queue, backend, worker>>

\* close() cancels what is in flight, and joins the thread without polling.
Closes(o, from) ==
    /\ owner.at = from /\ initialized[o]
    /\ owner' = [Idle EXCEPT !.at = "closing", !.op = o]
    /\ cancelRequested' = [cancelRequested EXCEPT ![o] = @ \/ inFlight[o]]
    /\ UNCHANGED <<setting, lifetime, request, queue, workerRunning, responseHeadSeen, worker>>

Close(o) ==
    /\ setting.client # "blocks" /\ Uses("close")
    /\ inFlight[o] => Uses("closeInFlight")
    /\ Closes(o, "out")

WorkerJoined ==
    LET o == owner.op IN
    /\ owner.at = "closing" /\ worker[o] = NoThread
    /\ initialized' = [initialized EXCEPT ![o] = FALSE]
    /\ notifier' = [notifier EXCEPT ![o] = FALSE]
    /\ inFlight' = [inFlight EXCEPT ![o] = FALSE]
    /\ events' = [events EXCEPT ![o] = <<>>]
    /\ inUse' = [inUse EXCEPT ![o] = {}]
    /\ content' = [content EXCEPT ![o] = [b \in Buffers |-> 0]]
    /\ cancelRequested' = [cancelRequested EXCEPT ![o] = FALSE]
    /\ responseHeadSeen' = [responseHeadSeen EXCEPT ![o] = FALSE]
    /\ owner' = IF setting.client = "blocks" THEN [Idle EXCEPT !.at = "returned"] ELSE Idle
    /\ UNCHANGED <<setting, sent, heard, eventCV, workerRunning, worker>>

Initialize(o) ==
    /\ owner.at \in {"out", "returned"} /\ o \in setting.operations /\ ~initialized[o]
    /\ initialized' = [initialized EXCEPT ![o] = TRUE]
    /\ owner' = Idle
    /\ UNCHANGED <<setting, notifier, request, queue, backend, worker>>

-----------------------------------------------------------------------------
(* HttpClient::executeBlocking                                             *)

ExecuteBlocking(o) ==
    /\ setting.client = "blocks" /\ owner.at = "out"
    /\ Starts(o)
    /\ owner' = [Idle EXCEPT !.at = "loop", !.op = o]

BlockingLoop ==
    LET o == owner.op
        completed == Overflows(o) \/ heard[o].end # "none"
    IN
    /\ owner.at = "loop"
    /\ IF completed \/ ~inFlight[o] THEN Polls(o, "loop", FALSE, "closes")
                                    ELSE Polls(o, "loop", TRUE, "loop")
    /\ UNCHANGED <<setting, lifetime, request, queue, backend, worker>>

BlockingCloses == Closes(owner.op, "closes")

-----------------------------------------------------------------------------

SpuriousWakeup(o) ==
    /\ \E who \in eventCV[o] : eventCV' = [eventCV EXCEPT ![o] = @ \ {who}]
    /\ UNCHANGED <<setting, lifetime, request, events, inUse, content, backend, worker, owner>>

\* What the owner does once it is in a call.
OwnerStep ==
    \/ Dequeue \/ NothingPending \/ WaitForEvent \/ WaitTimesOut
    \/ HandleHead \/ HandleData \/ ReleaseResponseBuffer \/ HandleEnd \/ CallbackReturns
    \/ WorkerJoined \/ BlockingLoop \/ BlockingCloses

UserCall(o) ==
    \/ Start(o) \/ Cancel(o) \/ Poll(o) \/ Close(o) \/ Initialize(o) \/ ExecuteBlocking(o)

OperationNext ==
    \/ OwnerStep
    \/ \E o \in Operations : WorkerStep(o) \/ UserCall(o) \/ SpuriousWakeup(o)
=============================================================================
