--------------------------- MODULE HttpClientProofs ---------------------------
(***************************************************************************)
(* HttpClientOperation and HttpClientOperationScheduler, for any           *)
(* operations, buffers and settings, that is for every way to use them:    *)
(* the hand-over between worker and owner is sound, and the listener hears *)
(* what Response promises.                                                 *)
(*                                                                         *)
(* An event is on its way from the worker, which has it in hand, through   *)
(* the queue to the owner, which has it in hand: Pending is all of that as *)
(* one sequence, which queueing and dequeueing leave as it is.             *)
(***************************************************************************)
EXTENDS HttpClientScheduler, SequenceTheorems, FiniteSetTheorems, TLAPS

Events == Buffers \cup Ends \cup {"head"}

Handled(o) == IF owner.op = o /\ owner.at = "handle" THEN <<owner.event>> ELSE <<>>
Offered(o) == IF worker[o].at = "enqueue" THEN <<worker[o].event>> ELSE <<>>
Pending(o) == Handled(o) \o events[o] \o Offered(o)

\* The buffers that are in use beside those of the pending events.
Filling(o) == IF worker[o].at = "copy" THEN {worker[o].event} ELSE {}
Releasing(o) == IF owner.op = o /\ owner.at = "release" THEN {owner.event} ELSE {}
Within(p) == {p[i] : i \in 1 .. Len(p)} \cap Buffers

Heads(p) == IF p # <<>> /\ p[1] = "head" THEN 1 ELSE 0
Tails(p) == IF p # <<>> /\ p[Len(p)] \in Ends THEN 1 ELSE 0

\* Where the thread of the worker may be with what.
WorkerInv(o) ==
    LET w == worker[o] IN
    /\ workerRunning[o] <=> w.at # "none"
    /\ w.at = "none" => w = NoThread
    /\ w.at \notin {"none", "perform"} => responseHeadSeen[o] \/ w.outcome # "none"
    /\ w.outcome # "none" => w.left = 0 /\ w.at \notin {"none", "perform", "allocate", "copy"}
    /\ w.at = "ended" => w.outcome # "none"
    /\ w.at \in {"allocate", "copy"} => w.left > 0
    /\ w.at = "copy" => w.event \in Buffers
    /\ w.at = "enqueue" => w.event \in Events
    /\ w.event \in Ends => w.at \in {"enqueue", "notify", "mark", "set", "exit"}
    /\ w.at = "exit" => w.event \in Ends

\* Nothing came yet, and everything did.
HeadDue(o) == worker[o].at = "perform" /\ ~responseHeadSeen[o]
EndPassed(o) == worker[o].at = "none" \/ worker[o].event \in Ends

\* Head, pieces and end are pending in this order, and the pieces are those between what
\* the listener heard and what came.
InOrder(p, piece, body, came) ==
    /\ p \in Seq(Events)
    /\ \A i \in 1 .. Len(p) :
        /\ p[i] = "head" => i = 1
        /\ p[i] \in Ends => i = Len(p)
        /\ p[i] \in Buffers => piece[p[i]] = body + i - Heads(p)
    /\ came = body + Len(p) - Heads(p) - Tails(p)

RequestInv(o) ==
    IF inFlight[o]
    THEN /\ InOrder(Pending(o), content[o], heard[o].body, sent[o])
         /\ EndPassed(o) <=> Tails(Pending(o)) = 1
         /\ IF HeadDue(o) THEN Pending(o) = <<>> /\ heard[o] = Silence
            ELSE IF Heads(Pending(o)) = 1 THEN heard[o] = Silence ELSE heard[o].head
    ELSE Pending(o) = <<>> /\ EndPassed(o) /\ inUse[o] = {}

BuffersInv(o) ==
    /\ inUse[o] = Within(Pending(o)) \cup Filling(o) \cup Releasing(o)
    /\ Filling(o) \cap Within(Pending(o)) = {}
    /\ Releasing(o) \cap (Within(Pending(o)) \cup Filling(o)) = {}
    /\ inUse[o] \subseteq setting.buffers

OwnerInv ==
    /\ owner.at \in {"process", "handle", "release", "callback", "wait", "closing", "loop", "closes"}
         => owner.op \in Operations
    /\ owner.then \in {"loop", "closes"} => owner.op \in Operations
    /\ owner.at = "handle" => owner.event \in Events
    /\ owner.at = "release" => owner.event \in Buffers
    /\ owner.at \in {"ready", "asleep", "scan"} => schedulerInitialized
    /\ owner.then = "scan" => schedulerInitialized
    /\ owner.at = "out" => owner.then = "out"

SleepInv(o) ==
    /\ "worker" \in eventCV[o] =>
         \/ worker[o].at = "enqueue" /\ Len(events[o]) = setting.queueSize
         \/ worker[o].at = "allocate" /\ inUse[o] = setting.buffers
    /\ "owner" \in eventCV[o] =>
         events[o] = <<>> /\ inFlight[o] /\ owner.at = "wait" /\ owner.op = o

ReadyInv ==
    readyCV => owner.at = "asleep" /\ \A o \in Registered : ~readyOperations[o]

NoticeInv(o) ==
    /\ inFlight[o] => initialized[o]
    /\ o \in Registered /\ notifier[o] =>
        /\ ~schedulerInitialized => readyOperations[o]
        /\ events[o] # <<>> =>
            \/ readyOperations[o] \/ worker[o].at \in {"notify", "mark", "set"}
            \/ owner.op = o /\ owner.at \in {"process", "handle", "release", "callback"}

IInv ==
    /\ TypeOK /\ SchedulerTypeOK /\ OwnerInv /\ ReadyInv
    /\ \A o \in Operations :
        WorkerInv(o) /\ RequestInv(o) /\ BuffersInv(o) /\ SleepInv(o) /\ NoticeInv(o)

-----------------------------------------------------------------------------
(* Types                                                                   *)

LEMMA WorkerUpdated ==
    ASSUME TypeOK, NEW o \in Operations, NEW w \in WorkerStates, worker' = [worker EXCEPT ![o] = w]
    PROVE  worker' \in [Operations -> WorkerStates]
  BY DEF TypeOK

LEMMA HeardUpdated ==
    ASSUME TypeOK, NEW o \in Operations,
           NEW h \in [head : BOOLEAN, body : Nat, end : Ends \cup {"none"}],
           heard' = [heard EXCEPT ![o] = h]
    PROVE  heard' \in [Operations -> [head : BOOLEAN, body : Nat, end : Ends \cup {"none"}]]
  BY DEF TypeOK

\* What a condition variable does to who sleeps.
LEMMA CVUpdated ==
    ASSUME TypeOK, NEW o \in Operations,
           \/ SignalCV(o)
           \/ \E who \in {"worker", "owner"} :
                Sleeps(o, who) \/ eventCV' = [eventCV EXCEPT ![o] = @ \ {who}]
    PROVE  eventCV' \in [Operations -> SUBSET {"worker", "owner"}]
  <1> DEFINE S == SUBSET {"worker", "owner"}
  <1>1. PICK left : /\ left \in Signal(eventCV[o]) \/ left \subseteq eventCV[o] \cup {"worker", "owner"}
                    /\ eventCV' = [eventCV EXCEPT ![o] = left]
    BY DEF SignalCV, Sleeps
  <1>2. left \in S
    BY <1>1 DEF Signal, TypeOK
  <1> QED
    BY <1>1, <1>2 DEF TypeOK

LEMMA WorkerStepTyped ==
    ASSUME IInv, NEW o \in Operations, WorkerStep(o) \/ Notifies(o)
    PROVE  TypeOK'
  <1>0. /\ TypeOK /\ HttpClientOperationAssumption /\ WorkerInv(o)
    BY HttpClientOperationAssumption DEF IInv
  <1> DEFINE w == worker[o]
  <1>w. w \in WorkerStates
    BY <1>0 DEF TypeOK
  <1>s. setting.buffers \subseteq Buffers
    BY <1>0 DEF TypeOK, HttpClientOperationAssumption
  <1>a. AfterEvent(o) \in {"exit", "ended", "allocate", "perform"}
    BY DEF AfterEvent
  <1>1. CASE ReceiveHead(o)
    <2>1. [w EXCEPT !.at = "enqueue", !.event = "head"] \in WorkerStates
      BY <1>w DEF WorkerStates
    <2>2. worker' \in [Operations -> WorkerStates]
      <3>1. worker' = [worker EXCEPT ![o] = [w EXCEPT !.at = "enqueue", !.event = "head"]]
        BY <1>1 DEF ReceiveHead, Has
      <3> QED
        BY <1>0, <2>1, <3>1, WorkerUpdated
    <2> QED
      BY <1>0, <1>1, <2>2 DEF ReceiveHead, TypeOK, lifetime, request, queue, backend
  <1>2. CASE ReceiveData(o)
    <2>1. PICK n \in 1 .. setting.chunk : worker' = [worker EXCEPT ![o] = [w EXCEPT !.at = "allocate", !.left = n]]
      BY <1>2 DEF ReceiveData
    <2>2. n \in Nat
      OBVIOUS
    <2>3. [w EXCEPT !.at = "allocate", !.left = n] \in WorkerStates
      BY <1>w, <2>2 DEF WorkerStates
    <2>4. worker' \in [Operations -> WorkerStates]
      BY <1>0, <2>1, <2>3, WorkerUpdated
    <2> QED
      BY <1>0, <1>2, <2>4 DEF ReceiveData, TypeOK, lifetime, request, queue, backend
  <1>3. CASE PerformReturns(o)
    <2>1. PICK outcome \in Ends : worker' = [worker EXCEPT ![o] =
             [at |-> IF responseHeadSeen[o] THEN "ended" ELSE "enqueue",
              event |-> "head", left |-> 0, outcome |-> outcome]]
      BY <1>3 DEF PerformReturns
    <2>2. [at |-> IF responseHeadSeen[o] THEN "ended" ELSE "enqueue",
           event |-> "head", left |-> 0, outcome |-> outcome] \in WorkerStates
      BY DEF WorkerStates
    <2>3. worker' \in [Operations -> WorkerStates]
      BY <1>0, <2>1, <2>2, WorkerUpdated
    <2> QED
      BY <1>0, <1>3, <2>3 DEF PerformReturns, TypeOK, lifetime, request, queue, backend
  <1>4. CASE AllocateResponseBuffer(o)
    <2>1. CASE UNCHANGED <<inUse, worker>> /\ Sleeps(o, "worker")
      BY <1>0, <1>4, <2>1 DEF AllocateResponseBuffer, TypeOK, lifetime, request, queue, backend, Sleeps
    <2>2. ASSUME NEW b \in setting.buffers, UNCHANGED eventCV,
                 inUse' = [inUse EXCEPT ![o] = @ \cup {b}],
                 worker' = [worker EXCEPT ![o] = [w EXCEPT !.at = "copy", !.event = b]]
          PROVE  TypeOK'
      <3>1. b \in Buffers
        BY <1>s
      <3>2. [w EXCEPT !.at = "copy", !.event = b] \in WorkerStates
        BY <1>w, <3>1 DEF WorkerStates
      <3>3. worker' \in [Operations -> WorkerStates]
        BY <1>0, <2>2, <3>2, WorkerUpdated
      <3>4. inUse' \in [Operations -> SUBSET Buffers]
        BY <1>0, <2>2, <3>1 DEF TypeOK
      <3> QED
        BY <1>0, <1>4, <2>2, <3>3, <3>4 DEF AllocateResponseBuffer, TypeOK, lifetime, request, queue, backend
    <2> QED
      BY <1>4, <2>1, <2>2 DEF AllocateResponseBuffer
  <1>5. CASE CopyData(o)
    <2>1. w.left > 0 /\ w.event \in Buffers
      BY <1>0, <1>5 DEF CopyData, WorkerInv
    <2>2. [w EXCEPT !.at = "enqueue", !.left = @ - 1] \in WorkerStates
      <3>1. w.left - 1 \in Nat
        BY <1>w, <2>1 DEF WorkerStates
      <3> QED
        BY <1>w, <3>1 DEF WorkerStates
    <2>3. worker' \in [Operations -> WorkerStates]
      <3>1. worker' = [worker EXCEPT ![o] = [w EXCEPT !.at = "enqueue", !.left = @ - 1]]
        BY <1>5 DEF CopyData
      <3> QED
        BY <1>0, <2>2, <3>1, WorkerUpdated
    <2>4. content' \in [Operations -> [Buffers -> Nat]] /\ sent' \in [Operations -> Nat]
      BY <1>0, <1>5, <2>1 DEF TypeOK, CopyData
    <2> QED
      BY <1>0, <1>5, <2>3, <2>4 DEF CopyData, TypeOK, lifetime, request, queue, backend
  <1>6. CASE EnqueueEvent(o)
    <2>1. eventCV' \in [Operations -> SUBSET {"worker", "owner"}]
      BY <1>0, <1>6, CVUpdated DEF EnqueueEvent
    <2>2. CASE UNCHANGED <<events, worker>>
      BY <1>0, <1>6, <2>1, <2>2 DEF EnqueueEvent, TypeOK, lifetime, request, queue, backend
    <2>3. CASE /\ events' = [events EXCEPT ![o] = Append(@, w.event)]
               /\ worker' = [worker EXCEPT ![o] = [w EXCEPT !.at = "notify"]]
      <3>1. w.event \in Events
        BY <1>0, <1>6 DEF EnqueueEvent, WorkerInv
      <3>2. [w EXCEPT !.at = "notify"] \in WorkerStates
        BY <1>w DEF WorkerStates
      <3>3. worker' \in [Operations -> WorkerStates]
        BY <1>0, <2>3, <3>2, WorkerUpdated
      <3>4. events' \in [Operations -> Seq(Buffers \cup Ends \cup {"head"})]
        BY <1>0, <2>3, <3>1 DEF TypeOK, Events
      <3> QED
        BY <1>0, <1>6, <2>1, <3>3, <3>4 DEF EnqueueEvent, TypeOK, lifetime, request, queue, backend
    <2> QED
      BY <1>6, <2>2, <2>3 DEF EnqueueEvent, WorkerGoes
  <1>7. CASE EnqueueEnd(o)
    <2>1. w.outcome \in Ends
      BY <1>0, <1>7, <1>w DEF EnqueueEnd, Has, WorkerInv, WorkerStates
    <2>2. [w EXCEPT !.at = "enqueue", !.event = w.outcome] \in WorkerStates
      BY <1>w, <2>1 DEF WorkerStates
    <2>3. worker' \in [Operations -> WorkerStates]
      <3>1. worker' = [worker EXCEPT ![o] = [w EXCEPT !.at = "enqueue", !.event = w.outcome]]
        BY <1>7 DEF EnqueueEnd, Has
      <3> QED
        BY <1>0, <2>2, <3>1, WorkerUpdated
    <2> QED
      BY <1>0, <1>7, <2>3 DEF EnqueueEnd, TypeOK, lifetime, request, queue, backend
  <1>8. CASE WorkerExits(o)
    <2>1. NoThread \in WorkerStates
      BY DEF NoThread, WorkerStates
    <2>2. worker' \in [Operations -> WorkerStates]
      BY <1>0, <1>8, <2>1, WorkerUpdated DEF WorkerExits
    <2> QED
      BY <1>0, <1>8, <2>2 DEF WorkerExits, TypeOK, lifetime, request, queue, backend
  <1>9. ASSUME NEW to \in {"mark", "set", "exit", "ended", "allocate", "perform"},
               worker' = [worker EXCEPT ![o] = [w EXCEPT !.at = to]]
        PROVE  worker' \in [Operations -> WorkerStates]
    <2>1. [w EXCEPT !.at = to] \in WorkerStates
      BY <1>w DEF WorkerStates
    <2> QED
      BY <1>0, <1>9, <2>1, WorkerUpdated
  <1>10. CASE Notify(o)
    <2>1. worker' \in [Operations -> WorkerStates]
      BY <1>a, <1>9, <1>10 DEF Notify, WorkerGoes
    <2> QED
      BY <1>0, <1>10, <2>1 DEF Notify, TypeOK, lifetime, request, queue, backend
  <1>11. CASE NotifyHttpClientOperation(o)
    <2>1. worker' \in [Operations -> WorkerStates]
      BY <1>a, <1>9, <1>11 DEF NotifyHttpClientOperation, WorkerGoes
    <2> QED
      BY <1>0, <1>11, <2>1 DEF NotifyHttpClientOperation, TypeOK, lifetime, request, queue, backend
  <1>12. CASE NotifyLocked(o)
    <2>1. worker' \in [Operations -> WorkerStates]
      BY <1>a, <1>9, <1>12 DEF NotifyLocked, WorkerGoes
    <2> QED
      BY <1>0, <1>12, <2>1 DEF NotifyLocked, TypeOK, lifetime, request, queue, backend
  <1> QED
    BY <1>1, <1>2, <1>3, <1>4, <1>5, <1>6, <1>7, <1>8, <1>10, <1>11, <1>12 DEF WorkerStep, Notifies

LEMMA ReturnTyped ==
    ASSUME TypeOK
    PROVE  Idle \in OwnerStates /\ Return \in OwnerStates
  <1>1. owner \in OwnerStates
    BY DEF TypeOK
  <1>2. Idle \in OwnerStates
    BY DEF Idle, OwnerStates
  <1>3. [owner EXCEPT !.at = owner.then, !.event = Nothing] \in OwnerStates
    BY <1>1 DEF OwnerStates
  <1> QED
    BY <1>2, <1>3 DEF Return

LEMMA PollsTyped ==
    ASSUME NEW o \in Operations, NEW from, NEW waits \in BOOLEAN,
           NEW then \in {"out", "loop", "closes", "scan"}, Polls(o, from, waits, then)
    PROVE  owner' \in OwnerStates
  BY DEF Polls, OwnerStates

LEMMA GoesTyped ==
    ASSUME TypeOK, NEW from,
           NEW to \in {"process", "callback", "release", "asleep", "scan", "wait"}, OwnerGoes(from, to)
    PROVE  owner' \in OwnerStates
  BY DEF OwnerGoes, OwnerStates, TypeOK

LEMMA HeadTail ==
    ASSUME NEW S, NEW list \in Seq(S), list # <<>>
    PROVE  /\ Head(list) \in S /\ Tail(list) \in Seq(S)
           /\ Len(list) > 0 /\ Head(list) = list[1]
           /\ Len(Tail(list)) = Len(list) - 1
           /\ \A i \in 1 .. Len(list) - 1 : Tail(list)[i] = list[i + 1]
  BY HeadTailProperties, EmptySeq

LEMMA ClosesTyped ==
    ASSUME TypeOK, NEW o \in Operations, NEW from, Closes(o, from)
    PROVE  TypeOK'
  <1>1. owner' \in OwnerStates
    BY DEF Closes, Idle, OwnerStates
  <1>2. cancelRequested' \in [Operations -> BOOLEAN]
    BY DEF Closes, TypeOK
  <1> QED
    BY <1>1, <1>2 DEF Closes, TypeOK, lifetime, request, queue

LEMMA OwnerStepTyped ==
    ASSUME IInv, OwnerStep
    PROVE  TypeOK'
  <1>0. TypeOK /\ OwnerInv
    BY DEF IInv
  <1> DEFINE o == owner.op
  <1>1. CASE Dequeue
    <2>1. o \in Operations
      BY <1>0, <1>1 DEF Dequeue, OwnerInv
    <2>2. eventCV' \in [Operations -> SUBSET {"worker", "owner"}]
      BY <1>0, <1>1, <2>1, CVUpdated DEF Dequeue
    <2>3. /\ events[o] \in Seq(Buffers \cup Ends \cup {"head"}) /\ events[o] # <<>>
          /\ Tail(events[o]) \in Seq(Buffers \cup Ends \cup {"head"})
          /\ Head(events[o]) \in Buffers \cup Ends \cup {"head"}
      <3>1. events[o] \in Seq(Buffers \cup Ends \cup {"head"}) /\ events[o] # <<>>
        BY <1>0, <1>1, <2>1 DEF Dequeue, TypeOK
      <3> QED
        BY <3>1, HeadTail
    <2>4. owner' \in OwnerStates
      BY <1>0, <1>1, <2>3 DEF Dequeue, TypeOK, OwnerStates
    <2>5. events' \in [Operations -> Seq(Buffers \cup Ends \cup {"head"})]
      BY <1>0, <1>1, <2>1, <2>3 DEF Dequeue, TypeOK
    <2> QED
      BY <1>0, <1>1, <2>2, <2>4, <2>5 DEF Dequeue, TypeOK, lifetime, request, queue, backend
  <1>2. CASE NothingPending
    <2>1. owner' \in OwnerStates
      <3>1. [owner EXCEPT !.at = "wait", !.waits = FALSE] \in OwnerStates
        BY <1>0 DEF TypeOK, OwnerStates
      <3> QED
        BY <1>0, <1>2, <3>1, ReturnTyped DEF NothingPending
    <2> QED
      BY <1>0, <1>2, <2>1 DEF NothingPending, TypeOK, lifetime, request, queue, backend
  <1>3. CASE WaitForEvent
    <2>1. o \in Operations
      BY <1>0, <1>3 DEF WaitForEvent, OwnerInv
    <2>2. eventCV' \in [Operations -> SUBSET {"worker", "owner"}]
      <3>1. CASE Sleeps(o, "owner")
        BY <1>0, <2>1, <3>1, CVUpdated
      <3> QED
        BY <1>0, <1>3, <3>1 DEF WaitForEvent, TypeOK
    <2>3. owner' \in OwnerStates
      <3>1. CASE OwnerGoes("wait", "process")
        BY <1>0, <3>1, GoesTyped
      <3> QED
        BY <1>0, <1>3, <3>1 DEF WaitForEvent, TypeOK
    <2> QED
      BY <1>0, <1>3, <2>2, <2>3 DEF WaitForEvent, TypeOK, lifetime, request, queue, backend
  <1>4. CASE WaitTimesOut
    <2>1. o \in Operations
      BY <1>0, <1>4 DEF WaitTimesOut, OwnerInv
    <2>2. eventCV' \in [Operations -> SUBSET {"worker", "owner"}]
      BY <1>0, <1>4, <2>1, CVUpdated DEF WaitTimesOut
    <2>3. owner' \in OwnerStates
      BY <1>0, <1>4, ReturnTyped DEF WaitTimesOut
    <2> QED
      BY <1>0, <1>4, <2>2, <2>3 DEF WaitTimesOut, TypeOK, lifetime, request, queue, backend
  <1>5. CASE HandleHead
    <2>1. owner' \in OwnerStates
      BY <1>0, <1>5, GoesTyped DEF HandleHead
    <2>2. heard' \in [Operations -> [head : BOOLEAN, body : Nat, end : Ends \cup {"none"}]]
      <3>1. o \in Operations
        BY <1>0, <1>5 DEF HandleHead, OwnerGoes, OwnerInv
      <3>2. [heard[o] EXCEPT !.head = TRUE] \in [head : BOOLEAN, body : Nat, end : Ends \cup {"none"}]
        <4>1. heard[o] \in [head : BOOLEAN, body : Nat, end : Ends \cup {"none"}]
          BY <1>0, <3>1 DEF TypeOK
        <4> QED
          BY <4>1
      <3>3. heard' = [heard EXCEPT ![o] = [heard[o] EXCEPT !.head = TRUE]]
        BY <1>5 DEF HandleHead
      <3> QED
        BY <1>0, <3>1, <3>2, <3>3, HeardUpdated
    <2> QED
      BY <1>0, <1>5, <2>1, <2>2 DEF HandleHead, TypeOK, lifetime, request, queue, backend
  <1>6. CASE HandleData
    <2>1. owner' \in OwnerStates
      BY <1>0, <1>6, GoesTyped DEF HandleData
    <2>2. o \in Operations /\ content[o][owner.event] \in Nat
      BY <1>0, <1>6 DEF HandleData, OwnerGoes, OwnerInv, TypeOK
    <2>3. heard' \in [Operations -> [head : BOOLEAN, body : Nat, end : Ends \cup {"none"}]]
      <3> DEFINE came == content[o][owner.event]
                 h == heard[o]
      <3>1. [h EXCEPT !.body = came] \in [head : BOOLEAN, body : Nat, end : Ends \cup {"none"}]
        <4>1. h \in [head : BOOLEAN, body : Nat, end : Ends \cup {"none"}] /\ came \in Nat
          BY <1>0, <2>2 DEF TypeOK
        <4> HIDE DEF came, h
        <4> QED
          BY <4>1
      <3>2. heard' = [heard EXCEPT ![o] = [heard[o] EXCEPT !.body = content[o][owner.event]]]
        BY <1>6 DEF HandleData
      <3> QED
        BY <1>0, <2>2, <3>1, <3>2, HeardUpdated
    <2>4. cancelRequested' \in [Operations -> BOOLEAN]
      <3>1. (cancelRequested[o] \/ NoRoom(content[o][owner.event])) \in BOOLEAN
        BY <1>0 DEF TypeOK
      <3> QED
        BY <1>0, <1>6, <2>2, <3>1 DEF HandleData, TypeOK
    <2> QED
      BY <1>0, <1>6, <2>1, <2>3, <2>4 DEF HandleData, TypeOK, lifetime, request, queue, backend
  <1>7. CASE ReleaseResponseBuffer
    <2>1. owner' \in OwnerStates
      BY <1>0, <1>7, GoesTyped DEF ReleaseResponseBuffer
    <2>2. o \in Operations /\ owner.event \in Buffers
      BY <1>0, <1>7 DEF ReleaseResponseBuffer, OwnerGoes, OwnerInv
    <2>3. eventCV' \in [Operations -> SUBSET {"worker", "owner"}]
      BY <1>0, <1>7, <2>2, CVUpdated DEF ReleaseResponseBuffer
    <2>4. inUse' \in [Operations -> SUBSET Buffers] /\ content' \in [Operations -> [Buffers -> Nat]]
      BY <1>0, <1>7, <2>2 DEF ReleaseResponseBuffer, TypeOK
    <2> QED
      BY <1>0, <1>7, <2>1, <2>3, <2>4 DEF ReleaseResponseBuffer, TypeOK, lifetime, request, queue, backend
  <1>8. CASE HandleEnd
    <2>1. owner' \in OwnerStates
      BY <1>0, <1>8, GoesTyped DEF HandleEnd
    <2>2. o \in Operations /\ owner.event \in Ends
      BY <1>0, <1>8 DEF HandleEnd, OwnerGoes, OwnerInv
    <2>3. eventCV' \in [Operations -> SUBSET {"worker", "owner"}]
      BY <1>0, <1>8, <2>2, CVUpdated DEF HandleEnd
    <2>4. heard' \in [Operations -> [head : BOOLEAN, body : Nat, end : Ends \cup {"none"}]]
      <3> DEFINE ended == owner.event
                 h == heard[o]
      <3>1. [h EXCEPT !.end = ended] \in [head : BOOLEAN, body : Nat, end : Ends \cup {"none"}]
        <4>1. h \in [head : BOOLEAN, body : Nat, end : Ends \cup {"none"}] /\ ended \in Ends
          BY <1>0, <2>2 DEF TypeOK
        <4> HIDE DEF ended, h
        <4> QED
          BY <4>1
      <3>2. heard' = [heard EXCEPT ![o] = [heard[o] EXCEPT !.end = owner.event]]
        BY <1>8 DEF HandleEnd
      <3> QED
        BY <1>0, <2>2, <3>1, <3>2, HeardUpdated
    <2>5. inFlight' \in [Operations -> BOOLEAN]
      BY <1>0, <1>8, <2>2 DEF HandleEnd, TypeOK
    <2> QED
      BY <1>0, <1>8, <2>1, <2>3, <2>4, <2>5 DEF HandleEnd, TypeOK, lifetime, request, queue, backend
  <1>9. CASE CallbackReturns
    <2>1. owner' \in OwnerStates
      BY <1>0, <1>9, GoesTyped DEF CallbackReturns
    <2> QED
      BY <1>0, <1>9, <2>1 DEF CallbackReturns, TypeOK, lifetime, request, queue, backend
  <1>10. CASE WorkerJoined
    <2>1. o \in Operations
      BY <1>0, <1>10 DEF WorkerJoined, OwnerInv
    <2>2. owner' \in OwnerStates
      <3>1. [Idle EXCEPT !.at = "returned"] \in OwnerStates
        BY DEF Idle, OwnerStates
      <3> QED
        BY <1>0, <1>10, <3>1, ReturnTyped DEF WorkerJoined
    <2>3. /\ events' \in [Operations -> Seq(Buffers \cup Ends \cup {"head"})]
          /\ inUse' \in [Operations -> SUBSET Buffers]
          /\ content' \in [Operations -> [Buffers -> Nat]]
      BY <1>0, <1>10, <2>1 DEF WorkerJoined, TypeOK
    <2> QED
      BY <1>0, <1>10, <2>2, <2>3 DEF WorkerJoined, TypeOK, lifetime, request, queue, backend
  <1>11. CASE BlockingLoop
    <2>1. o \in Operations
      BY <1>0, <1>11 DEF BlockingLoop, OwnerInv
    <2>2. owner' \in OwnerStates
      BY <1>11, <2>1, PollsTyped DEF BlockingLoop
    <2> QED
      BY <1>0, <1>11, <2>2 DEF BlockingLoop, TypeOK, lifetime, request, queue, backend
  <1>12. CASE BlockingCloses
    <2>1. o \in Operations
      BY <1>0, <1>12 DEF BlockingCloses, Closes, OwnerInv
    <2> QED
      BY <1>0, <1>12, <2>1, ClosesTyped DEF BlockingCloses
  <1> QED
    BY <1>1, <1>2, <1>3, <1>4, <1>5, <1>6, <1>7, <1>8, <1>9, <1>10, <1>11, <1>12 DEF OwnerStep

LEMMA StartsTyped ==
    ASSUME TypeOK, NEW o \in Operations, Starts(o), owner' \in OwnerStates
    PROVE  TypeOK'
  <1>1. [NoThread EXCEPT !.at = "perform"] \in WorkerStates
    BY DEF NoThread, WorkerStates
  <1>2. worker' \in [Operations -> WorkerStates]
    BY <1>1, WorkerUpdated DEF Starts
  <1>3. heard' \in [Operations -> [head : BOOLEAN, body : Nat, end : Ends \cup {"none"}]]
    BY DEF Starts, TypeOK, Silence, Promise!Silence
  <1> QED
    BY <1>2, <1>3 DEF Starts, TypeOK, lifetime, queue

LEMMA UserCallTyped ==
    ASSUME IInv, NEW o \in Operations, UserCall(o) \/ SpuriousWakeup(o)
    PROVE  TypeOK'
  <1>0. TypeOK
    BY DEF IInv
  <1>1. CASE Start(o)
    BY <1>0, <1>1, StartsTyped DEF Start, TypeOK
  <1>2. CASE Cancel(o)
    BY <1>0, <1>2 DEF Cancel, TypeOK, lifetime, request, queue
  <1>3. CASE Poll(o)
    <2>1. owner' \in OwnerStates
      BY <1>3, PollsTyped DEF Poll
    <2> QED
      BY <1>0, <1>3, <2>1 DEF Poll, TypeOK, lifetime, request, queue, backend
  <1>4. CASE Close(o)
    BY <1>0, <1>4, ClosesTyped DEF Close
  <1>5. CASE Initialize(o)
    BY <1>0, <1>5, ReturnTyped DEF Initialize, TypeOK, request, queue, backend
  <1>6. CASE ExecuteBlocking(o)
    <2>1. owner' \in OwnerStates
      BY <1>6 DEF ExecuteBlocking, Idle, OwnerStates
    <2> QED
      BY <1>0, <1>6, <2>1, StartsTyped DEF ExecuteBlocking
  <1>7. CASE SpuriousWakeup(o)
    <2>1. eventCV' \in [Operations -> SUBSET {"worker", "owner"}]
      BY <1>0, <1>7, CVUpdated DEF SpuriousWakeup, TypeOK
    <2> QED
      BY <1>0, <1>7, <2>1 DEF SpuriousWakeup, TypeOK, lifetime, request, queue, backend
  <1> QED
    BY <1>1, <1>2, <1>3, <1>4, <1>5, <1>6, <1>7 DEF UserCall

LEMMA RegisteredTyped ==
    ASSUME TypeOK
    PROVE  /\ setting.registered \in Seq(Operations)
           /\ Registered \subseteq Operations
           /\ \A i \in 1 .. Len(setting.registered) : setting.registered[i] \in Registered
  <1>1. setting.registered \in Seq(Operations)
    BY HttpClientOperationAssumption DEF TypeOK, HttpClientOperationAssumption
  <1>2. DOMAIN setting.registered = 1 .. Len(setting.registered)
    BY <1>1, LenProperties
  <1> QED
    BY <1>1, <1>2, ElementOfSeq DEF Registered, ToSet

\* The steps of the scheduler, in a thread of a worker or in the owner.
SchedulerAction ==
    \/ SchedulerStep \/ Register \/ SchedulerStarts \/ SchedulerCloses \/ PollReady \/ PollAll
    \/ \E o \in Operations : MarkReady(o)

LEMMA SchedulerActionTyped ==
    ASSUME IInv, SchedulerAction
    PROVE  TypeOK'
  <1>0. TypeOK
    BY DEF IInv
  <1>1. CASE WaitForReady
    <2>1. owner' \in OwnerStates
      BY <1>0, <1>1, GoesTyped DEF WaitForReady
    <2> QED
      BY <1>0, <1>1, <2>1 DEF WaitForReady, TypeOK, lifetime, request, queue, backend
  <1>2. CASE WakeUpReady
    <2>1. owner' \in OwnerStates
      BY <1>0, <1>2, GoesTyped DEF WakeUpReady
    <2> QED
      BY <1>0, <1>2, <2>1 DEF WakeUpReady, TypeOK, lifetime, request, queue, backend
  <1>3. CASE Scan
    <2> DEFINE o == setting.registered[index]
    <2>1. o \in Operations
      BY <1>0, <1>3, RegisteredTyped DEF Scan, IInv, SchedulerTypeOK
    <2>2. owner' = owner \/ owner' = Idle \/ Polls(o, "scan", FALSE, "scan")
      BY <1>3 DEF Scan
    <2>3. owner' \in OwnerStates
      <3>1. CASE Polls(o, "scan", FALSE, "scan")
        BY <2>1, <3>1, PollsTyped
      <3> QED
        BY <1>0, <2>2, <3>1, ReturnTyped DEF TypeOK
    <2> QED
      BY <1>0, <1>3, <2>3 DEF Scan, TypeOK, lifetime, request, queue, backend
  <1>4. CASE ScanEnds
    BY <1>0, <1>4, ReturnTyped DEF ScanEnds, TypeOK, lifetime, request, queue, backend
  <1>5. CASE Register
    BY <1>0, <1>5 DEF Register, TypeOK, request, queue, backend
  <1>6. CASE SchedulerStarts
    BY <1>0, <1>6 DEF SchedulerStarts, TypeOK, vars, lifetime, request, queue, backend
  <1>7. CASE SchedulerCloses
    BY <1>0, <1>7 DEF SchedulerCloses, TypeOK, request, queue, backend
  <1>8. CASE PollReady
    <2>1. owner' \in OwnerStates
      BY <1>8 DEF PollReady, Idle, OwnerStates
    <2> QED
      BY <1>0, <1>8, <2>1 DEF PollReady, TypeOK, lifetime, request, queue, backend
  <1>9. CASE PollAll
    <2>1. owner' \in OwnerStates
      BY <1>0, <1>9, GoesTyped DEF PollAll
    <2> QED
      BY <1>0, <1>9, <2>1 DEF PollAll, TypeOK, lifetime, request, queue, backend
  <1>10. ASSUME NEW o \in Operations, MarkReady(o)
         PROVE  TypeOK'
    BY <1>0, <1>10 DEF MarkReady, TypeOK, vars, lifetime, request, queue, backend
  <1> QED
    BY <1>1, <1>2, <1>3, <1>4, <1>5, <1>6, <1>7, <1>8, <1>9, <1>10 DEF SchedulerAction, SchedulerStep

\* Who takes a step: an operation by itself, its worker with the notifier, or the scheduler.
LEMMA NextCases ==
    ASSUME Next
    PROVE  \/ /\ \/ OwnerStep
                 \/ \E o \in Operations : WorkerStep(o) \/ UserCall(o) \/ SpuriousWakeup(o)
              /\ UNCHANGED scheduler
           \/ \E o \in Operations : Notifies(o)
           \/ SchedulerAction
  BY DEF Next, OperationNext, SchedulerAction

LEMMA SettingKept ==
    ASSUME Next
    PROVE  setting' = setting
  <1>1. CASE OwnerStep
    BY <1>1 DEF OwnerStep, Dequeue, NothingPending, WaitForEvent, WaitTimesOut, HandleHead, HandleData,
      ReleaseResponseBuffer, HandleEnd, CallbackReturns, WorkerJoined, BlockingLoop, BlockingCloses, Closes
  <1>2. ASSUME NEW o \in Operations, WorkerStep(o) \/ Notifies(o)
        PROVE  setting' = setting
    BY <1>2 DEF WorkerStep, ReceiveHead, ReceiveData, PerformReturns, AllocateResponseBuffer, CopyData,
      EnqueueEvent, Notify, EnqueueEnd, WorkerExits, Notifies, NotifyHttpClientOperation, NotifyLocked
  <1>3. ASSUME NEW o \in Operations, UserCall(o) \/ SpuriousWakeup(o)
        PROVE  setting' = setting
    BY <1>3 DEF UserCall, Start, Starts, Cancel, Poll, Close, Closes, Initialize, ExecuteBlocking, SpuriousWakeup
  <1>4. CASE SchedulerAction
    BY <1>4 DEF SchedulerAction, SchedulerStep, WaitForReady, WakeUpReady, Scan, ScanEnds, Register,
      SchedulerStarts, SchedulerCloses, PollReady, PollAll, MarkReady, vars
  <1> QED
    BY <1>1, <1>2, <1>3, <1>4, NextCases

LEMMA SchedulerTyped ==
    ASSUME IInv, Next
    PROVE  SchedulerTypeOK'
  <1>0. TypeOK /\ SchedulerTypeOK /\ setting' = setting
    BY SettingKept DEF IInv
  <1>1. CASE UNCHANGED scheduler
    BY <1>0, <1>1 DEF SchedulerTypeOK, scheduler
  <1>2. ASSUME NEW o \in Operations, Notifies(o)
        PROVE  SchedulerTypeOK'
    BY <1>0, <1>2 DEF Notifies, NotifyHttpClientOperation, NotifyLocked, SetsReady, SchedulerTypeOK, scheduler
  <1>3. CASE SchedulerAction
    <2>1. CASE SchedulerStep
      <3>1. CASE Scan
        <4>1. Len(setting.registered) \in Nat
          BY <1>0, RegisteredTyped, LenProperties
        <4>2. index' \in 1 .. Len(setting.registered) + 1
          BY <1>0, <3>1, <4>1 DEF Scan, SchedulerTypeOK
        <4>3. readyOperations' \in [Operations -> BOOLEAN]
          <5>1. (all /\ readyOperations[setting.registered[index]]) \in BOOLEAN
            OBVIOUS
          <5> QED
            BY <1>0, <3>1, <5>1 DEF Scan, SchedulerTypeOK
        <4> QED
          BY <1>0, <3>1, <4>2, <4>3 DEF Scan, SchedulerTypeOK
      <3> QED
        BY <1>0, <2>1, <3>1 DEF SchedulerStep, WaitForReady, WakeUpReady, ScanEnds, SchedulerTypeOK, scheduler
    <2>2. CASE Register \/ SchedulerStarts \/ SchedulerCloses
      <3>1. /\ readyCV' = readyCV /\ all' = all /\ index' = index
            /\ schedulerInitialized' \in BOOLEAN
        BY <1>0, <2>2 DEF Register, SchedulerStarts, SchedulerCloses, SchedulerTypeOK
      <3>2. readyOperations' \in [Operations -> BOOLEAN]
        <4>1. [o \in Operations |-> o \in Registered] \in [Operations -> BOOLEAN]
          <5>1. \A o \in Operations : (o \in Registered) \in BOOLEAN
            OBVIOUS
          <5> QED
            BY <5>1, SMT
        <4>2. [o \in Operations |-> FALSE] \in [Operations -> BOOLEAN]
          OBVIOUS
        <4> QED
          BY <1>0, <2>2, <4>1, <4>2, Zenon DEF Register, SchedulerStarts, SchedulerCloses, SchedulerTypeOK
      <3> QED
        BY <1>0, <3>1, <3>2 DEF SchedulerTypeOK
    <2>3. CASE PollReady \/ PollAll
      <3>1. Len(setting.registered) \in Nat
        BY <1>0, RegisteredTyped, LenProperties
      <3>2. index' = 1 /\ all' \in BOOLEAN /\ UNCHANGED <<schedulerInitialized, readyOperations, readyCV>>
        BY <2>3 DEF PollReady, PollAll
      <3> QED
        BY <1>0, <3>1, <3>2 DEF SchedulerTypeOK
    <2>4. ASSUME NEW o \in Operations, MarkReady(o)
          PROVE  SchedulerTypeOK'
      BY <1>0, <2>4 DEF MarkReady, SetsReady, SchedulerTypeOK
    <2> QED
      BY <1>3, <2>1, <2>2, <2>3, <2>4 DEF SchedulerAction
  <1> QED
    BY <1>1, <1>2, <1>3, NextCases

LEMMA Typed ==
    ASSUME IInv, Next
    PROVE  TypeOK' /\ SchedulerTypeOK'
  BY WorkerStepTyped, OwnerStepTyped, UserCallTyped, SchedulerActionTyped, SchedulerTyped, NextCases

-----------------------------------------------------------------------------
(* Where the threads are                                                   *)

\* No buffer is a head, an end or nothing.
LEMMA BuffersApart ==
    /\ \A b \in Buffers : b \notin Ends /\ b # "head" /\ b # Nothing
    /\ "head" \notin Ends /\ Nothing \notin Ends
  BY HttpClientOperationAssumption DEF HttpClientOperationAssumption, Ends

LEMMA WorkerKept ==
    ASSUME NEW p \in Operations, WorkerInv(p), worker'[p] = worker[p],
           workerRunning'[p] = workerRunning[p], responseHeadSeen'[p] = responseHeadSeen[p]
    PROVE  WorkerInv(p)'
  BY DEF WorkerInv

\* What the thread of a worker does to another operation, to its own request and to the
\* rest.
LEMMA WorkerStepOwn ==
    ASSUME TypeOK, NEW o \in Operations, WorkerStep(o) \/ Notifies(o)
    PROVE  /\ UNCHANGED <<setting, lifetime, inFlight, heard, cancelRequested, owner>>
           /\ \A p \in Operations \ {o} :
                /\ worker'[p] = worker[p] /\ workerRunning'[p] = workerRunning[p]
                /\ responseHeadSeen'[p] = responseHeadSeen[p]
                /\ events'[p] = events[p] /\ inUse'[p] = inUse[p]
                /\ content'[p] = content[p] /\ eventCV'[p] = eventCV[p] /\ sent'[p] = sent[p]
  <1>1. CASE ReceiveHead(o)
    BY <1>1 DEF ReceiveHead, Has, TypeOK, lifetime, request, queue
  <1>2. CASE ReceiveData(o)
    BY <1>2 DEF ReceiveData, TypeOK, lifetime, request, queue, backend
  <1>3. CASE PerformReturns(o)
    BY <1>3 DEF PerformReturns, TypeOK, lifetime, request, queue, backend
  <1>4. CASE AllocateResponseBuffer(o)
    BY <1>4 DEF AllocateResponseBuffer, Sleeps, TypeOK, lifetime, request, backend
  <1>5. CASE CopyData(o)
    BY <1>5 DEF CopyData, TypeOK, lifetime, backend
  <1>6. CASE EnqueueEvent(o)
    BY <1>6 DEF EnqueueEvent, WorkerGoes, SignalCV, Sleeps, TypeOK, lifetime, request, backend
  <1>7. CASE EnqueueEnd(o)
    BY <1>7 DEF EnqueueEnd, Has, TypeOK, lifetime, request, queue, backend
  <1>8. CASE WorkerExits(o)
    BY <1>8 DEF WorkerExits, TypeOK, lifetime, request, queue
  <1>9. CASE Notify(o) \/ Notifies(o)
    BY <1>9 DEF Notify, Notifies, NotifyHttpClientOperation, NotifyLocked, WorkerGoes, TypeOK, lifetime, request, queue, backend
  <1> QED
    BY <1>1, <1>2, <1>3, <1>4, <1>5, <1>6, <1>7, <1>8, <1>9 DEF WorkerStep

LEMMA NotifyGoes ==
    ASSUME TypeOK, NEW o \in Operations, Notify(o) \/ Notifies(o)
    PROVE  \E to : /\ worker'[o] = [worker[o] EXCEPT !.at = to]
                   /\ worker[o].at \in {"notify", "mark", "set"}
                   /\ to \in {"mark", "set"} \/ to = AfterEvent(o)
                   /\ UNCHANGED <<request, queue, backend>>
  <1>1. CASE Notify(o)
    <2>1. PICK to : /\ to = (IF notifier[o] THEN "mark" ELSE AfterEvent(o))
                    /\ worker[o].at = "notify" /\ worker' = [worker EXCEPT ![o].at = to]
      BY <1>1 DEF Notify, WorkerGoes
    <2>2. worker'[o] = [worker[o] EXCEPT !.at = to]
      BY <2>1 DEF TypeOK
    <2> QED
      BY <1>1, <2>1, <2>2 DEF Notify
  <1>2. CASE NotifyHttpClientOperation(o)
    <2>1. PICK to : /\ to = (IF schedulerInitialized THEN "set" ELSE AfterEvent(o))
                    /\ worker[o].at = "mark" /\ worker' = [worker EXCEPT ![o].at = to]
      BY <1>2 DEF NotifyHttpClientOperation, WorkerGoes
    <2>2. worker'[o] = [worker[o] EXCEPT !.at = to]
      BY <2>1 DEF TypeOK
    <2> QED
      BY <1>2, <2>1, <2>2 DEF NotifyHttpClientOperation
  <1>3. CASE NotifyLocked(o)
    <2>1. PICK to : /\ to = AfterEvent(o)
                    /\ worker[o].at = "set" /\ worker' = [worker EXCEPT ![o].at = to]
      BY <1>3 DEF NotifyLocked, WorkerGoes
    <2>2. worker'[o] = [worker[o] EXCEPT !.at = to]
      BY <2>1 DEF TypeOK
    <2> QED
      BY <1>3, <2>1, <2>2 DEF NotifyLocked
  <1> QED
    BY <1>1, <1>2, <1>3 DEF Notifies

LEMMA WorkerStepKeepsWorkerInv ==
    ASSUME IInv, NEW o \in Operations, WorkerStep(o) \/ Notifies(o)
    PROVE  WorkerInv(o)'
  <1> DEFINE w == worker[o]
  <1>0. TypeOK /\ WorkerInv(o) /\ w \in WorkerStates
    BY DEF IInv, TypeOK
  <1>1. CASE ReceiveHead(o)
    <2>1. /\ worker'[o] = [w EXCEPT !.at = "enqueue", !.event = "head"] /\ w.at = "perform"
          /\ responseHeadSeen'[o] /\ workerRunning'[o] = workerRunning[o]
      BY <1>0, <1>1 DEF ReceiveHead, Has, TypeOK
    <2> QED
      BY <1>0, <2>1, BuffersApart DEF WorkerInv, WorkerStates, Events
  <1>2. CASE ReceiveData(o)
    <2>1. PICK n \in 1 .. setting.chunk :
            /\ worker'[o] = [w EXCEPT !.at = "allocate", !.left = n] /\ w.at = "perform"
            /\ responseHeadSeen'[o] /\ workerRunning'[o] = workerRunning[o]
      BY <1>0, <1>2 DEF ReceiveData, TypeOK, backend
    <2> QED
      BY <1>0, <2>1, BuffersApart DEF WorkerInv, WorkerStates, Events
  <1>3. CASE PerformReturns(o)
    <2>1. PICK outcome \in Ends :
            /\ worker'[o] = [at |-> IF responseHeadSeen[o] THEN "ended" ELSE "enqueue",
                             event |-> "head", left |-> 0, outcome |-> outcome]
            /\ w.at = "perform"
            /\ responseHeadSeen'[o] = responseHeadSeen[o] /\ workerRunning'[o] = workerRunning[o]
      BY <1>0, <1>3 DEF PerformReturns, TypeOK, backend
    <2>2. outcome # "none"
      BY DEF Ends
    <2> QED
      BY <1>0, <2>1, <2>2, BuffersApart DEF WorkerInv, Events
  <1>4. CASE AllocateResponseBuffer(o)
    <2>1. CASE UNCHANGED worker
      BY <1>0, <1>4, <2>1, WorkerKept DEF AllocateResponseBuffer, backend
    <2>2. ASSUME NEW b \in setting.buffers, worker' = [worker EXCEPT ![o].at = "copy", ![o].event = b]
          PROVE  WorkerInv(o)'
      <3>1. b \in Buffers
        BY <1>0, HttpClientOperationAssumption DEF TypeOK, HttpClientOperationAssumption
      <3>2. /\ worker'[o] = [w EXCEPT !.at = "copy", !.event = b] /\ w.at = "allocate"
            /\ responseHeadSeen'[o] = responseHeadSeen[o] /\ workerRunning'[o] = workerRunning[o]
        BY <1>0, <1>4, <2>2 DEF AllocateResponseBuffer, TypeOK, backend
      <3> QED
        BY <1>0, <3>1, <3>2, BuffersApart DEF WorkerInv, WorkerStates, Events
    <2> QED
      BY <1>4, <2>1, <2>2 DEF AllocateResponseBuffer
  <1>5. CASE CopyData(o)
    <2>1. /\ worker'[o] = [w EXCEPT !.at = "enqueue", !.left = w.left - 1] /\ w.at = "copy"
          /\ responseHeadSeen'[o] = responseHeadSeen[o] /\ workerRunning'[o] = workerRunning[o]
      BY <1>0, <1>5 DEF CopyData, TypeOK, backend
    <2> QED
      BY <1>0, <2>1, BuffersApart DEF WorkerInv, WorkerStates, Events
  <1>6. CASE EnqueueEvent(o)
    <2>1. CASE UNCHANGED worker
      BY <1>0, <1>6, <2>1, WorkerKept DEF EnqueueEvent, backend
    <2>2. CASE WorkerGoes(o, "enqueue", "notify")
      <3>1. /\ worker'[o] = [w EXCEPT !.at = "notify"] /\ w.at = "enqueue"
            /\ responseHeadSeen'[o] = responseHeadSeen[o] /\ workerRunning'[o] = workerRunning[o]
        BY <1>0, <1>6, <2>2 DEF EnqueueEvent, WorkerGoes, TypeOK, backend
      <3> QED
        BY <1>0, <3>1, BuffersApart DEF WorkerInv, WorkerStates, Events
    <2> QED
      BY <1>6, <2>1, <2>2 DEF EnqueueEvent
  <1>7. CASE EnqueueEnd(o)
    <2>1. /\ worker'[o] = [w EXCEPT !.at = "enqueue", !.event = w.outcome] /\ w.at = "ended"
          /\ responseHeadSeen'[o] = responseHeadSeen[o] /\ workerRunning'[o] = workerRunning[o]
      BY <1>0, <1>7 DEF EnqueueEnd, Has, TypeOK, backend
    <2> QED
      BY <1>0, <2>1, BuffersApart DEF WorkerInv, WorkerStates, Events
  <1>8. CASE WorkerExits(o)
    <2>1. worker'[o] = NoThread /\ ~workerRunning'[o]
      BY <1>0, <1>8 DEF WorkerExits, TypeOK
    <2> QED
      BY <1>0, <2>1, BuffersApart DEF WorkerInv, NoThread
  <1>9. CASE Notify(o) \/ Notifies(o)
    <2>1. PICK to : /\ worker'[o] = [w EXCEPT !.at = to]
                    /\ w.at \in {"notify", "mark", "set"}
                    /\ to \in {"mark", "set"} \/ to = AfterEvent(o)
                    /\ responseHeadSeen'[o] = responseHeadSeen[o] /\ workerRunning'[o] = workerRunning[o]
      BY <1>0, <1>9, NotifyGoes DEF backend
    <2>2. \/ to \in {"mark", "set"}
          \/ to = "exit" /\ w.event \in Ends
          \/ to = "ended" /\ w.event \notin Ends /\ w.outcome # "none"
          \/ to = "allocate" /\ w.event \notin Ends /\ w.outcome = "none" /\ w.left > 0
          \/ to = "perform" /\ w.event \notin Ends /\ w.outcome = "none"
      BY <2>1 DEF AfterEvent
    <2> QED
      BY <1>0, <2>1, <2>2, BuffersApart DEF WorkerInv, WorkerStates, Events
  <1> QED
    BY <1>1, <1>2, <1>3, <1>4, <1>5, <1>6, <1>7, <1>8, <1>9 DEF WorkerStep, Notifies

\* Where the owner is once poll returned.
LEMMA Returns ==
    ASSUME TypeOK
    PROVE  \/ Return = Idle /\ owner.then = "out"
           \/ /\ Return.at = owner.then /\ Return.op = owner.op
              /\ Return.then = owner.then /\ owner.then \in {"loop", "closes", "scan"}
  <1>1. owner \in OwnerStates
    BY DEF TypeOK
  <1>2. CASE owner.then # "out"
    BY <1>1, <1>2 DEF Return, OwnerStates
  <1> QED
    BY <1>2 DEF Return

\* What the owner does in a call is about one operation, whose worker it leaves alone.
LEMMA OwnerStepOwn ==
    ASSUME TypeOK, OwnerInv, OwnerStep
    PROVE  /\ owner.op \in Operations /\ owner'.op \in {owner.op, Nothing}
           /\ UNCHANGED <<setting, worker, workerRunning, sent>>
           /\ \A p \in Operations \ {owner.op} :
                /\ initialized'[p] = initialized[p] /\ notifier'[p] = notifier[p]
                /\ inFlight'[p] = inFlight[p] /\ heard'[p] = heard[p]
                /\ events'[p] = events[p] /\ inUse'[p] = inUse[p]
                /\ content'[p] = content[p] /\ eventCV'[p] = eventCV[p]
                /\ responseHeadSeen'[p] = responseHeadSeen[p]
  <1>0. owner \in OwnerStates
    BY DEF TypeOK
  <1>1. CASE Dequeue
    BY <1>0, <1>1 DEF Dequeue, SignalCV, OwnerInv, TypeOK, OwnerStates, lifetime, request, backend
  <1>2. CASE NothingPending
    <2>1. [owner EXCEPT !.at = "wait", !.waits = FALSE].op = owner.op
      BY <1>0 DEF OwnerStates
    <2>2. owner'.op \in {owner.op, Nothing}
      BY <1>2, <2>1, Returns DEF NothingPending, Idle
    <2> QED
      BY <1>2, <2>2 DEF NothingPending, OwnerInv, lifetime, request, queue, backend
  <1>3. CASE WaitForEvent
    <2>1. owner'.op = owner.op
      BY <1>0, <1>3 DEF WaitForEvent, OwnerGoes, OwnerStates
    <2> QED
      BY <1>3, <2>1 DEF WaitForEvent, OwnerInv, Sleeps, TypeOK, lifetime, request, backend
  <1>4. CASE WaitTimesOut
    <2>2. owner'.op \in {owner.op, Nothing}
      BY <1>4, Returns DEF WaitTimesOut, Idle
    <2> QED
      BY <1>4, <2>2 DEF WaitTimesOut, OwnerInv, TypeOK, lifetime, request, backend
  <1>5. CASE HandleHead
    BY <1>0, <1>5 DEF HandleHead, OwnerGoes, OwnerInv, TypeOK, OwnerStates, lifetime, queue, backend
  <1>6. CASE HandleData
    BY <1>0, <1>6 DEF HandleData, OwnerGoes, OwnerInv, TypeOK, OwnerStates, lifetime, queue
  <1>7. CASE ReleaseResponseBuffer
    BY <1>0, <1>7 DEF ReleaseResponseBuffer, OwnerGoes, SignalCV, OwnerInv, TypeOK, OwnerStates, lifetime, request, backend
  <1>8. CASE HandleEnd
    BY <1>0, <1>8 DEF HandleEnd, OwnerGoes, SignalCV, OwnerInv, TypeOK, OwnerStates, lifetime, backend
  <1>9. CASE CallbackReturns
    BY <1>0, <1>9 DEF CallbackReturns, OwnerGoes, OwnerInv, OwnerStates, lifetime, request, queue, backend
  <1>10. CASE WorkerJoined
    <2>1. owner'.op = Nothing
      BY <1>10 DEF WorkerJoined, Idle
    <2> QED
      BY <1>10, <2>1 DEF WorkerJoined, OwnerInv, TypeOK
  <1>11. CASE BlockingLoop
    BY <1>11 DEF BlockingLoop, Polls, OwnerInv, lifetime, request, queue, backend
  <1>12. CASE BlockingCloses
    BY <1>12 DEF BlockingCloses, Closes, Idle, OwnerInv, lifetime, request, queue
  <1> QED
    BY <1>1, <1>2, <1>3, <1>4, <1>5, <1>6, <1>7, <1>8, <1>9, <1>10, <1>11, <1>12 DEF OwnerStep

\* The owner is not in a call when it makes one, but in a callback, maybe, when it starts
\* a request.
LEMMA UserCallOwn ==
    ASSUME TypeOK, NEW o \in Operations, UserCall(o) \/ SpuriousWakeup(o)
    PROVE  /\ \/ owner' = owner
              \/ owner.at \in {"out", "returned"} /\ owner'.at \in {"process", "closing", "out", "loop"}
           /\ UNCHANGED <<setting, notifier, events, inUse, content>>
           /\ \A p \in Operations \ {o} :
                /\ worker'[p] = worker[p] /\ workerRunning'[p] = workerRunning[p]
                /\ responseHeadSeen'[p] = responseHeadSeen[p]
                /\ initialized'[p] = initialized[p]
                /\ inFlight'[p] = inFlight[p] /\ heard'[p] = heard[p] /\ sent'[p] = sent[p]
                /\ eventCV'[p] = eventCV[p]
           /\ Starts(o) \/ UNCHANGED <<worker, workerRunning, responseHeadSeen, inFlight, heard, sent>>
  <1>1. CASE Starts(o) /\ (Start(o) \/ ExecuteBlocking(o))
    <2>1. owner' = owner \/ (owner.at = "out" /\ owner'.at = "loop")
      BY <1>1 DEF Start, ExecuteBlocking, Idle
    <2> QED
      BY <1>1, <2>1 DEF Starts, TypeOK, lifetime, queue
  <1>2. CASE Cancel(o)
    BY <1>2 DEF Cancel, lifetime, request, queue
  <1>3. CASE Poll(o)
    BY <1>3 DEF Poll, Polls, lifetime, request, queue, backend
  <1>4. CASE Close(o)
    BY <1>4 DEF Close, Closes, Idle, lifetime, request, queue
  <1>5. CASE Initialize(o)
    BY <1>5 DEF Initialize, Idle, TypeOK, request, queue, backend
  <1>6. CASE SpuriousWakeup(o)
    BY <1>6 DEF SpuriousWakeup, TypeOK, lifetime, request, backend
  <1> QED
    BY <1>1, <1>2, <1>3, <1>4, <1>5, <1>6 DEF UserCall, Start, ExecuteBlocking

LEMMA SchedulerActionOwn ==
    ASSUME TypeOK, OwnerInv, SchedulerAction
    PROVE  /\ \/ owner' = owner
              \/ /\ owner.at \in {"out", "ready", "asleep", "scan"}
                 /\ owner'.at \in {"ready", "asleep", "scan", "process", "out"}
           /\ UNCHANGED <<setting, initialized, request, queue, backend, worker>>
  <1>1. CASE Scan
    BY <1>1 DEF Scan, Polls, Idle, lifetime
  <1>2. CASE WaitForReady \/ WakeUpReady \/ PollAll
    <2>1. owner \in OwnerStates
      BY DEF TypeOK
    <2> QED
      BY <1>2, <2>1 DEF WaitForReady, WakeUpReady, PollAll, OwnerGoes, OwnerStates, lifetime
  <1>3. CASE PollReady \/ ScanEnds
    <2>1. CASE PollReady
      <3>1. PICK waits \in BOOLEAN : owner' = [Idle EXCEPT !.at = "ready", !.waits = waits]
        BY <2>1 DEF PollReady
      <3>2. owner'.at = "ready"
        BY <3>1 DEF Idle
      <3> QED
        BY <2>1, <3>2 DEF PollReady, lifetime
    <2> QED
      BY <1>3, <2>1 DEF ScanEnds, Idle, lifetime
  <1>4. CASE Register \/ SchedulerStarts \/ SchedulerCloses
    BY <1>4 DEF Register, SchedulerStarts, SchedulerCloses, vars, lifetime
  <1>5. ASSUME NEW o \in Operations, MarkReady(o)
        PROVE  UNCHANGED vars
    BY <1>5 DEF MarkReady
  <1> QED
    BY <1>1, <1>2, <1>3, <1>4, <1>5 DEF SchedulerAction, SchedulerStep, vars, lifetime

LEMMA WorkerInvKept ==
    ASSUME IInv, Next, NEW p \in Operations
    PROVE  WorkerInv(p)'
  <1>0. TypeOK /\ OwnerInv /\ WorkerInv(p)
    BY DEF IInv
  <1>1. CASE OwnerStep
    <2>1. CASE responseHeadSeen'[p] = responseHeadSeen[p]
      BY <1>0, <1>1, <2>1, OwnerStepOwn, WorkerKept
    <2>2. CASE WorkerJoined /\ p = owner.op
      <3>1. worker'[p] = NoThread /\ ~workerRunning'[p]
        BY <1>0, <2>2 DEF WorkerJoined, WorkerInv, NoThread
      <3> QED
        BY <3>1, BuffersApart DEF WorkerInv, NoThread
    <2> QED
      BY <1>0, <1>1, <2>1, <2>2, OwnerStepOwn DEF OwnerStep, Dequeue, NothingPending, WaitForEvent, WaitTimesOut,
        HandleHead, HandleData, ReleaseResponseBuffer, HandleEnd, CallbackReturns, BlockingLoop, BlockingCloses,
        Closes, backend
  <1>2. ASSUME NEW o \in Operations, WorkerStep(o) \/ Notifies(o)
        PROVE  WorkerInv(p)'
    BY <1>0, <1>2, WorkerStepKeepsWorkerInv, WorkerStepOwn, WorkerKept
  <1>3. ASSUME NEW o \in Operations, UserCall(o) \/ SpuriousWakeup(o)
        PROVE  WorkerInv(p)'
    <2>1. CASE Starts(o) /\ p = o
      <3>1. worker'[p] = [NoThread EXCEPT !.at = "perform"] /\ workerRunning'[p]
        BY <1>0, <2>1 DEF Starts, TypeOK
      <3> QED
        BY <3>1, BuffersApart DEF WorkerInv, NoThread
    <2> QED
      BY <1>0, <1>3, <2>1, UserCallOwn, WorkerKept
  <1>4. CASE SchedulerAction
    BY <1>0, <1>4, SchedulerActionOwn, WorkerKept DEF backend
  <1> QED
    BY <1>1, <1>2, <1>3, <1>4, NextCases

LEMMA GoesTo ==
    ASSUME TypeOK, NEW from, NEW to, OwnerGoes(from, to)
    PROVE  /\ owner.at = from /\ owner'.at = to /\ owner'.op = owner.op
           /\ owner'.event = owner.event /\ owner'.then = owner.then
  BY DEF OwnerGoes, OwnerStates, TypeOK

LEMMA OwnerInvKept ==
    ASSUME IInv, Next
    PROVE  OwnerInv'
  <1>0. TypeOK /\ OwnerInv
    BY DEF IInv
  <1>o. owner \in OwnerStates
    BY <1>0 DEF TypeOK
  <1>i. owner' = Idle => OwnerInv'
    BY DEF Idle, OwnerInv
  <1>k. owner' = owner /\ schedulerInitialized' = schedulerInitialized => OwnerInv'
    BY <1>0 DEF OwnerInv
  <1>r. owner' = Return /\ schedulerInitialized' = schedulerInitialized => OwnerInv'
    BY <1>0, <1>i, Returns DEF OwnerInv
  <1>p. ASSUME NEW o \in Operations, NEW from, NEW waits, NEW then, Polls(o, from, waits, then),
               then = "scan" => schedulerInitialized'
        PROVE  OwnerInv'
    BY <1>p DEF Polls, OwnerInv
  <1>c. ASSUME NEW o \in Operations, NEW from, Closes(o, from)
        PROVE  OwnerInv'
    BY <1>c DEF Closes, Idle, OwnerInv
  <1>1. CASE OwnerStep /\ UNCHANGED scheduler
    <2>0. owner.op \in Operations /\ schedulerInitialized' = schedulerInitialized
      BY <1>0, <1>1, OwnerStepOwn DEF scheduler
    <2>1. CASE Dequeue
      <3>1. /\ owner'.at = "handle" /\ owner'.op = owner.op /\ owner'.then = owner.then
            /\ owner'.event = Head(events[owner.op]) /\ owner.at = "process"
        BY <1>o, <2>1 DEF Dequeue, OwnerStates
      <3>2. events[owner.op] \in Seq(Events) /\ events[owner.op] # <<>>
        BY <1>0, <2>0, <2>1 DEF TypeOK, Events, Dequeue
      <3>3. Head(events[owner.op]) \in Events
        BY <3>2, HeadTail
      <3> QED
        BY <1>0, <2>0, <3>1, <3>3 DEF OwnerInv
    <2>2. CASE NothingPending
      <3>1. CASE owner' = [owner EXCEPT !.at = "wait", !.waits = FALSE]
        <4>1. owner'.at = "wait" /\ owner'.op = owner.op /\ owner'.then = owner.then
          BY <1>o, <3>1 DEF OwnerStates
        <4> QED
          BY <1>0, <2>0, <4>1 DEF OwnerInv
      <3> QED
        BY <1>r, <2>0, <2>2, <3>1 DEF NothingPending
    <2>3. CASE WaitForEvent
      <3>1. CASE OwnerGoes("wait", "process")
        BY <1>0, <2>0, <3>1, GoesTo DEF OwnerInv
      <3> QED
        BY <1>k, <2>0, <2>3, <3>1 DEF WaitForEvent
    <2>4. CASE WaitTimesOut
      BY <1>r, <2>0, <2>4 DEF WaitTimesOut
    <2>5. CASE HandleHead \/ HandleEnd
      <3>1. OwnerGoes("handle", "callback")
        BY <2>5 DEF HandleHead, HandleEnd
      <3> QED
        BY <1>0, <2>0, <3>1, GoesTo DEF OwnerInv
    <2>6. CASE HandleData
      <3>1. OwnerGoes("handle", "release") /\ owner.event \in Buffers
        BY <2>6 DEF HandleData
      <3> QED
        BY <1>0, <2>0, <3>1, GoesTo DEF OwnerInv
    <2>7. CASE ReleaseResponseBuffer \/ CallbackReturns
      <3>1. \E from : OwnerGoes(from, "process")
        BY <2>7 DEF ReleaseResponseBuffer, CallbackReturns
      <3> QED
        BY <1>0, <2>0, <3>1, GoesTo DEF OwnerInv
    <2>8. CASE WorkerJoined
      <3>1. owner' = Idle \/ owner' = [Idle EXCEPT !.at = "returned"]
        BY <2>8 DEF WorkerJoined
      <3>2. CASE owner' = [Idle EXCEPT !.at = "returned"]
        BY <3>2 DEF Idle, OwnerInv
      <3> QED
        BY <1>i, <3>1, <3>2
    <2>9. CASE BlockingLoop
      <3>1. \E from, waits : Polls(owner.op, from, waits, "closes") \/ Polls(owner.op, from, waits, "loop")
        BY <2>9 DEF BlockingLoop
      <3> QED
        BY <1>p, <2>0, <3>1
    <2>10. CASE BlockingCloses
      BY <1>c, <2>0, <2>10 DEF BlockingCloses
    <2> QED
      BY <1>1, <2>1, <2>2, <2>3, <2>4, <2>5, <2>6, <2>7, <2>8, <2>9, <2>10 DEF OwnerStep
  <1>2. ASSUME NEW o \in Operations, (WorkerStep(o) /\ UNCHANGED scheduler) \/ Notifies(o)
        PROVE  OwnerInv'
    <2>1. schedulerInitialized' = schedulerInitialized
      BY <1>2 DEF scheduler, Notifies, NotifyHttpClientOperation, NotifyLocked, SetsReady
    <2> QED
      BY <1>0, <1>2, <1>k, <2>1, WorkerStepOwn
  <1>3. ASSUME NEW o \in Operations, UserCall(o) \/ SpuriousWakeup(o), UNCHANGED scheduler
        PROVE  OwnerInv'
    <2>0. schedulerInitialized' = schedulerInitialized
      BY <1>3 DEF scheduler
    <2>1. CASE Poll(o)
      BY <1>p, <2>1 DEF Poll
    <2>2. CASE Close(o)
      BY <1>c, <2>2 DEF Close
    <2>3. CASE Initialize(o)
      BY <1>i, <2>3 DEF Initialize
    <2>4. CASE ExecuteBlocking(o)
      <3>1. owner' = [Idle EXCEPT !.at = "loop", !.op = o]
        BY <2>4 DEF ExecuteBlocking
      <3> QED
        BY <3>1 DEF Idle, OwnerInv
    <2>5. CASE Start(o) \/ Cancel(o) \/ SpuriousWakeup(o)
      BY <1>k, <2>0, <2>5 DEF Start, Cancel, SpuriousWakeup
    <2> QED
      BY <1>3, <2>1, <2>2, <2>3, <2>4, <2>5 DEF UserCall
  <1>4. CASE SchedulerAction
    <2>1. CASE WaitForReady \/ WakeUpReady \/ PollAll
      <3>1. /\ \E from : OwnerGoes(from, "asleep") \/ OwnerGoes(from, "scan")
            /\ schedulerInitialized' /\ owner.at # "wait"
        BY <1>0, <2>1, GoesTo DEF WaitForReady, WakeUpReady, PollAll, OwnerInv
      <3> QED
        BY <1>0, <3>1, GoesTo DEF OwnerInv
    <2>2. CASE Scan
      <3>1. schedulerInitialized /\ schedulerInitialized' = schedulerInitialized
        BY <1>0, <2>2 DEF Scan, OwnerInv
      <3>2. setting.registered[index] \in Operations
        BY <1>0, <2>2, RegisteredTyped DEF Scan, IInv, SchedulerTypeOK
      <3>3. owner' = owner \/ owner' = Idle \/ Polls(setting.registered[index], "scan", FALSE, "scan")
        BY <2>2 DEF Scan
      <3> QED
        BY <1>i, <1>k, <1>p, <3>1, <3>2, <3>3
    <2>3. CASE ScanEnds
      BY <1>i, <2>3 DEF ScanEnds
    <2>4. CASE PollReady
      <3>1. PICK waits \in BOOLEAN : owner' = [Idle EXCEPT !.at = "ready", !.waits = waits]
        BY <2>4 DEF PollReady
      <3>2. schedulerInitialized'
        BY <2>4 DEF PollReady
      <3> QED
        BY <3>1, <3>2 DEF Idle, OwnerInv
    <2>5. CASE Register \/ SchedulerStarts \/ SchedulerCloses
      <3>1. owner' = owner /\ owner.at = "out"
        BY <2>5 DEF Register, SchedulerStarts, SchedulerCloses, vars
      <3> QED
        BY <1>0, <3>1 DEF OwnerInv
    <2>6. ASSUME NEW o \in Operations, MarkReady(o)
          PROVE  OwnerInv'
      BY <1>k, <2>6 DEF MarkReady, SetsReady, vars
    <2> QED
      BY <1>4, <2>1, <2>2, <2>3, <2>4, <2>5, <2>6 DEF SchedulerAction, SchedulerStep
  <1> QED
    BY <1>1, <1>2, <1>3, <1>4, NextCases

-----------------------------------------------------------------------------
(* Sequences of events                                                     *)

LEMMA Queueing ==
    ASSUME NEW S, NEW first \in Seq(S), NEW list \in Seq(S), NEW x \in S
    PROVE  first \o Append(list, x) \o <<>> = first \o list \o <<x>>
  OBVIOUS

LEMMA Dequeueing ==
    ASSUME NEW S, NEW list \in Seq(S), list # <<>>, NEW last \in Seq(S)
    PROVE  <<Head(list)>> \o Tail(list) \o last = <<>> \o list \o last
  OBVIOUS

LEMMA Coming ==
    ASSUME NEW S, NEW first \in Seq(S), NEW list \in Seq(S), NEW x \in S
    PROVE  first \o list \o <<x>> = Append(first \o list \o <<>>, x)
  OBVIOUS

LEMMA Going ==
    ASSUME NEW S, NEW x \in S, NEW list \in Seq(S), NEW last \in Seq(S)
    PROVE  /\ Tail(<<x>> \o list \o last) = <<>> \o list \o last
           /\ <<x>> \o list \o last # <<>> /\ Head(<<x>> \o list \o last) = x
           /\ <<x>> \o list \o last \in Seq(S)
  OBVIOUS

LEMMA EmptyInOrder ==
    ASSUME NEW piece, NEW body \in Nat
    PROVE  /\ InOrder(<<>>, piece, body, body) /\ Within(<<>>) = {}
           /\ Heads(<<>>) = 0 /\ Tails(<<>>) = 0
  BY DEF InOrder, Within, Heads, Tails

LEMMA HeadInOrder ==
    ASSUME NEW piece, NEW body \in Nat
    PROVE  /\ InOrder(Append(<<>>, "head"), piece, body, body)
           /\ Within(Append(<<>>, "head")) = {}
           /\ Heads(Append(<<>>, "head")) = 1 /\ Tails(Append(<<>>, "head")) = 0
  BY BuffersApart DEF InOrder, Within, Heads, Tails, Events

LEMMA Appended ==
    ASSUME NEW p \in Seq(Events), NEW x \in Events
    PROVE  /\ Append(p, x) \in Seq(Events)
           /\ Len(Append(p, x)) = Len(p) + 1 /\ Append(p, x) # <<>>
           /\ \A i \in 1 .. Len(p) : Append(p, x)[i] = p[i]
           /\ Append(p, x)[Len(p) + 1] = x
           /\ Within(Append(p, x)) = Within(p) \cup ({x} \cap Buffers)
  <1> DEFINE q == Append(p, x)
  <1>1. /\ q \in Seq(Events) /\ Len(q) = Len(p) + 1 /\ q # <<>> /\ Len(p) \in Nat
        /\ \A i \in 1 .. Len(p) : q[i] = p[i]
        /\ q[Len(p) + 1] = x
    OBVIOUS
  <1>2. {q[i] : i \in 1 .. Len(q)} = {p[i] : i \in 1 .. Len(p)} \cup {x}
    <2>1. 1 .. Len(q) = (1 .. Len(p)) \cup {Len(p) + 1}
      BY <1>1
    <2> HIDE DEF q
    <2> QED
      BY <1>1, <2>1
  <1> QED
    BY <1>1, <1>2 DEF Within

\* Another piece of the body came, in a buffer that is not pending.
LEMMA PieceInOrder ==
    ASSUME NEW p, NEW piece, NEW body \in Nat, NEW came \in Nat,
           InOrder(p, piece, body, came), Tails(p) = 0,
           NEW b \in Buffers, b \notin Within(p), NEW piece2, piece2[b] = came + 1,
           \A c \in Buffers \ {b} : piece2[c] = piece[c]
    PROVE  /\ InOrder(Append(p, b), piece2, body, came + 1)
           /\ Within(Append(p, b)) = Within(p) \cup {b}
           /\ Heads(Append(p, b)) = Heads(p) /\ Tails(Append(p, b)) = 0
  <1> DEFINE q == Append(p, b)
  <1>0. p \in Seq(Events) /\ b \in Events /\ Len(p) \in Nat
    BY LenProperties DEF InOrder, Events
  <1>1. /\ q \in Seq(Events) /\ Len(q) = Len(p) + 1 /\ q # <<>>
        /\ \A i \in 1 .. Len(p) : q[i] = p[i]
        /\ q[Len(p) + 1] = b /\ Within(q) = Within(p) \cup {b}
    BY <1>0, Appended
  <1>2. \A i \in 1 .. Len(p) : p[i] \notin Ends
    BY <1>0, EmptySeq DEF InOrder, Tails
  <1>3. \A i \in 1 .. Len(p) : p[i] # b
    BY DEF Within
  <1> HIDE DEF q
  <1>4. Tails(q) = 0
    BY <1>0, <1>1, BuffersApart DEF Tails
  <1>5. Heads(q) = Heads(p)
    <2>1. CASE p = <<>>
      BY <1>0, <1>1, <2>1, BuffersApart DEF Heads
    <2>2. CASE p # <<>>
      BY <1>0, <1>1, <2>2, EmptySeq DEF Heads
    <2> QED
      BY <2>1, <2>2
  <1>6. Heads(p) \in {0, 1}
    BY DEF Heads
  <1>7. ASSUME NEW i \in 1 .. Len(q)
        PROVE  /\ q[i] = "head" => i = 1
               /\ q[i] \in Ends => i = Len(q)
               /\ q[i] \in Buffers => piece2[q[i]] = body + i - Heads(q)
    <2>1. CASE i = Len(p) + 1
      <3>1. came = body + Len(p) - Heads(p) - 0
        BY DEF InOrder
      <3>2. piece2[q[i]] = body + i - Heads(q)
        BY <1>0, <1>1, <1>5, <1>6, <2>1, <3>1
      <3> QED
        BY <1>1, <2>1, <3>2, BuffersApart
    <2>2. CASE i \in 1 .. Len(p)
      BY <1>1, <1>2, <1>3, <1>5, <2>2 DEF InOrder
    <2> QED
      BY <1>0, <1>1, <2>1, <2>2
  <1>8. came + 1 = body + Len(q) - Heads(q) - Tails(q)
    BY <1>0, <1>1, <1>4, <1>5, <1>6 DEF InOrder
  <1> QED
    BY <1>1, <1>4, <1>5, <1>7, <1>8 DEF InOrder, q

LEMMA EndInOrder ==
    ASSUME NEW p, NEW piece, NEW body \in Nat, NEW came \in Nat,
           InOrder(p, piece, body, came), Tails(p) = 0, NEW end \in Ends
    PROVE  /\ InOrder(Append(p, end), piece, body, came)
           /\ Within(Append(p, end)) = Within(p)
           /\ Heads(Append(p, end)) = Heads(p) /\ Tails(Append(p, end)) = 1
  <1> DEFINE q == Append(p, end)
  <1>0. p \in Seq(Events) /\ end \in Events /\ Len(p) \in Nat
    BY LenProperties DEF InOrder, Events
  <1>1. /\ q \in Seq(Events) /\ Len(q) = Len(p) + 1 /\ q # <<>>
        /\ \A i \in 1 .. Len(p) : q[i] = p[i]
        /\ q[Len(p) + 1] = end /\ Within(q) = Within(p)
    <2>1. {end} \cap Buffers = {}
      BY BuffersApart
    <2>2. Within(p) \cup {} = Within(p)
      OBVIOUS
    <2> HIDE DEF q
    <2>3. Within(q) = Within(p) \cup ({end} \cap Buffers)
      BY <1>0, Appended DEF q
    <2>4. /\ q \in Seq(Events) /\ Len(q) = Len(p) + 1 /\ q # <<>>
          /\ \A i \in 1 .. Len(p) : q[i] = p[i]
          /\ q[Len(p) + 1] = end
      BY <1>0, Appended DEF q
    <2> QED
      BY <2>1, <2>2, <2>3, <2>4
  <1>2. \A i \in 1 .. Len(p) : p[i] \notin Ends
    BY <1>0, EmptySeq DEF InOrder, Tails
  <1> HIDE DEF q
  <1>4. Tails(q) = 1
    BY <1>0, <1>1 DEF Tails
  <1>5. Heads(q) = Heads(p)
    <2>1. CASE p = <<>>
      BY <1>0, <1>1, <2>1, BuffersApart DEF Heads
    <2>2. CASE p # <<>>
      BY <1>0, <1>1, <2>2, EmptySeq DEF Heads
    <2> QED
      BY <2>1, <2>2
  <1>6. Heads(p) \in {0, 1}
    BY DEF Heads
  <1>7. ASSUME NEW i \in 1 .. Len(q)
        PROVE  /\ q[i] = "head" => i = 1
               /\ q[i] \in Ends => i = Len(q)
               /\ q[i] \in Buffers => piece[q[i]] = body + i - Heads(q)
    <2>1. CASE i = Len(p) + 1
      BY <1>1, <2>1, BuffersApart
    <2>2. CASE i \in 1 .. Len(p)
      BY <1>1, <1>2, <1>5, <2>2 DEF InOrder
    <2> QED
      BY <1>0, <1>1, <2>1, <2>2
  <1>8. came = body + Len(q) - Heads(q) - Tails(q)
    BY <1>0, <1>1, <1>4, <1>5, <1>6 DEF InOrder
  <1> QED
    BY <1>1, <1>4, <1>5, <1>7, <1>8 DEF InOrder, q

\* What the listener hears next, and what is left.
LEMMA TailInOrder ==
    ASSUME NEW p, p # <<>>, NEW piece, NEW body \in Nat, NEW came \in Nat,
           InOrder(p, piece, body, came)
    PROVE  /\ Head(p) = "head" =>
                /\ InOrder(Tail(p), piece, body, came)
                /\ Heads(p) = 1 /\ Heads(Tail(p)) = 0
                /\ Tails(Tail(p)) = Tails(p) /\ Within(Tail(p)) = Within(p)
           /\ Head(p) \in Buffers =>
                /\ InOrder(Tail(p), piece, body + 1, came)
                /\ piece[Head(p)] = body + 1 /\ body < came
                /\ Heads(p) = 0 /\ Heads(Tail(p)) = 0
                /\ Tails(Tail(p)) = Tails(p) /\ Within(p) = Within(Tail(p)) \cup {Head(p)}
                /\ Head(p) \notin Within(Tail(p))
           /\ Head(p) \in Ends =>
                /\ Tail(p) = <<>> /\ came = body /\ Heads(p) = 0 /\ Tails(p) = 1 /\ Within(p) = {}
  <1> DEFINE q == Tail(p)
             x == Head(p)
  <1>0. p \in Seq(Events) /\ Len(p) \in Nat
    BY LenProperties DEF InOrder
  <1>1. /\ x \in Events /\ q \in Seq(Events) /\ Len(p) > 0 /\ x = p[1]
        /\ Len(q) = Len(p) - 1 /\ Len(q) \in Nat
        /\ \A i \in 1 .. Len(p) - 1 : q[i] = p[i + 1]
    BY <1>0, HeadTail, LenProperties
  <1> HIDE DEF q, x
  <1>2. Within(p) = Within(q) \cup ({x} \cap Buffers)
    <2>1. \A i \in 1 .. Len(p) : i = 1 \/ (i - 1 \in 1 .. Len(q) /\ p[i] = q[i - 1])
      BY <1>0, <1>1
    <2>2. \A i \in 1 .. Len(q) : i + 1 \in 1 .. Len(p) /\ q[i] = p[i + 1]
      BY <1>0, <1>1
    <2>3. 1 \in 1 .. Len(p)
      BY <1>0, <1>1
    <2> DEFINE P == {p[i] : i \in 1 .. Len(p)}
               Q == {q[i] : i \in 1 .. Len(q)}
    <2>4. \A y \in P : y \in Q \cup {x}
      BY <1>1, <2>1
    <2>5. \A y \in Q : y \in P
      BY <2>2
    <2>6. x \in P
      BY <1>1, <2>3
    <2>7. P = Q \cup {x}
      BY <2>4, <2>5, <2>6
    <2> QED
      BY <2>7 DEF Within
  <1>3. Heads(q) = 0
    <2>1. CASE q # <<>>
      <3>1. Len(q) > 0
        BY <1>1, <2>1, EmptySeq
      <3>2. q[1] = p[2] /\ 2 \in 1 .. Len(p)
        BY <1>0, <1>1, <3>1
      <3> QED
        BY <3>2 DEF InOrder, Heads
    <2> QED
      BY <2>1 DEF Heads
  <1>4. x \notin Ends => Tails(q) = Tails(p)
    <2>1. CASE q = <<>>
      <3>1. Len(p) = 1
        BY <1>0, <1>1, <2>1
      <3> QED
        BY <1>1, <2>1, <3>1 DEF Tails
    <2>2. CASE q # <<>>
      <3>1. Len(q) > 0
        BY <1>1, <2>2, EmptySeq
      <3>2. q[Len(q)] = p[Len(p)]
        BY <1>0, <1>1, <3>1
      <3> QED
        BY <2>2, <3>2 DEF Tails
    <2> QED
      BY <2>1, <2>2
  <1>5. Heads(p) = IF x = "head" THEN 1 ELSE 0
    BY <1>1 DEF Heads
  <1>6. Tails(p) \in {0, 1} /\ Tails(q) \in {0, 1}
    BY DEF Tails
  <1>7. ASSUME NEW n \in {body, body + 1}, n = body + 1 - Heads(p), x \notin Ends
        PROVE  InOrder(q, piece, n, came)
    <2>1. ASSUME NEW i \in 1 .. Len(q)
          PROVE  /\ q[i] = "head" => i = 1
                 /\ q[i] \in Ends => i = Len(q)
                 /\ q[i] \in Buffers => piece[q[i]] = n + i - 0
      <3>1. i + 1 \in 1 .. Len(p) /\ q[i] = p[i + 1] /\ i + 1 # 1
        BY <1>0, <1>1
      <3>2. q[i] # "head"
        BY <3>1 DEF InOrder
      <3>3. q[i] \in Ends => i = Len(q)
        BY <1>0, <1>1, <3>1 DEF InOrder
      <3>4. q[i] \in Buffers => piece[q[i]] = body + (i + 1) - Heads(p)
        BY <3>1 DEF InOrder
      <3> QED
        BY <1>5, <1>7, <3>2, <3>3, <3>4
    <2>2. came = n + Len(q) - 0 - Tails(q)
      <3>1. came = body + Len(p) - Heads(p) - Tails(p)
        BY DEF InOrder
      <3>2. Tails(q) = Tails(p) /\ Heads(p) \in {0, 1} /\ Len(q) = Len(p) - 1
        BY <1>1, <1>4, <1>5, <1>7
      <3> QED
        BY <1>0, <1>6, <1>7, <3>1, <3>2
    <2> QED
      BY <1>1, <1>3, <2>1, <2>2 DEF InOrder
  <1>8. CASE x = "head"
    <2>1. body = body + 1 - Heads(p) /\ x \notin Ends /\ x \notin Buffers
      BY <1>5, <1>8, BuffersApart
    <2>2. InOrder(q, piece, body, came)
      BY <1>7, <2>1
    <2> QED
      BY <1>2, <1>3, <1>4, <1>5, <1>8, <2>1, <2>2 DEF q, x
  <1>9. CASE x \in Buffers
    <2>1. x \notin Ends /\ x # "head" /\ Heads(p) = 0
      BY <1>5, <1>9, BuffersApart
    <2>2. InOrder(q, piece, body + 1, came)
      BY <1>7, <2>1
    <2>3. piece[x] = body + 1
      <3>1. 1 \in 1 .. Len(p)
        BY <1>0, <1>1
      <3> QED
        BY <1>1, <1>9, <2>1, <3>1 DEF InOrder
    <2>4. ASSUME x \in Within(q)
          PROVE  FALSE
      <3>1. PICK i \in 1 .. Len(q) : q[i] = x
        BY <2>4 DEF Within
      <3>2. piece[x] = body + 1 + i - Heads(q)
        BY <1>9, <2>2, <3>1 DEF InOrder
      <3> QED
        BY <1>3, <2>3, <3>2
    <2>5. body < came
      <3>1. came = body + 1 + Len(q) - 0 - Tails(q)
        BY <1>3, <2>2 DEF InOrder
      <3>2. Tails(q) <= Len(q)
        BY <1>1, EmptySeq DEF Tails
      <3> QED
        BY <1>1, <1>6, <3>1, <3>2
    <2> QED
      BY <1>2, <1>3, <1>4, <1>9, <2>1, <2>2, <2>3, <2>4, <2>5 DEF q, x
  <1>10. CASE x \in Ends
    <2>1. 1 \in 1 .. Len(p) /\ p[1] = x
      BY <1>0, <1>1
    <2>2. Len(p) = 1
      BY <1>10, <2>1 DEF InOrder
    <2>3. q = <<>>
      BY <1>1, <2>2, EmptySeq
    <2>4. x # "head" /\ x \notin Buffers /\ Tails(p) = 1 /\ Heads(p) = 0
      BY <1>5, <1>10, <2>1, <2>2, BuffersApart DEF Tails
    <2>5. came = body
      BY <2>2, <2>4 DEF InOrder
    <2>6. Within(q) = {}
      BY <2>3 DEF Within
    <2> QED
      BY <1>2, <2>3, <2>4, <2>5, <2>6, BuffersApart DEF q, x
  <1> QED
    BY <1>8, <1>9, <1>10 DEF q, x

\* The pieces in other buffers do not matter.
LEMMA OtherPieces ==
    ASSUME NEW p, NEW piece, NEW body, NEW came, InOrder(p, piece, body, came),
           NEW piece2, \A b \in Within(p) : piece2[b] = piece[b]
    PROVE  InOrder(p, piece2, body, came)
  BY DEF InOrder, Within

-----------------------------------------------------------------------------
(* The events of a request and its buffers                                 *)

LEMMA PendingTyped ==
    ASSUME TypeOK, OwnerInv, NEW p \in Operations, WorkerInv(p)
    PROVE  /\ Handled(p) \in Seq(Events) /\ events[p] \in Seq(Events) /\ Offered(p) \in Seq(Events)
           /\ Pending(p) \in Seq(Events)
  <1>1. Handled(p) \in Seq(Events)
    BY DEF Handled, OwnerInv
  <1>2. events[p] \in Seq(Events)
    BY DEF TypeOK, Events
  <1>3. Offered(p) \in Seq(Events)
    BY DEF Offered, WorkerInv
  <1> QED
    BY <1>1, <1>2, <1>3 DEF Pending

\* A step that moves events along, or does something else.
LEMMA RequestSame ==
    ASSUME NEW p \in Operations, RequestInv(p), BuffersInv(p), setting' = setting,
           Pending(p)' = Pending(p), HeadDue(p)' <=> HeadDue(p), EndPassed(p)' <=> EndPassed(p),
           Filling(p)' = Filling(p), Releasing(p)' = Releasing(p),
           inFlight'[p] = inFlight[p], sent'[p] = sent[p], heard'[p] = heard[p],
           inUse'[p] = inUse[p], content'[p] = content[p]
    PROVE  RequestInv(p)' /\ BuffersInv(p)'
  <1>1. RequestInv(p)'
    BY DEF RequestInv
  <1>2. BuffersInv(p)'
    BY DEF BuffersInv
  <1> QED
    BY <1>1, <1>2

\* A step of somebody else.
LEMMA RequestKept ==
    ASSUME NEW p \in Operations, RequestInv(p), BuffersInv(p), setting' = setting,
           Handled(p)' = Handled(p), Releasing(p)' = Releasing(p),
           events'[p] = events[p], worker'[p] = worker[p],
           responseHeadSeen'[p] = responseHeadSeen[p],
           inFlight'[p] = inFlight[p], sent'[p] = sent[p], heard'[p] = heard[p],
           inUse'[p] = inUse[p], content'[p] = content[p]
    PROVE  RequestInv(p)' /\ BuffersInv(p)'
  <1>1. Pending(p)' = Pending(p)
    BY DEF Pending, Offered
  <1>2. (HeadDue(p)' <=> HeadDue(p)) /\ (EndPassed(p)' <=> EndPassed(p)) /\ Filling(p)' = Filling(p)
    BY DEF HeadDue, EndPassed, Filling
  <1> QED
    BY <1>1, <1>2, RequestSame

LEMMA InFlight ==
    ASSUME NEW o \in Operations, RequestInv(o), ~EndPassed(o)
    PROVE  /\ inFlight[o] /\ Tails(Pending(o)) = 0
           /\ InOrder(Pending(o), content[o], heard[o].body, sent[o])
  BY DEF RequestInv, Tails

\* The first event of a request, whether curl passed a head or not.
LEMMA HeadComes ==
    ASSUME IInv, NEW o \in Operations, HeadDue(o),
           UNCHANGED <<setting, request, queue, owner>>,
           worker'[o].at = "enqueue", worker'[o].event = "head"
    PROVE  RequestInv(o)' /\ BuffersInv(o)'
  <1>0. TypeOK /\ WorkerInv(o) /\ RequestInv(o) /\ BuffersInv(o)
    BY DEF IInv
  <1>1. worker[o].at = "perform" /\ worker[o].event \notin Ends
    BY <1>0 DEF HeadDue, WorkerInv
  <1>2. inFlight[o] /\ Pending(o) = <<>> /\ heard[o] = Silence /\ sent[o] = heard[o].body + 0 - 0 - 0
    <2>1. inFlight[o] /\ InOrder(Pending(o), content[o], heard[o].body, sent[o])
      BY <1>0, <1>1, InFlight DEF EndPassed
    <2>2. Pending(o) = <<>> /\ heard[o] = Silence
      BY <1>0, <2>1 DEF RequestInv
    <2> QED
      BY <2>1, <2>2 DEF InOrder, Heads, Tails
  <1>3. heard[o].body = 0 /\ sent[o] = heard[o].body
    BY <1>2 DEF Silence, Promise!Silence
  <1>4. Handled(o) = <<>> /\ events[o] = <<>>
    <2>1. Handled(o) \in Seq(Events) /\ events[o] \in Seq(Events) /\ Offered(o) \in Seq(Events)
      BY <1>0, PendingTyped DEF IInv
    <2> QED
      BY <1>2, <2>1 DEF Pending
  <1>5. Pending(o)' = Append(<<>>, "head")
    <2>1. Handled(o)' = <<>> /\ events'[o] = <<>> /\ Offered(o)' = <<"head">>
      BY <1>4 DEF Handled, Offered, queue
    <2> QED
      BY <2>1 DEF Pending
  <1>6. /\ InOrder(Pending(o)', content'[o], heard'[o].body, sent'[o])
        /\ Within(Pending(o)') = {} /\ Heads(Pending(o)') = 1 /\ Tails(Pending(o)') = 0
    BY <1>3, <1>5, HeadInOrder DEF request, queue
  <1>7. RequestInv(o)'
    <2>1. ~HeadDue(o)' /\ ~EndPassed(o)' /\ inFlight'[o] /\ heard'[o] = Silence
      BY <1>2, BuffersApart DEF HeadDue, EndPassed, request
    <2> QED
      BY <1>6, <2>1 DEF RequestInv
  <1>8. BuffersInv(o)'
    <2>1. Within(Pending(o)) = {} /\ Filling(o) = {}
      BY <1>1, <1>2, EmptyInOrder DEF Filling
    <2>2. Filling(o)' = {} /\ Releasing(o)' = Releasing(o)
      BY DEF Filling, Releasing
    <2> QED
      BY <1>0, <1>6, <2>1, <2>2 DEF BuffersInv, queue
  <1> QED
    BY <1>7, <1>8

LEMMA WorkerStepKeepsRequest ==
    ASSUME IInv, NEW o \in Operations, WorkerStep(o) \/ Notifies(o)
    PROVE  RequestInv(o)' /\ BuffersInv(o)'
  <1> DEFINE w == worker[o]
  <1>0. /\ TypeOK /\ OwnerInv /\ WorkerInv(o) /\ RequestInv(o) /\ BuffersInv(o)
        /\ w \in WorkerStates /\ WorkerInv(o)'
    BY WorkerStepKeepsWorkerInv DEF IInv, TypeOK
  <1>s. setting.buffers \subseteq Buffers
    BY <1>0, HttpClientOperationAssumption DEF TypeOK, HttpClientOperationAssumption
  <1>o. /\ owner' = owner /\ setting' = setting /\ inFlight' = inFlight /\ heard' = heard
        /\ Handled(o)' = Handled(o) /\ Releasing(o)' = Releasing(o)
    BY <1>0, WorkerStepOwn DEF Handled, Releasing
  <1>p. /\ Handled(o) \in Seq(Events) /\ events[o] \in Seq(Events) /\ Offered(o) \in Seq(Events)
        /\ Pending(o) \in Seq(Events)
    BY <1>0, PendingTyped
  \* A step of the thread alone, which offers and fills nothing before and after.
  <1>q. ASSUME UNCHANGED <<request, queue>>, w.at \notin {"copy", "enqueue"}, worker'[o].at \notin {"copy", "enqueue"},
               ~HeadDue(o), ~HeadDue(o)', EndPassed(o)' <=> EndPassed(o)
        PROVE  RequestInv(o)' /\ BuffersInv(o)'
    <2>1. Pending(o)' = Pending(o)
      BY <1>o, <1>q DEF Pending, Offered, queue
    <2>2. Filling(o)' = Filling(o)
      BY <1>q DEF Filling
    <2> QED
      BY <1>0, <1>o, <1>q, <2>1, <2>2, RequestSame DEF request, queue
  <1>1. CASE ReceiveHead(o)
    <2>1. HeadDue(o) /\ worker'[o].at = "enqueue" /\ worker'[o].event = "head"
      BY <1>0, <1>1 DEF ReceiveHead, Has, HeadDue, TypeOK, WorkerStates
    <2> QED
      BY <1>1, <2>1, HeadComes DEF ReceiveHead
  <1>2. CASE ReceiveData(o)
    <2>1. /\ w.at = "perform" /\ worker'[o].at = "allocate" /\ worker'[o].event = w.event
          /\ responseHeadSeen[o]
      BY <1>0, <1>2 DEF ReceiveData, TypeOK, WorkerStates
    <2> QED
      BY <1>2, <1>q, <2>1 DEF ReceiveData, HeadDue, EndPassed
  <1>3. CASE PerformReturns(o)
    <2>1. /\ w.at = "perform" /\ worker'[o].event = "head"
          /\ worker'[o].at = IF responseHeadSeen[o] THEN "ended" ELSE "enqueue"
      BY <1>0, <1>3 DEF PerformReturns, TypeOK
    <2>2. CASE responseHeadSeen[o]
      <3>1. ~EndPassed(o) /\ ~EndPassed(o)' /\ ~HeadDue(o) /\ ~HeadDue(o)'
        BY <1>0, <2>1, <2>2, BuffersApart DEF EndPassed, HeadDue, WorkerInv
      <3> QED
        BY <1>3, <1>q, <2>1, <2>2, <3>1 DEF PerformReturns
    <2>3. CASE ~responseHeadSeen[o]
      BY <1>3, <2>1, <2>3, HeadComes DEF PerformReturns, HeadDue
    <2> QED
      BY <2>2, <2>3
  <1>4. CASE AllocateResponseBuffer(o)
    <2>1. CASE UNCHANGED <<inUse, worker>>
      BY <1>0, <1>4, <1>o, <2>1, RequestKept DEF AllocateResponseBuffer, request, backend
    <2>2. ASSUME NEW b \in setting.buffers \ inUse[o], inUse' = [inUse EXCEPT ![o] = @ \cup {b}],
                 worker' = [worker EXCEPT ![o].at = "copy", ![o].event = b]
          PROVE  RequestInv(o)' /\ BuffersInv(o)'
      <3>1. /\ w.at = "allocate" /\ worker'[o].at = "copy" /\ worker'[o].event = b
            /\ inUse'[o] = inUse[o] \cup {b}
        BY <1>0, <1>4, <2>2 DEF AllocateResponseBuffer, TypeOK, WorkerStates
      <3>2. b \in Buffers /\ b \notin Ends
        BY <1>s, BuffersApart
      <3>3. ~EndPassed(o) /\ ~EndPassed(o)' /\ ~HeadDue(o) /\ ~HeadDue(o)'
        BY <1>0, <3>1, <3>2 DEF EndPassed, HeadDue, WorkerInv
      <3>4. Pending(o)' = Pending(o)
        BY <1>4, <1>o, <3>1 DEF AllocateResponseBuffer, Pending, Offered
      <3>5. RequestInv(o)'
        BY <1>0, <1>4, <3>3, <3>4 DEF AllocateResponseBuffer, RequestInv, EndPassed, request
      <3>6. Filling(o) = {} /\ Filling(o)' = {b}
        BY <3>1 DEF Filling
      <3>7. BuffersInv(o)'
        BY <1>0, <1>o, <1>s, <3>1, <3>4, <3>6 DEF BuffersInv
      <3> QED
        BY <3>5, <3>7
    <2> QED
      BY <1>4, <2>1, <2>2 DEF AllocateResponseBuffer
  <1>5. CASE CopyData(o)
    <2> DEFINE b == w.event
    <2>1. /\ w.at = "copy" /\ worker'[o].at = "enqueue" /\ worker'[o].event = b /\ b \in Buffers
          /\ inUse'[o] = inUse[o] /\ events'[o] = events[o]
          /\ sent[o] \in Nat /\ sent'[o] = sent[o] + 1 /\ heard[o].body \in Nat
          /\ content'[o][b] = sent[o] + 1
          /\ \A c \in Buffers \ {b} : content'[o][c] = content[o][c]
      BY <1>0, <1>5 DEF CopyData, TypeOK, WorkerStates, WorkerInv
    <2>2. ~EndPassed(o) /\ ~EndPassed(o)' /\ ~HeadDue(o) /\ ~HeadDue(o)'
      BY <1>0, <2>1, BuffersApart DEF EndPassed, HeadDue
    <2>3. Pending(o)' = Append(Pending(o), b)
      <3>1. Offered(o) = <<>> /\ Offered(o)' = <<b>> /\ b \in Events
        BY <2>1 DEF Offered, Events
      <3> QED
        BY <1>o, <1>p, <2>1, <3>1, Coming DEF Pending
    <2>4. b \notin Within(Pending(o)) /\ Filling(o) = {b} /\ Filling(o)' = {}
      BY <1>0, <2>1 DEF BuffersInv, Filling
    <2>5. /\ inFlight[o] /\ Tails(Pending(o)) = 0
          /\ InOrder(Pending(o), content[o], heard[o].body, sent[o])
      BY <1>0, <2>2, InFlight
    <2>6. /\ InOrder(Pending(o)', content'[o], heard[o].body, sent[o] + 1)
          /\ Within(Pending(o)') = Within(Pending(o)) \cup {b}
          /\ Heads(Pending(o)') = Heads(Pending(o)) /\ Tails(Pending(o)') = 0
      <3> DEFINE q == Append(Pending(o), b)
      <3>1. /\ InOrder(q, content'[o], heard[o].body, sent[o] + 1)
            /\ Within(q) = Within(Pending(o)) \cup {b}
            /\ Heads(q) = Heads(Pending(o)) /\ Tails(q) = 0
        <4> HIDE DEF b
        <4> QED
          BY <2>1, <2>4, <2>5, PieceInOrder
      <3> QED
        BY <2>3, <3>1
    <2>7. RequestInv(o)'
      BY <1>0, <1>o, <2>1, <2>2, <2>5, <2>6 DEF RequestInv
    <2>8. BuffersInv(o)'
      BY <1>0, <1>o, <2>1, <2>4, <2>6 DEF BuffersInv
    <2> QED
      BY <2>7, <2>8
  <1>6. CASE EnqueueEvent(o)
    <2>1. CASE UNCHANGED <<events, worker>>
      BY <1>0, <1>6, <1>o, <2>1, RequestKept DEF EnqueueEvent, request, backend
    <2>2. CASE events' = [events EXCEPT ![o] = Append(@, w.event)] /\ WorkerGoes(o, "enqueue", "notify")
      <3>1. /\ w.at = "enqueue" /\ worker'[o].at = "notify" /\ worker'[o].event = w.event
            /\ events'[o] = Append(events[o], w.event)
        BY <1>0, <2>2 DEF WorkerGoes, TypeOK, WorkerStates
      <3>2. Pending(o)' = Pending(o)
        <4>1. Offered(o) = <<w.event>> /\ Offered(o)' = <<>> /\ w.event \in Events
          BY <1>0, <3>1 DEF Offered, WorkerInv
        <4> QED
          BY <1>o, <1>p, <3>1, <4>1, Queueing DEF Pending
      <3>3. (HeadDue(o)' <=> HeadDue(o)) /\ (EndPassed(o)' <=> EndPassed(o)) /\ Filling(o)' = Filling(o)
        BY <3>1 DEF HeadDue, EndPassed, Filling
      <3> QED
        BY <1>0, <1>6, <1>o, <3>2, <3>3, RequestSame DEF EnqueueEvent, request
    <2> QED
      BY <1>6, <2>1, <2>2 DEF EnqueueEvent
  <1>7. CASE EnqueueEnd(o)
    <2> DEFINE end == w.outcome
    <2>1. /\ w.at = "ended" /\ worker'[o].at = "enqueue" /\ worker'[o].event = end /\ end \in Ends
          /\ sent[o] \in Nat /\ heard[o].body \in Nat
      BY <1>0, <1>7 DEF EnqueueEnd, Has, TypeOK, WorkerStates, WorkerInv
    <2>2. ~EndPassed(o) /\ EndPassed(o)' /\ ~HeadDue(o) /\ ~HeadDue(o)'
      BY <1>0, <2>1 DEF EndPassed, HeadDue, WorkerInv
    <2>3. Pending(o)' = Append(Pending(o), end)
      <3>1. Offered(o) = <<>> /\ Offered(o)' = <<end>> /\ end \in Events
        BY <2>1 DEF Offered, Events
      <3>2. events'[o] = events[o]
        BY <1>7 DEF EnqueueEnd, queue
      <3> QED
        BY <1>o, <1>p, <3>1, <3>2, Coming DEF Pending
    <2>4. /\ inFlight[o] /\ Tails(Pending(o)) = 0
          /\ InOrder(Pending(o), content[o], heard[o].body, sent[o])
      BY <1>0, <2>2, InFlight
    <2>5. /\ InOrder(Pending(o)', content[o], heard[o].body, sent[o])
          /\ Within(Pending(o)') = Within(Pending(o))
          /\ Heads(Pending(o)') = Heads(Pending(o)) /\ Tails(Pending(o)') = 1
      BY <2>1, <2>3, <2>4, EndInOrder
    <2>6. RequestInv(o)'
      BY <1>0, <1>7, <2>2, <2>4, <2>5 DEF RequestInv, EnqueueEnd, request, queue
    <2>7. Filling(o) = {} /\ Filling(o)' = {}
      BY <2>1 DEF Filling
    <2>8. BuffersInv(o)'
      BY <1>0, <1>7, <1>o, <2>5, <2>7 DEF BuffersInv, EnqueueEnd, queue
    <2> QED
      BY <2>6, <2>8
  <1>8. CASE WorkerExits(o)
    <2>1. w.at = "exit" /\ worker'[o].at = "none"
      BY <1>0, <1>8 DEF WorkerExits, TypeOK, NoThread
    <2>2. EndPassed(o) /\ EndPassed(o)'
      BY <1>0, <2>1 DEF EndPassed, WorkerInv
    <2> QED
      BY <1>8, <1>q, <2>1, <2>2 DEF WorkerExits, HeadDue
  <1>9. CASE Notify(o) \/ Notifies(o)
    <2>1. PICK to : /\ worker'[o] = [w EXCEPT !.at = to]
                    /\ w.at \in {"notify", "mark", "set"}
                    /\ to \in {"mark", "set"} \/ to = AfterEvent(o)
                    /\ UNCHANGED <<request, queue, backend>>
      BY <1>0, <1>9, NotifyGoes
    <2>2. /\ to \in {"mark", "set", "exit", "ended", "allocate", "perform"}
          /\ to = "perform" => w.outcome = "none"
      BY <2>1 DEF AfterEvent
    <2>3. worker'[o].at = to /\ worker'[o].event = w.event
      BY <1>0, <2>1 DEF WorkerStates
    <2>4. ~HeadDue(o) /\ ~HeadDue(o)'
      BY <1>0, <2>1, <2>2, <2>3 DEF HeadDue, WorkerInv, backend
    <2>5. EndPassed(o)' <=> EndPassed(o)
      BY <2>1, <2>2, <2>3 DEF EndPassed
    <2> QED
      BY <1>q, <2>1, <2>2, <2>3, <2>4, <2>5
  <1> QED
    BY <1>1, <1>2, <1>3, <1>4, <1>5, <1>6, <1>7, <1>8, <1>9 DEF WorkerStep

\* The event in hand is the first of those pending.
LEMMA InHand ==
    ASSUME IInv, owner.at = "handle"
    PROVE  LET o == owner.op
               p == Pending(o)
           IN  /\ o \in Operations /\ inFlight[o] /\ ~HeadDue(o)
               /\ p # <<>> /\ Head(p) = owner.event /\ Tail(p) = <<>> \o events[o] \o Offered(o)
               /\ InOrder(p, content[o], heard[o].body, sent[o])
               /\ heard[o].body \in Nat /\ sent[o] \in Nat
               /\ Releasing(o) = {}
  <1> DEFINE o == owner.op
  <1>0. /\ TypeOK /\ OwnerInv /\ o \in Operations /\ WorkerInv(o) /\ RequestInv(o)
        /\ owner.event \in Events
    BY DEF IInv, OwnerInv
  <1>1. events[o] \in Seq(Events) /\ Offered(o) \in Seq(Events)
    BY <1>0, PendingTyped
  <1>2. Handled(o) = <<owner.event>>
    BY DEF Handled
  <1>3. Pending(o) # <<>> /\ Head(Pending(o)) = owner.event /\ Tail(Pending(o)) = <<>> \o events[o] \o Offered(o)
    <2>1. Pending(o) = <<owner.event>> \o events[o] \o Offered(o)
      BY <1>2 DEF Pending
    <2> DEFINE q == <<owner.event>> \o events[o] \o Offered(o)
    <2>2. q # <<>> /\ Head(q) = owner.event /\ Tail(q) = <<>> \o events[o] \o Offered(o)
      <3>1. \A x \in Events : \A list, last \in Seq(Events) :
              LET whole == <<x>> \o list \o last
              IN  Tail(whole) = <<>> \o list \o last /\ whole # <<>> /\ Head(whole) = x
        BY Going
      <3> QED
        BY <1>0, <1>1, <3>1
    <2> QED
      BY <2>1, <2>2
  <1>4. inFlight[o]
    BY <1>0, <1>3 DEF RequestInv
  <1>5. InOrder(Pending(o), content[o], heard[o].body, sent[o]) /\ ~HeadDue(o)
    BY <1>0, <1>3, <1>4 DEF RequestInv
  <1>6. heard[o].body \in Nat /\ sent[o] \in Nat
    BY <1>0 DEF TypeOK
  <1>7. Releasing(o) = {}
    BY DEF Releasing
  <1> QED
    BY <1>0, <1>3, <1>4, <1>5, <1>6, <1>7

LEMMA OwnerStepKeepsRequest ==
    ASSUME IInv, OwnerStep, NEW p \in Operations
    PROVE  RequestInv(p)' /\ BuffersInv(p)'
  <1>0. /\ TypeOK /\ OwnerInv /\ WorkerInv(p) /\ RequestInv(p) /\ BuffersInv(p)
        /\ owner \in OwnerStates
    BY DEF IInv, TypeOK
  <1>1. /\ owner.op \in Operations /\ owner'.op \in {owner.op, Nothing}
        /\ setting' = setting /\ worker' = worker /\ workerRunning' = workerRunning /\ sent' = sent
    BY <1>0, OwnerStepOwn
  <1>2. CASE p # owner.op
    <2>1. Handled(p)' = Handled(p) /\ Releasing(p)' = Releasing(p)
      BY <1>1, <1>2, HttpClientOperationAssumption DEF Handled, Releasing, HttpClientOperationAssumption
    <2> QED
      BY <1>0, <1>1, <1>2, <2>1, OwnerStepOwn, RequestKept
  <1>3. CASE p = owner.op
    <2> USE <1>3
    <2>0. /\ TypeOK /\ OwnerInv /\ WorkerInv(p) /\ RequestInv(p) /\ BuffersInv(p)
          /\ events[p] \in Seq(Events) /\ Offered(p) \in Seq(Events)
      BY <1>0, <1>1, <1>3, PendingTyped
    <2>1. (EndPassed(p)' <=> EndPassed(p)) /\ Offered(p)' = Offered(p) /\ Filling(p)' = Filling(p)
      BY <1>1 DEF EndPassed, Offered, Filling
    <2>2. responseHeadSeen' = responseHeadSeen => (HeadDue(p)' <=> HeadDue(p))
      BY <1>1 DEF HeadDue
    \* The owner gets from one place to another.
    <2>q. ASSUME owner.at \notin {"handle", "release"}, owner'.at \notin {"handle", "release"},
                 UNCHANGED <<request, events, inUse, content, responseHeadSeen>>
          PROVE  RequestInv(p)' /\ BuffersInv(p)'
      <3>1. Handled(p)' = Handled(p) /\ Releasing(p)' = Releasing(p)
        BY <2>q DEF Handled, Releasing
      <3> QED
        BY <1>1, <2>0, <2>q, <3>1, RequestKept DEF request
    <2>3. CASE Dequeue
      <3>1. /\ owner.at = "process" /\ owner'.at = "handle" /\ owner'.op = p
            /\ owner'.event = Head(events[p]) /\ events[p] # <<>> /\ events'[p] = Tail(events[p])
        BY <1>0, <1>1, <2>3 DEF Dequeue, OwnerStates, TypeOK
      <3>2. Handled(p) = <<>> /\ Handled(p)' = <<Head(events[p])>> /\ Releasing(p)' = Releasing(p)
        <4>1. Handled(p) = <<>> /\ Handled(p)' = <<Head(events[p])>>
          BY <3>1 DEF Handled
        <4>2. Releasing(p) = {} /\ Releasing(p)' = {}
          BY <3>1 DEF Releasing
        <4> QED
          BY <4>1, <4>2
      <3>3. Pending(p)' = Pending(p)
        BY <2>0, <2>1, <3>1, <3>2, Dequeueing DEF Pending
      <3> QED
        BY <1>1, <2>0, <2>1, <2>2, <2>3, <3>2, <3>3, RequestSame DEF Dequeue, request, backend
    <2>4. CASE NothingPending \/ WaitForEvent \/ WaitTimesOut \/ CallbackReturns \/ BlockingLoop \/ BlockingCloses
      <3>1. /\ owner.at \notin {"handle", "release"}
            /\ UNCHANGED <<request, events, inUse, content, responseHeadSeen>>
        BY <2>4, GoesTo DEF NothingPending, WaitForEvent, WaitTimesOut, CallbackReturns, OwnerGoes,
          BlockingLoop, Polls, BlockingCloses, Closes, request, queue, backend
      <3>2. owner'.at \notin {"handle", "release"}
        <4>1. CASE NothingPending \/ WaitTimesOut
          <5>1. [owner EXCEPT !.at = "wait", !.waits = FALSE].at = "wait" /\ Idle.at = "out"
            BY <1>0 DEF OwnerStates, Idle
          <5> QED
            BY <1>0, <4>1, <5>1, Returns DEF NothingPending, WaitTimesOut
        <4>2. CASE WaitForEvent \/ CallbackReturns
          BY <1>0, <3>1, <4>2, GoesTo DEF WaitForEvent, CallbackReturns
        <4>3. CASE BlockingLoop \/ BlockingCloses
          <5>1. CASE BlockingCloses
            BY <5>1 DEF BlockingCloses, Closes, Idle
          <5>2. ASSUME NEW waits, NEW then, Polls(p, "loop", waits, then)
                PROVE  owner'.at = "process"
            BY <5>2 DEF Polls
          <5> QED
            BY <4>3, <5>1, <5>2 DEF BlockingLoop
        <4> QED
          BY <2>4, <4>1, <4>2, <4>3
      <3> QED
        BY <2>q, <3>1, <3>2
    <2>5. CASE owner.at = "handle" /\ (HandleHead \/ HandleData \/ HandleEnd)
      <3> DEFINE q == Pending(p)
                 e == owner.event
      <3>1. /\ inFlight[p] /\ ~HeadDue(p) /\ q # <<>> /\ Head(q) = e
            /\ Tail(q) = <<>> \o events[p] \o Offered(p)
            /\ InOrder(q, content[p], heard[p].body, sent[p])
            /\ heard[p].body \in Nat /\ sent[p] \in Nat /\ Releasing(p) = {}
        BY <2>5, InHand
      <3>2. /\ events' = events /\ inUse' = inUse /\ content' = content /\ responseHeadSeen' = responseHeadSeen
            /\ owner'.at \in {"callback", "release"} /\ owner'.event = e /\ owner'.op = p
        BY <1>0, <2>5, GoesTo DEF HandleHead, HandleData, HandleEnd, queue, backend
      <3>3. Pending(p)' = Tail(q)
        <4>1. Handled(p)' = <<>>
          BY <3>2 DEF Handled
        <4> QED
          BY <2>1, <3>1, <3>2, <4>1 DEF Pending
      <3>4. ~HeadDue(p)'
        BY <2>2, <3>1, <3>2
      <3>5. inUse[p] = Within(q) \cup Filling(p) /\ Filling(p) \cap Within(q) = {} /\ inUse[p] \subseteq setting.buffers
        BY <2>0, <3>1 DEF BuffersInv
      <3> HIDE DEF q, e
      <3>6. CASE HandleHead
        <4>1. /\ e = "head" /\ owner'.at = "callback" /\ inFlight' = inFlight
              /\ heard'[p].head /\ heard'[p].body = heard[p].body
          BY <1>0, <1>1, <3>6, GoesTo DEF HandleHead, TypeOK, e
        <4>2. /\ InOrder(Tail(q), content[p], heard[p].body, sent[p]) /\ Heads(Tail(q)) = 0
              /\ Tails(Tail(q)) = Tails(q) /\ Within(Tail(q)) = Within(q)
          BY <3>1, <4>1, TailInOrder
        <4>3. RequestInv(p)'
          BY <1>1, <2>0, <2>1, <3>1, <3>2, <3>3, <3>4, <4>1, <4>2 DEF RequestInv, q
        <4>4. Releasing(p)' = {}
          BY <4>1 DEF Releasing
        <4>5. BuffersInv(p)'
          BY <1>1, <2>1, <3>2, <3>3, <3>5, <4>2, <4>4 DEF BuffersInv
        <4> QED
          BY <4>3, <4>5
      <3>7. CASE HandleData
        <4>1. /\ e \in Buffers /\ owner'.at = "release" /\ inFlight' = inFlight
              /\ heard'[p].head = heard[p].head /\ heard'[p].body = content[p][e]
          BY <1>0, <1>1, <3>7, GoesTo DEF HandleData, TypeOK, e
        <4>2. /\ InOrder(Tail(q), content[p], heard[p].body + 1, sent[p]) /\ Heads(Tail(q)) = 0
              /\ Heads(q) = 0 /\ content[p][e] = heard[p].body + 1
              /\ Tails(Tail(q)) = Tails(q)
              /\ Within(q) = Within(Tail(q)) \cup {e} /\ e \notin Within(Tail(q))
          BY <3>1, <4>1, TailInOrder
        <4>3. RequestInv(p)'
          BY <1>1, <2>0, <2>1, <3>1, <3>2, <3>3, <3>4, <4>1, <4>2 DEF RequestInv, q
        <4>4. Releasing(p)' = {e}
          BY <3>2, <4>1 DEF Releasing
        <4>5. BuffersInv(p)'
          BY <1>1, <2>1, <3>2, <3>3, <3>5, <4>2, <4>4 DEF BuffersInv
        <4> QED
          BY <4>3, <4>5
      <3>8. CASE HandleEnd
        <4>1. e \in Ends /\ owner'.at = "callback" /\ ~inFlight'[p]
          BY <1>0, <1>1, <3>8, GoesTo DEF HandleEnd, TypeOK, e
        <4>2. Tail(q) = <<>> /\ Within(q) = {} /\ Tails(q) = 1
          BY <3>1, <4>1, TailInOrder
        <4>3. EndPassed(p)
          BY <2>0, <3>1, <4>2 DEF RequestInv, q
        <4>4. Filling(p) = {}
          BY <2>0, <4>3, BuffersApart DEF Filling, EndPassed, WorkerInv
        <4>5. inUse'[p] = {} /\ Within(<<>>) = {}
          BY <3>2, <3>5, <4>2, <4>4, EmptyInOrder
        <4>6. RequestInv(p)'
          BY <2>1, <3>3, <4>1, <4>2, <4>3, <4>5 DEF RequestInv
        <4>7. Releasing(p)' = {}
          BY <4>1 DEF Releasing
        <4>8. BuffersInv(p)'
          BY <2>1, <3>3, <4>2, <4>4, <4>5, <4>7 DEF BuffersInv
        <4> QED
          BY <4>6, <4>8
      <3> QED
        BY <2>5, <3>6, <3>7, <3>8
    <2>6. CASE ReleaseResponseBuffer
      <3> DEFINE b == owner.event
      <3>1. /\ owner.at = "release" /\ owner'.at = "process" /\ b \in Buffers
            /\ inUse'[p] = inUse[p] \ {b} /\ events' = events /\ responseHeadSeen' = responseHeadSeen
            /\ \A c \in Buffers \ {b} : content'[p][c] = content[p][c]
            /\ inFlight' = inFlight /\ heard' = heard
        BY <1>0, <1>1, <2>6, GoesTo DEF ReleaseResponseBuffer, TypeOK, OwnerInv, request, backend
      <3>2. Handled(p) = <<>> /\ Handled(p)' = <<>>
        BY <3>1 DEF Handled
      <3>3. Releasing(p) = {b} /\ Releasing(p)' = {}
        BY <3>1 DEF Releasing
      <3>4. Pending(p)' = Pending(p)
        BY <2>1, <3>1, <3>2 DEF Pending
      <3>5. b \notin Within(Pending(p)) /\ b \notin Filling(p) /\ Within(Pending(p)) \subseteq Buffers
        BY <2>0, <3>3 DEF BuffersInv, Within
      <3>6. InOrder(Pending(p), content[p], heard[p].body, sent[p]) =>
              InOrder(Pending(p), content'[p], heard[p].body, sent[p])
        <4>1. \A c \in Within(Pending(p)) : content'[p][c] = content[p][c]
          BY <3>1, <3>5
        <4> QED
          BY <4>1, OtherPieces
      <3>7. RequestInv(p)'
        BY <1>1, <2>0, <2>1, <2>2, <3>1, <3>4, <3>6 DEF RequestInv
      <3>8. BuffersInv(p)'
        BY <1>1, <2>0, <2>1, <3>1, <3>3, <3>4, <3>5 DEF BuffersInv
      <3> QED
        BY <3>7, <3>8
    <2>7. CASE WorkerJoined
      <3>1. /\ owner'.at \notin {"handle", "release"} /\ worker'[p].at = "none"
            /\ ~inFlight'[p] /\ events'[p] = <<>> /\ inUse'[p] = {}
        BY <1>1, <2>0, <2>7 DEF WorkerJoined, TypeOK, Idle, NoThread
      <3>2. Handled(p)' = <<>> /\ Offered(p)' = <<>> /\ Filling(p)' = {} /\ Releasing(p)' = {}
        BY <3>1 DEF Handled, Offered, Filling, Releasing
      <3>3. Pending(p)' = <<>> /\ Within(<<>>) = {} /\ EndPassed(p)'
        BY <3>1, <3>2, EmptyInOrder DEF Pending, EndPassed
      <3>4. RequestInv(p)'
        BY <3>1, <3>3 DEF RequestInv
      <3>5. BuffersInv(p)'
        BY <3>1, <3>2, <3>3 DEF BuffersInv
      <3> QED
        BY <3>4, <3>5
    <2> QED
      BY <2>3, <2>4, <2>5, <2>6, <2>7 DEF OwnerStep, HandleHead, HandleData, HandleEnd, OwnerGoes
  <1> QED
    BY <1>2, <1>3

LEMMA StartsRequest ==
    ASSUME IInv, NEW o \in Operations, Starts(o), Handled(o)' = Handled(o), Releasing(o)' = Releasing(o)
    PROVE  RequestInv(o)' /\ BuffersInv(o)'
  <1>0. TypeOK /\ WorkerInv(o) /\ RequestInv(o) /\ BuffersInv(o)
    BY DEF IInv
  <1>1. /\ ~inFlight[o] /\ ~workerRunning[o] /\ inFlight'[o] /\ sent'[o] = 0 /\ heard'[o] = Silence
        /\ ~responseHeadSeen'[o] /\ worker'[o] = [NoThread EXCEPT !.at = "perform"]
        /\ UNCHANGED <<setting, queue>>
    BY <1>0 DEF Starts, TypeOK
  <1>2. worker'[o].at = "perform" /\ worker'[o].event = Nothing /\ worker[o].at = "none"
    BY <1>0, <1>1 DEF NoThread, WorkerInv
  <1>3. HeadDue(o)' /\ ~EndPassed(o)' /\ heard'[o].body = 0
    BY <1>1, <1>2, BuffersApart DEF HeadDue, EndPassed, Silence, Promise!Silence
  <1>4. Pending(o)' = Pending(o) /\ Pending(o) = <<>> /\ Filling(o)' = Filling(o)
    <2>1. Offered(o)' = Offered(o) /\ Filling(o)' = Filling(o)
      BY <1>2 DEF Offered, Filling
    <2> QED
      BY <1>0, <1>1, <2>1 DEF Pending, RequestInv, queue
  <1>5. RequestInv(o)'
    <2>1. InOrder(<<>>, content'[o], 0, 0) /\ Tails(<<>>) = 0
      BY EmptyInOrder
    <2> QED
      BY <1>1, <1>3, <1>4, <2>1 DEF RequestInv
  <1>6. BuffersInv(o)'
    BY <1>0, <1>1, <1>4 DEF BuffersInv, queue
  <1> QED
    BY <1>5, <1>6

LEMMA RequestInvKept ==
    ASSUME IInv, Next, NEW p \in Operations
    PROVE  RequestInv(p)' /\ BuffersInv(p)'
  <1>0. TypeOK /\ OwnerInv /\ RequestInv(p) /\ BuffersInv(p)
    BY DEF IInv
  <1>1. ASSUME owner' = owner \/ (owner.at \notin {"handle", "release"} /\ owner'.at \notin {"handle", "release"})
        PROVE  Handled(p)' = Handled(p) /\ Releasing(p)' = Releasing(p)
    BY <1>1 DEF Handled, Releasing
  <1>2. ASSUME NEW o \in Operations, WorkerStep(o) \/ Notifies(o)
        PROVE  RequestInv(p)' /\ BuffersInv(p)'
    <2>1. CASE p # o
      BY <1>0, <1>1, <1>2, <2>1, WorkerStepOwn, RequestKept
    <2> QED
      BY <1>2, <2>1, WorkerStepKeepsRequest
  <1>3. ASSUME NEW o \in Operations, UserCall(o) \/ SpuriousWakeup(o)
        PROVE  RequestInv(p)' /\ BuffersInv(p)'
    <2>1. Handled(p)' = Handled(p) /\ Releasing(p)' = Releasing(p)
      BY <1>0, <1>1, <1>3, UserCallOwn
    <2>2. CASE p = o /\ Starts(o)
      BY <2>1, <2>2, StartsRequest
    <2> QED
      BY <1>0, <1>3, <2>1, <2>2, UserCallOwn, RequestKept
  <1>4. CASE SchedulerAction
    BY <1>0, <1>1, <1>4, SchedulerActionOwn, RequestKept DEF request, queue, backend
  <1> QED
    BY <1>2, <1>3, <1>4, NextCases, OwnerStepKeepsRequest

-----------------------------------------------------------------------------
(* Who sleeps                                                              *)

\* One sleeper at most: signal() leaves none.
LEMMA Signalled ==
    ASSUME TypeOK, NEW o \in Operations, SignalCV(o), NEW x, eventCV[o] \subseteq {x}
    PROVE  eventCV'[o] = {}
  <1>1. PICK left \in Signal(eventCV[o]) : eventCV' = [eventCV EXCEPT ![o] = left]
    BY DEF SignalCV
  <1>2. left = {}
    BY <1>1 DEF Signal
  <1> QED
    BY <1>1, <1>2 DEF TypeOK

LEMMA OwnerStepAt ==
    ASSUME TypeOK, OwnerStep
    PROVE  owner.at \in {"process", "handle", "release", "callback", "wait", "closing", "loop", "closes"}
  BY DEF OwnerStep, Dequeue, NothingPending, WaitForEvent, WaitTimesOut, HandleHead, HandleData,
    ReleaseResponseBuffer, HandleEnd, CallbackReturns, WorkerJoined, BlockingLoop, BlockingCloses,
    Closes, Polls, OwnerGoes

LEMMA SleepInvKept ==
    ASSUME IInv, Next, NEW p \in Operations
    PROVE  SleepInv(p)'
  <1>0. /\ TypeOK /\ OwnerInv /\ SleepInv(p) /\ WorkerInv(p) /\ eventCV[p] \subseteq {"worker", "owner"}
        /\ setting' = setting
    BY SettingKept DEF IInv, TypeOK
  <1>e. eventCV'[p] = {} => SleepInv(p)'
    BY DEF SleepInv
  \* Nothing that matters to the worker changes, and the owner does not sleep, or ...
  <1>k. ASSUME eventCV'[p] \subseteq eventCV[p],
               "worker" \notin eventCV[p] \/ (worker'[p] = worker[p] /\ events'[p] = events[p] /\ inUse'[p] = inUse[p]),
               \/ "owner" \notin eventCV[p]
               \/ owner' = owner /\ events'[p] = events[p] /\ inFlight'[p] = inFlight[p]
        PROVE  SleepInv(p)'
    BY <1>0, <1>k DEF SleepInv
  <1>1. CASE OwnerStep
    <2>1. CASE p # owner.op
      BY <1>0, <1>1, <1>k, <2>1, OwnerStepOwn DEF SleepInv
    <2>2. ASSUME p = owner.op
          PROVE  SleepInv(p)'
      <3>0. worker' = worker
        BY <1>0, <1>1, OwnerStepOwn
      <3>1. CASE Dequeue \/ ReleaseResponseBuffer \/ HandleEnd
        <4>1. owner.at # "wait" /\ SignalCV(p)
          BY <2>2, <3>1 DEF Dequeue, ReleaseResponseBuffer, HandleEnd, OwnerGoes
        <4>2. eventCV[p] \subseteq {"worker"}
          BY <1>0, <4>1 DEF SleepInv
        <4> QED
          BY <1>0, <1>e, <4>1, <4>2, Signalled
      <3>2. CASE NothingPending \/ HandleHead \/ HandleData \/ CallbackReturns \/ BlockingLoop \/ BlockingCloses
        <4>1. owner.at # "wait" /\ UNCHANGED queue
          BY <3>2 DEF NothingPending, HandleHead, HandleData, CallbackReturns, BlockingLoop, BlockingCloses,
            OwnerGoes, Polls, Closes
        <4> QED
          BY <1>0, <1>k, <3>0, <4>1 DEF SleepInv, queue
      <3>3. CASE WaitForEvent
        <4>1. CASE Sleeps(p, "owner")
          <5>1. /\ eventCV'[p] = eventCV[p] \cup {"owner"} /\ inFlight'[p] /\ events'[p] = <<>>
                /\ owner' = owner /\ owner.at = "wait" /\ events' = events /\ inUse' = inUse
            BY <1>0, <2>2, <3>3, <4>1 DEF WaitForEvent, Sleeps, TypeOK, request
          <5> QED
            BY <1>0, <2>2, <3>0, <5>1 DEF SleepInv
        <4>2. CASE "owner" \notin eventCV[p] /\ UNCHANGED eventCV
          BY <1>0, <1>k, <3>0, <3>3, <4>2 DEF WaitForEvent
        <4> QED
          BY <2>2, <3>3, <4>1, <4>2 DEF WaitForEvent
      <3>4. CASE WaitTimesOut
        <4>1. eventCV'[p] = eventCV[p] \ {"owner"} /\ events' = events /\ inUse' = inUse
          BY <1>0, <2>2, <3>4 DEF WaitTimesOut, TypeOK
        <4> QED
          BY <1>0, <3>0, <4>1 DEF SleepInv
      <3>5. CASE WorkerJoined
        <4>1. worker[p].at = "none" /\ owner.at = "closing" /\ eventCV' = eventCV
          BY <2>2, <3>5 DEF WorkerJoined, NoThread
        <4> QED
          BY <1>0, <1>e, <4>1 DEF SleepInv
      <3> QED
        BY <1>1, <3>1, <3>2, <3>3, <3>4, <3>5 DEF OwnerStep
    <2> QED
      BY <2>1, <2>2
  <1>2. ASSUME NEW o \in Operations, WorkerStep(o) \/ Notifies(o)
        PROVE  SleepInv(p)'
    <2>0. owner' = owner /\ inFlight' = inFlight
      BY <1>0, <1>2, WorkerStepOwn
    <2>1. CASE p # o
      BY <1>0, <1>2, <1>k, <2>0, <2>1, WorkerStepOwn
    <2>2. ASSUME p = o
          PROVE  SleepInv(p)'
      <3>1. CASE AllocateResponseBuffer(o)
        <4>1. CASE "worker" \notin eventCV[o] /\ UNCHANGED eventCV
          BY <1>k, <2>0, <2>2, <3>1, <4>1 DEF AllocateResponseBuffer
        <4>2. CASE setting.buffers \ inUse[o] = {} /\ Sleeps(o, "worker") /\ UNCHANGED <<inUse, worker>>
          <5>1. /\ eventCV'[p] = eventCV[p] \cup {"worker"} /\ worker'[p].at = "allocate"
                /\ events' = events /\ inUse'[p] = inUse[p]
            BY <1>0, <2>2, <3>1, <4>2 DEF AllocateResponseBuffer, Sleeps, TypeOK
          <5>2. inUse[p] = setting.buffers
            BY <2>2, <4>2 DEF IInv, BuffersInv
          <5> QED
            BY <1>0, <2>0, <5>1, <5>2 DEF SleepInv
        <4> QED
          BY <3>1, <4>1, <4>2 DEF AllocateResponseBuffer
      <3>2. CASE EnqueueEvent(o)
        <4>1. CASE "worker" \notin eventCV[o] /\ SignalCV(o)
          <5>1. eventCV[p] \subseteq {"owner"}
            BY <1>0, <2>2, <4>1
          <5> QED
            BY <1>0, <1>e, <2>2, <4>1, <5>1, Signalled
        <4>2. CASE Len(events[o]) = setting.queueSize /\ Sleeps(o, "worker") /\ UNCHANGED <<events, worker>>
          <5>1. /\ eventCV'[p] = eventCV[p] \cup {"worker"} /\ worker'[p].at = "enqueue"
                /\ Len(events'[p]) = setting'.queueSize /\ events' = events
            BY <1>0, <2>2, <3>2, <4>2 DEF EnqueueEvent, Sleeps, TypeOK
          <5> QED
            BY <1>0, <2>0, <5>1 DEF SleepInv
        <4> QED
          BY <3>2, <4>1, <4>2 DEF EnqueueEvent
      <3>3. CASE worker[o].at \notin {"allocate", "enqueue"} /\ UNCHANGED <<events, eventCV>>
        BY <1>0, <1>k, <2>0, <2>2, <3>3 DEF SleepInv
      <3>4. CASE Notify(o) \/ Notifies(o)
        BY <1>0, <3>3, <3>4, NotifyGoes DEF queue
      <3> QED
        BY <1>2, <3>1, <3>2, <3>3, <3>4 DEF WorkerStep, ReceiveHead, ReceiveData, PerformReturns, CopyData,
          EnqueueEnd, WorkerExits, Has, queue
    <2> QED
      BY <2>1, <2>2
  <1>3. ASSUME NEW o \in Operations, UserCall(o) \/ SpuriousWakeup(o)
        PROVE  SleepInv(p)'
    <2>0. /\ events' = events /\ inUse' = inUse
          /\ owner' = owner \/ owner.at \in {"out", "returned"}
          /\ eventCV'[p] \subseteq eventCV[p]
      <3>1. CASE SpuriousWakeup(o)
        BY <1>0, <1>3, <3>1, UserCallOwn DEF SpuriousWakeup, TypeOK
      <3>2. CASE UserCall(o)
        <4>1. eventCV' = eventCV
          BY <3>2 DEF UserCall, Start, ExecuteBlocking, Starts, Cancel, Poll, Close, Closes, Initialize, queue
        <4> QED
          BY <1>0, <1>3, <4>1, UserCallOwn
      <3> QED
        BY <1>3, <3>1, <3>2
    <2>1. CASE UNCHANGED <<worker, inFlight>>
      BY <1>0, <1>k, <2>0, <2>1 DEF SleepInv
    <2>2. CASE Starts(o) /\ p # o
      BY <1>0, <1>3, <1>k, <2>0, <2>2, UserCallOwn DEF SleepInv
    <2>3. CASE Starts(o) /\ p = o
      <3>1. worker[p].at = "none" /\ ~inFlight[p]
        BY <1>0, <2>3 DEF Starts, WorkerInv
      <3> QED
        BY <1>0, <1>k, <2>0, <3>1 DEF SleepInv
    <2> QED
      BY <1>0, <1>3, <2>1, <2>2, <2>3, UserCallOwn
  <1>4. CASE SchedulerAction
    BY <1>0, <1>4, <1>k, SchedulerActionOwn DEF SleepInv, queue, request
  <1> QED
    BY <1>1, <1>2, <1>3, <1>4, NextCases

LEMMA ReadyInvKept ==
    ASSUME IInv, Next
    PROVE  ReadyInv'
  <1>0. TypeOK /\ OwnerInv /\ ReadyInv /\ Registered' = Registered
    BY SettingKept DEF IInv, Registered
  <1>1. CASE OwnerStep /\ UNCHANGED scheduler
    BY <1>0, <1>1, OwnerStepAt DEF ReadyInv, scheduler
  <1>2. ASSUME NEW o \in Operations, WorkerStep(o), UNCHANGED scheduler
        PROVE  ReadyInv'
    BY <1>0, <1>2, WorkerStepOwn DEF ReadyInv, scheduler
  <1>3. ASSUME NEW o \in Operations, Notifies(o)
        PROVE  ReadyInv'
    BY <1>0, <1>3, WorkerStepOwn DEF ReadyInv, Notifies, NotifyHttpClientOperation, NotifyLocked, SetsReady, scheduler
  <1>4. ASSUME NEW o \in Operations, UserCall(o) \/ SpuriousWakeup(o), UNCHANGED scheduler
        PROVE  ReadyInv'
    BY <1>0, <1>4, UserCallOwn DEF ReadyInv, scheduler
  <1>5. CASE SchedulerAction
    <2>1. CASE WaitForReady
      <3>1. readyOperations' = readyOperations /\ owner.at = "ready"
        BY <2>1 DEF WaitForReady, OwnerGoes
      <3>2. CASE owner'.at = "asleep" /\ \A o \in Registered : ~readyOperations[o]
        BY <1>0, <3>1, <3>2 DEF ReadyInv
      <3>3. CASE readyCV' = readyCV
        BY <1>0, <3>1, <3>3 DEF ReadyInv
      <3> QED
        BY <1>0, <2>1, <3>2, <3>3, GoesTo DEF WaitForReady
    <2>2. CASE WakeUpReady
      BY <2>2 DEF WakeUpReady, ReadyInv
    <2>3. CASE Scan \/ ScanEnds \/ Register \/ SchedulerStarts \/ SchedulerCloses \/ PollReady \/ PollAll
      <3>1. readyCV' = readyCV /\ owner.at # "asleep"
        BY <2>3 DEF Scan, ScanEnds, Register, SchedulerStarts, SchedulerCloses, PollReady, PollAll, OwnerGoes, scheduler
      <3> QED
        BY <1>0, <3>1 DEF ReadyInv
    <2>4. ASSUME NEW o \in Operations, MarkReady(o)
          PROVE  ReadyInv'
      BY <2>4 DEF MarkReady, SetsReady, ReadyInv
    <2> QED
      BY <1>5, <2>1, <2>2, <2>3, <2>4 DEF SchedulerAction, SchedulerStep
  <1> QED
    BY <1>1, <1>2, <1>3, <1>4, <1>5, NextCases

LEMMA NoticeInvKept ==
    ASSUME IInv, Next, NEW p \in Operations
    PROVE  NoticeInv(p)'
  <1> DEFINE Marking == worker[p].at \in {"notify", "mark", "set"}
             Polling == owner.op = p /\ owner.at \in {"process", "handle", "release", "callback"}
  <1>0. /\ TypeOK /\ SchedulerTypeOK /\ OwnerInv /\ WorkerInv(p) /\ NoticeInv(p) /\ SleepInv(p) /\ RequestInv(p)
        /\ worker[p] \in WorkerStates /\ Registered' = Registered
    BY SettingKept DEF IInv, TypeOK, Registered
  \* Who notices the events, if there are any, still does.
  <1>k. ASSUME inFlight'[p] => initialized'[p],
               \/ ~notifier'[p] \/ readyOperations'[p]
               \/ /\ notifier'[p] = notifier[p]
                  /\ readyOperations'[p] = readyOperations[p]
                  /\ schedulerInitialized' = schedulerInitialized
                  /\ \/ events'[p] = <<>> \/ Marking' \/ Polling'
                     \/ events'[p] = events[p] /\ ~Marking /\ ~Polling
        PROVE  NoticeInv(p)'
    BY <1>0, <1>k DEF NoticeInv
  <1>1. CASE OwnerStep /\ UNCHANGED scheduler
    <2>0. /\ worker' = worker /\ schedulerInitialized' = schedulerInitialized
          /\ readyOperations' = readyOperations
      BY <1>0, <1>1, OwnerStepOwn DEF scheduler
    <2>1. CASE p # owner.op
      <3>1. /\ initialized'[p] = initialized[p] /\ notifier'[p] = notifier[p]
            /\ inFlight'[p] = inFlight[p] /\ events'[p] = events[p]
        BY <1>0, <1>1, <2>1, OwnerStepOwn
      <3> QED
        BY <1>0, <1>k, <2>0, <2>1, <3>1 DEF NoticeInv
    <2>2. ASSUME p = owner.op
          PROVE  NoticeInv(p)'
      <3>1. CASE Dequeue \/ HandleHead \/ HandleData \/ ReleaseResponseBuffer \/ CallbackReturns
        <4>1. /\ owner'.op = p /\ owner'.at \in {"handle", "callback", "release", "process"}
              /\ UNCHANGED <<lifetime, inFlight>>
          <5>1. CASE Dequeue
            BY <1>0, <2>2, <5>1 DEF Dequeue, OwnerStates, TypeOK, request
          <5> QED
            BY <1>0, <2>2, <3>1, <5>1, GoesTo DEF HandleHead, HandleData, ReleaseResponseBuffer, CallbackReturns, request
        <4>2. Polling'
          BY <4>1
        <4> QED
          BY <1>0, <1>k, <2>0, <4>1, <4>2 DEF lifetime, NoticeInv
      <3>2. CASE HandleEnd
        <4>1. owner'.op = p /\ owner'.at = "callback" /\ ~inFlight'[p] /\ UNCHANGED lifetime
          BY <1>0, <2>2, <3>2, GoesTo DEF HandleEnd, TypeOK
        <4>2. Polling'
          BY <4>1
        <4> QED
          BY <1>k, <2>0, <4>1, <4>2 DEF lifetime
      <3>3. CASE NothingPending \/ WaitTimesOut
        <4>1. events'[p] = <<>> /\ UNCHANGED <<lifetime, inFlight>>
          BY <1>0, <2>2, <3>3 DEF NothingPending, WaitTimesOut, SleepInv, request, queue
        <4> QED
          BY <1>0, <1>k, <2>0, <4>1 DEF lifetime, NoticeInv
      <3>4. CASE WaitForEvent \/ BlockingLoop \/ BlockingCloses
        <4>1. owner.at \in {"wait", "loop", "closes"} /\ UNCHANGED <<lifetime, inFlight, events>>
          BY <3>4 DEF WaitForEvent, OwnerGoes, BlockingLoop, Polls, BlockingCloses, Closes, request, queue
        <4>2. ~Polling
          BY <4>1
        <4>3. Marking <=> Marking'
          BY <2>0
        <4> QED
          BY <1>0, <1>k, <2>0, <4>1, <4>2, <4>3 DEF lifetime, NoticeInv
      <3>5. CASE WorkerJoined
        <4>1. ~notifier'[p] /\ ~inFlight'[p]
          BY <1>0, <2>2, <3>5 DEF WorkerJoined, TypeOK
        <4> QED
          BY <1>k, <4>1
      <3> QED
        BY <1>1, <3>1, <3>2, <3>3, <3>4, <3>5 DEF OwnerStep
    <2> QED
      BY <2>1, <2>2
  <1>2. ASSUME NEW o \in Operations, (WorkerStep(o) /\ UNCHANGED scheduler) \/ Notifies(o)
        PROVE  NoticeInv(p)'
    <2>0. UNCHANGED <<lifetime, inFlight, owner, schedulerInitialized>>
      BY <1>0, <1>2, WorkerStepOwn DEF scheduler, Notifies, NotifyHttpClientOperation, NotifyLocked, SetsReady
    <2>1. Polling' <=> Polling
      BY <2>0
    <2>2. CASE p # o
      <3>1. events'[p] = events[p] /\ worker'[p] = worker[p]
        BY <1>0, <1>2, <2>2, WorkerStepOwn
      <3>2. readyOperations'[p] = readyOperations[p]
        BY <1>0, <1>2, <2>2 DEF scheduler, Notifies, NotifyHttpClientOperation, NotifyLocked, SetsReady, SchedulerTypeOK
      <3>3. Marking' <=> Marking
        BY <3>1
      <3> QED
        BY <1>0, <1>k, <2>0, <2>1, <3>1, <3>2, <3>3 DEF lifetime, NoticeInv
    <2>3. ASSUME p = o
          PROVE  NoticeInv(p)'
      <3>1. CASE NotifyLocked(o)
        <4>1. readyOperations'[p]
          BY <1>0, <2>3, <3>1 DEF NotifyLocked, SetsReady, SchedulerTypeOK
        <4> QED
          BY <1>0, <1>k, <2>0, <4>1 DEF lifetime, NoticeInv
      <3>2. CASE NotifyHttpClientOperation(o)
        <4>1. events' = events /\ readyOperations' = readyOperations
          BY <3>2 DEF NotifyHttpClientOperation, queue, scheduler
        <4>2. CASE schedulerInitialized
          <5>1. worker'[p].at = "set"
            BY <1>0, <2>3, <3>2, <4>2 DEF NotifyHttpClientOperation, WorkerGoes, TypeOK, WorkerStates
          <5> QED
            BY <1>0, <1>k, <2>0, <4>1, <5>1 DEF lifetime, NoticeInv
        <4>3. CASE ~schedulerInitialized
          BY <1>0, <2>0, <4>1, <4>3 DEF lifetime, NoticeInv
        <4> QED
          BY <4>2, <4>3
      <3>3. CASE Notify(o) /\ UNCHANGED scheduler
        <4>1. events' = events /\ readyOperations' = readyOperations
          BY <3>3 DEF Notify, queue, scheduler
        <4>2. notifier[p] => worker'[p].at = "mark"
          BY <1>0, <2>3, <3>3 DEF Notify, WorkerGoes, TypeOK, WorkerStates
        <4> QED
          BY <1>0, <1>k, <2>0, <4>1, <4>2 DEF lifetime, NoticeInv
      <3>4. CASE EnqueueEvent(o) /\ UNCHANGED scheduler
        <4>1. CASE UNCHANGED <<events, worker>>
          BY <1>0, <2>0, <3>4, <4>1 DEF lifetime, scheduler, NoticeInv
        <4>2. CASE WorkerGoes(o, "enqueue", "notify")
          <5>1. worker'[p].at = "notify"
            BY <1>0, <2>3, <4>2 DEF WorkerGoes, TypeOK, WorkerStates
          <5> QED
            BY <1>0, <1>k, <2>0, <3>4, <5>1 DEF lifetime, scheduler, NoticeInv
        <4> QED
          BY <3>4, <4>1, <4>2 DEF EnqueueEvent
      <3>5. CASE events' = events /\ worker[o].at \notin {"notify", "mark", "set"} /\ UNCHANGED scheduler
        BY <1>0, <2>0, <2>3, <3>5 DEF lifetime, scheduler, NoticeInv
      <3> QED
        BY <1>2, <3>1, <3>2, <3>3, <3>4, <3>5 DEF WorkerStep, Notifies, ReceiveHead, ReceiveData, PerformReturns,
          AllocateResponseBuffer, CopyData, EnqueueEnd, WorkerExits, Has, queue
    <2> QED
      BY <2>2, <2>3
  <1>3. ASSUME NEW o \in Operations, UserCall(o) \/ SpuriousWakeup(o), UNCHANGED scheduler
        PROVE  NoticeInv(p)'
    <2>0. /\ UNCHANGED <<notifier, events, schedulerInitialized, readyOperations>>
          /\ Polling => Polling'
      <3>1. owner' = owner \/ owner.at \in {"out", "returned"}
        BY <1>0, <1>3, UserCallOwn
      <3> QED
        BY <1>0, <1>3, <3>1, UserCallOwn DEF scheduler
    <2>1. inFlight'[p] => initialized'[p]
      <3>1. initialized[p] => initialized'[p]
        <4>1. CASE Initialize(o)
          BY <1>0, <4>1 DEF Initialize, TypeOK
        <4> QED
          BY <1>3, <4>1 DEF UserCall, Start, ExecuteBlocking, Starts, Cancel, Poll, Close, Closes, SpuriousWakeup, lifetime
      <3>2. Starts(o) \/ inFlight'[p] = inFlight[p]
        BY <1>0, <1>3, UserCallOwn
      <3>3. CASE Starts(o)
        BY <1>0, <3>1, <3>3 DEF Starts, TypeOK, NoticeInv
      <3> QED
        BY <1>0, <3>1, <3>2, <3>3 DEF NoticeInv
    <2>2. Marking => Marking'
      <3>1. CASE Starts(o) /\ p = o
        BY <1>0, <3>1 DEF Starts, WorkerInv
      <3> QED
        BY <1>0, <1>3, <3>1, UserCallOwn
    <2> QED
      BY <1>0, <2>0, <2>1, <2>2 DEF NoticeInv
  <1>4. CASE SchedulerAction
    <2>0. /\ UNCHANGED <<initialized, inFlight, events, worker>>
          /\ owner' = owner \/ ~Polling
      BY <1>0, <1>4, SchedulerActionOwn DEF request, queue
    <2>1. (inFlight'[p] => initialized'[p]) /\ (Marking' <=> Marking)
      BY <1>0, <2>0 DEF NoticeInv
    <2>2. CASE WaitForReady \/ WakeUpReady \/ ScanEnds \/ PollReady \/ PollAll
      <3>1. UNCHANGED <<notifier, readyOperations, schedulerInitialized>>
        BY <2>2 DEF WaitForReady, WakeUpReady, ScanEnds, PollReady, PollAll, lifetime, scheduler
      <3> QED
        BY <1>0, <2>0, <3>1 DEF NoticeInv
    <2>3. CASE Register
      <3>1. readyOperations'[p] <=> p \in Registered
        BY <2>3 DEF Register
      <3> QED
        BY <1>0, <2>0, <2>1, <3>1 DEF NoticeInv
    <2>4. CASE SchedulerStarts
      <3>1. schedulerInitialized' /\ UNCHANGED <<readyOperations, notifier, owner>>
        BY <2>4 DEF SchedulerStarts, vars, lifetime
      <3> QED
        BY <1>0, <2>0, <3>1 DEF NoticeInv
    <2>5. CASE SchedulerCloses
      <3>1. ~notifier'[p]
        BY <2>5 DEF SchedulerCloses
      <3> QED
        BY <1>k, <2>1, <3>1
    <2>6. ASSUME NEW o \in Operations, MarkReady(o)
          PROVE  NoticeInv(p)'
      <3>1. /\ readyOperations[p] => readyOperations'[p]
            /\ UNCHANGED <<schedulerInitialized, notifier, owner>>
        BY <1>0, <2>6 DEF MarkReady, SetsReady, SchedulerTypeOK, vars, lifetime
      <3> QED
        BY <1>0, <2>0, <3>1 DEF NoticeInv
    <2>7. CASE Scan
      <3> DEFINE o == setting.registered[index]
      <3>1. /\ o \in Operations /\ schedulerInitialized /\ UNCHANGED <<schedulerInitialized, notifier>>
            /\ owner.at = "scan"
            /\ readyOperations' = [readyOperations EXCEPT ![o] = all /\ @]
        BY <1>0, <2>7, RegisteredTyped DEF Scan, OwnerInv, SchedulerTypeOK, lifetime
      <3>2. CASE p # o
        <4>1. readyOperations'[p] = readyOperations[p] /\ ~Polling
          BY <1>0, <3>1, <3>2 DEF SchedulerTypeOK
        <4> QED
          BY <1>0, <2>0, <3>1, <4>1 DEF NoticeInv
      <3>3. CASE p = o /\ owner' = owner /\ ~readyOperations[p]
        <4>1. ~readyOperations'[p]
          BY <1>0, <3>1, <3>3 DEF SchedulerTypeOK
        <4> QED
          BY <1>0, <2>0, <3>1, <3>3, <4>1 DEF NoticeInv
      <3>4. CASE p = o /\ Polls(o, "scan", FALSE, "scan")
        <4>1. Polling'
          BY <3>4 DEF Polls
        <4> QED
          BY <1>0, <2>0, <2>1, <3>1, <4>1 DEF NoticeInv
      <3>5. CASE p = o /\ ~initialized[p]
        <4>1. ~inFlight[p] /\ Pending(p) = <<>>
          BY <1>0, <3>5 DEF NoticeInv, RequestInv
        <4>2. events[p] = <<>>
          <5>1. Handled(p) \in Seq(Events) /\ events[p] \in Seq(Events) /\ Offered(p) \in Seq(Events)
            BY <1>0, PendingTyped
          <5> QED
            BY <4>1, <5>1 DEF Pending
        <4> QED
          BY <1>0, <2>0, <2>1, <3>1, <4>2 DEF NoticeInv
      <3> QED
        BY <2>7, <3>2, <3>3, <3>4, <3>5 DEF Scan
    <2> QED
      BY <1>4, <2>2, <2>3, <2>4, <2>5, <2>6, <2>7 DEF SchedulerAction, SchedulerStep
  <1> QED
    BY <1>1, <1>2, <1>3, <1>4, NextCases

-----------------------------------------------------------------------------
(* The invariant                                                           *)

LEMMA Starting ==
    ASSUME SchedulerInit
    PROVE  IInv
  <1>1. TypeOK
    <2>1. NoThread \in WorkerStates /\ Idle \in OwnerStates
      BY DEF NoThread, Idle, WorkerStates, OwnerStates
    <2>2. \A o \in Operations : (o \in setting.operations) \in BOOLEAN
      OBVIOUS
    <2>3. initialized \in [Operations -> BOOLEAN]
      BY <2>2, SMT DEF SchedulerInit, Init
    <2>4. Silence \in [head : BOOLEAN, body : Nat, end : Ends \cup {"none"}]
      BY DEF Silence, Promise!Silence
    <2>5. /\ inFlight = [o \in Operations |-> FALSE] /\ sent = [o \in Operations |-> 0]
          /\ heard = [o \in Operations |-> Silence]
      BY DEF SchedulerInit, Init, Promise!Init, Silence
    <2> QED
      BY <2>1, <2>3, <2>4, <2>5 DEF SchedulerInit, Init, TypeOK
  <1>2. SchedulerTypeOK
    <2>1. Len(setting.registered) \in Nat
      BY <1>1, RegisteredTyped, LenProperties
    <2>2. 1 \in 1 .. Len(setting.registered) + 1
      BY <2>1
    <2>3. readyOperations \in [Operations -> BOOLEAN]
      BY DEF SchedulerInit
    <2> QED
      BY <2>2, <2>3 DEF SchedulerInit, SchedulerTypeOK
  <1>3. OwnerInv /\ ReadyInv
    BY DEF SchedulerInit, Init, Idle, OwnerInv, ReadyInv
  <1>4. ASSUME NEW o \in Operations
        PROVE  WorkerInv(o) /\ RequestInv(o) /\ BuffersInv(o) /\ SleepInv(o) /\ NoticeInv(o)
    <2>1. /\ worker[o] = NoThread /\ owner = Idle /\ ~workerRunning[o]
          /\ events[o] = <<>> /\ inUse[o] = {} /\ eventCV[o] = {} /\ ~inFlight[o] /\ ~notifier[o]
      BY DEF SchedulerInit, Init, Promise!Init
    <2>2. WorkerInv(o)
      BY <2>1, BuffersApart DEF WorkerInv, NoThread
    <2>3. Handled(o) = <<>> /\ Offered(o) = <<>> /\ Filling(o) = {} /\ Releasing(o) = {} /\ EndPassed(o)
      BY <2>1 DEF Handled, Offered, Filling, Releasing, EndPassed, Idle, NoThread
    <2>4. Pending(o) = <<>> /\ Within(<<>>) = {}
      BY <2>1, <2>3 DEF Pending, Within
    <2>5. RequestInv(o)
      BY <2>1, <2>3, <2>4 DEF RequestInv
    <2>6. BuffersInv(o)
      BY <2>1, <2>3, <2>4 DEF BuffersInv
    <2>7. SleepInv(o) /\ NoticeInv(o)
      BY <2>1 DEF SleepInv, NoticeInv
    <2> QED
      BY <2>2, <2>5, <2>6, <2>7
  <1> QED
    BY <1>1, <1>2, <1>3, <1>4 DEF IInv

LEMMA Stepping ==
    ASSUME IInv, Next
    PROVE  IInv'
  <1>1. TypeOK' /\ SchedulerTypeOK' /\ OwnerInv' /\ ReadyInv'
    BY Typed, OwnerInvKept, ReadyInvKept
  <1>2. ASSUME NEW o \in Operations
        PROVE  WorkerInv(o)' /\ RequestInv(o)' /\ BuffersInv(o)' /\ SleepInv(o)' /\ NoticeInv(o)'
    BY WorkerInvKept, RequestInvKept, SleepInvKept, NoticeInvKept
  <1> QED
    BY <1>1, <1>2 DEF IInv

LEMMA Stuttering ==
    ASSUME IInv, UNCHANGED allVars
    PROVE  IInv'
  <1>1. ASSUME NEW o \in Operations
        PROVE  WorkerInv(o)' /\ RequestInv(o)' /\ BuffersInv(o)' /\ SleepInv(o)' /\ NoticeInv(o)'
    <2>0. WorkerInv(o) /\ RequestInv(o) /\ BuffersInv(o) /\ SleepInv(o) /\ NoticeInv(o)
      BY DEF IInv
    <2>1. Handled(o)' = Handled(o) /\ Releasing(o)' = Releasing(o)
      BY DEF Handled, Releasing, allVars, vars
    <2>2. RequestInv(o)' /\ BuffersInv(o)'
      BY <2>0, <2>1, RequestKept DEF allVars, vars, request, queue, backend
    <2>3. WorkerInv(o)'
      BY <2>0, WorkerKept DEF allVars, vars, backend
    <2>4. SleepInv(o)'
      BY <2>0 DEF SleepInv, allVars, vars, queue, request
    <2>5. NoticeInv(o)'
      BY <2>0 DEF NoticeInv, Registered, allVars, vars, scheduler, lifetime, queue, request
    <2> QED
      BY <2>2, <2>3, <2>4, <2>5
  <1>2. TypeOK' /\ SchedulerTypeOK' /\ OwnerInv' /\ ReadyInv'
    <2>1. TypeOK'
      BY DEF IInv, TypeOK, allVars, vars, lifetime, request, queue, backend
    <2>2. SchedulerTypeOK' /\ OwnerInv' /\ ReadyInv'
      BY DEF IInv, SchedulerTypeOK, OwnerInv, ReadyInv, Registered, allVars, vars, scheduler
    <2> QED
      BY <2>1, <2>2
  <1> QED
    BY <1>1, <1>2 DEF IInv

LEMMA Invariant == Spec => []IInv
  <1>1. SchedulerInit => IInv
    BY Starting
  <1>2. IInv /\ [Next]_allVars => IInv'
    BY Stepping, Stuttering
  <1> QED
    BY <1>1, <1>2, PTL DEF Spec

-----------------------------------------------------------------------------
(* The hand-over is sound                                                  *)

\* Pending pieces are in different buffers, so as many as the buffers they are in.
LEMMA Distinct ==
    ASSUME NEW p, NEW piece, NEW body \in Nat, NEW came, InOrder(p, piece, body, came),
           NEW i \in 1 .. Len(p), NEW j \in 1 .. Len(p), p[i] = p[j], p[i] \in Buffers
    PROVE  i = j
  <1>1. piece[p[i]] = body + i - Heads(p) /\ piece[p[j]] = body + j - Heads(p)
    BY DEF InOrder
  <1>2. Heads(p) \in {0, 1}
    BY DEF Heads
  <1> QED
    BY <1>1, <1>2

Apart(p) == \A i, j \in 1 .. Len(p) : p[i] = p[j] /\ p[i] \in Buffers => i = j

LEMMA ApartConcat ==
    ASSUME NEW s \in Seq(Events), NEW t \in Seq(Events), Apart(s \o t)
    PROVE  /\ Apart(s) /\ Apart(t)
           /\ Within(s \o t) = Within(s) \cup Within(t) /\ Within(s) \cap Within(t) = {}
  <1> DEFINE p == s \o t
  <1>1. /\ Len(s) \in Nat /\ Len(t) \in Nat /\ Len(p) = Len(s) + Len(t)
        /\ \A i \in 1 .. Len(s) + Len(t) : p[i] = IF i <= Len(s) THEN s[i] ELSE t[i - Len(s)]
    BY ConcatProperties, LenProperties
  <1>2. \A i \in 1 .. Len(s) : i \in 1 .. Len(p) /\ p[i] = s[i]
    BY <1>1
  <1>3. \A i \in 1 .. Len(t) : i + Len(s) \in 1 .. Len(p) /\ p[i + Len(s)] = t[i]
    <2>1. ASSUME NEW i \in 1 .. Len(t)
          PROVE  i + Len(s) \in 1 .. Len(p) /\ p[i + Len(s)] = t[i]
      <3>1. i + Len(s) \in 1 .. Len(s) + Len(t) /\ ~(i + Len(s) <= Len(s)) /\ (i + Len(s)) - Len(s) = i
        BY <1>1
      <3> QED
        BY <1>1, <3>1
    <2> QED
      BY <2>1
  <1>4. \A i \in 1 .. Len(p) : i \in 1 .. Len(s) \/ i - Len(s) \in 1 .. Len(t)
    BY <1>1
  <1> HIDE DEF p
  <1>5. Apart(p)
    BY DEF p
  <1>6. Apart(s)
    BY <1>2, <1>5 DEF Apart
  <1>7. Apart(t)
    <2>1. ASSUME NEW i \in 1 .. Len(t), NEW j \in 1 .. Len(t), t[i] = t[j], t[i] \in Buffers
          PROVE  i = j
      <3>1. i + Len(s) = j + Len(s)
        BY <1>3, <1>5, <2>1 DEF Apart
      <3> QED
        BY <1>1, <3>1
    <2> QED
      BY <2>1 DEF Apart
  <1>8. {p[i] : i \in 1 .. Len(p)} = {s[i] : i \in 1 .. Len(s)} \cup {t[i] : i \in 1 .. Len(t)}
    <2>1. ASSUME NEW i \in 1 .. Len(p)
          PROVE  p[i] \in {s[j] : j \in 1 .. Len(s)} \cup {t[j] : j \in 1 .. Len(t)}
      <3>1. CASE i \in 1 .. Len(s)
        BY <1>2, <3>1
      <3>2. CASE i - Len(s) \in 1 .. Len(t)
        <4>1. i - Len(s) + Len(s) = i
          BY <1>1
        <4> QED
          BY <1>3, <3>2, <4>1
      <3> QED
        BY <1>4, <3>1, <3>2
    <2>2. ASSUME NEW i \in 1 .. Len(s)
          PROVE  s[i] \in {p[j] : j \in 1 .. Len(p)}
      BY <1>2
    <2>3. ASSUME NEW i \in 1 .. Len(t)
          PROVE  t[i] \in {p[j] : j \in 1 .. Len(p)}
      BY <1>3
    <2> QED
      BY <2>1, <2>2, <2>3
  <1>9. Within(p) = Within(s) \cup Within(t)
    BY <1>8 DEF Within
  <1>10. Within(s) \cap Within(t) = {}
    <2>1. ASSUME NEW b \in Within(s), b \in Within(t)
          PROVE  FALSE
      <3>1. PICK i \in 1 .. Len(s) : s[i] = b /\ b \in Buffers
        BY DEF Within
      <3>2. PICK j \in 1 .. Len(t) : t[j] = b
        BY <2>1 DEF Within
      <3>3. i = j + Len(s)
        BY <1>2, <1>3, <1>5, <3>1, <3>2 DEF Apart
      <3> QED
        BY <1>1, <3>3
    <2> QED
      BY <2>1
  <1> QED
    BY <1>6, <1>7, <1>9, <1>10 DEF p

LEMMA AsMany ==
    ASSUME NEW s \in Seq(Events), Apart(s)
    PROVE  LET queued == {i \in DOMAIN s : s[i] \in Buffers} IN
           /\ {s[i] : i \in queued} = Within(s)
           /\ Cardinality(queued) = Cardinality(Within(s))
  <1> DEFINE queued == {i \in DOMAIN s : s[i] \in Buffers}
             f == [i \in queued |-> s[i]]
  <1>1. DOMAIN s = 1 .. Len(s) /\ Len(s) \in Nat
    BY LenProperties
  <1>2. {s[i] : i \in queued} = Within(s)
    BY <1>1 DEF Within
  <1>3. IsFiniteSet(queued)
    <2>1. IsFiniteSet(1 .. Len(s))
      BY <1>1, FS_Interval
    <2>2. queued \in SUBSET (1 .. Len(s))
      BY <1>1
    <2> HIDE DEF queued
    <2> QED
      BY <2>1, <2>2, FS_Subset
  <1>4. f \in Bijection(queued, Within(s))
    <2>1. f \in [queued -> Within(s)]
      BY <1>2
    <2>2. \A i, j \in queued : f[i] = f[j] => i = j
      BY <1>1 DEF Apart
    <2>3. \A b \in Within(s) : \E i \in queued : f[i] = b
      BY <1>2
    <2> QED
      BY <2>1, <2>2, <2>3 DEF Bijection, Injection, Surjection, IsInjective
  <1>5. ExistsBijection(queued, Within(s))
    BY <1>4 DEF ExistsBijection
  <1> QED
    BY <1>2, <1>3, <1>5, FS_Bijection

LEMMA SumOfThree ==
    ASSUME NEW S, NEW T, NEW U, S \cup T \cup U \subseteq Buffers,
           S \cap T = {}, (S \cup T) \cap U = {}
    PROVE  Cardinality(S \cup T \cup U) = Cardinality(S) + Cardinality(T) + Cardinality(U)
  <1>1. ASSUME NEW A, NEW B, A \cup B \subseteq Buffers, A \cap B = {}
        PROVE  /\ Cardinality(A \cup B) = Cardinality(A) + Cardinality(B)
               /\ Cardinality(A) \in Nat /\ Cardinality(B) \in Nat
    <2>1. IsFiniteSet(A) /\ IsFiniteSet(B) /\ IsFiniteSet(A \cap B)
      BY <1>1, HttpClientOperationAssumption, FS_Subset DEF HttpClientOperationAssumption
    <2>2. Cardinality(A \cap B) = 0
      BY <1>1, <2>1, FS_EmptySet, Zenon
    <2>3. Cardinality(A \cup B) = Cardinality(A) + Cardinality(B) - Cardinality(A \cap B)
      BY <2>1, FS_Union
    <2>4. Cardinality(A) \in Nat /\ Cardinality(B) \in Nat
      BY <2>1, FS_CardinalityType
    <2> QED
      BY <2>2, <2>3, <2>4
  <1>2. /\ Cardinality(S \cup T) = Cardinality(S) + Cardinality(T)
        /\ Cardinality(S) \in Nat /\ Cardinality(T) \in Nat
    BY <1>1
  <1>3. /\ Cardinality((S \cup T) \cup U) = Cardinality(S \cup T) + Cardinality(U)
        /\ Cardinality(U) \in Nat
    <2> DEFINE R == S \cup T
    <2>1. R \cup U \subseteq Buffers /\ R \cap U = {}
      OBVIOUS
    <2> HIDE DEF R
    <2>2. Cardinality(R \cup U) = Cardinality(R) + Cardinality(U) /\ Cardinality(U) \in Nat
      BY <1>1, <2>1
    <2> QED
      BY <2>2 DEF R
  <1> QED
    BY <1>2, <1>3

\* One element, or none: as many threads as events they have in hand.
LEMMA InHands ==
    ASSUME NEW S, NEW x, S = {} \/ S = {x}
    PROVE  Cardinality({y.event : y \in S}) = Cardinality(S)
  <1>1. CASE S = {}
    <2>1. {y.event : y \in S} = {}
      BY <1>1
    <2> QED
      BY <1>1, <2>1
  <1>2. CASE S = {x}
    <2>1. {y.event : y \in S} = {x.event}
      BY <1>2
    <2> QED
      BY <1>2, <2>1, FS_Singleton
  <1> QED
    BY <1>1, <1>2

LEMMA Accounted ==
    ASSUME IInv
    PROVE  BuffersAccounted
  <1> SUFFICES ASSUME NEW o \in Operations
               PROVE  LET queued == {i \in DOMAIN events[o] : events[o][i] \in Buffers}
                          filled == {w \in {worker[o]} : w.at \in {"copy", "enqueue"} /\ w.event \in Buffers}
                          shown == {r \in {owner} : r.op = o /\ r.at \in {"handle", "release"} /\ r.event \in Buffers}
                      IN  /\ inUse[o] = {events[o][i] : i \in queued} \cup {x.event : x \in filled \cup shown}
                          /\ Cardinality(inUse[o]) =
                               Cardinality(queued) + Cardinality(filled) + Cardinality(shown)
                          /\ ~inFlight[o] => events[o] = <<>> /\ inUse[o] = {}
    BY DEF BuffersAccounted
  <1> DEFINE queued == {i \in DOMAIN events[o] : events[o][i] \in Buffers}
             filled == {w \in {worker[o]} : w.at \in {"copy", "enqueue"} /\ w.event \in Buffers}
             shown == {r \in {owner} : r.op = o /\ r.at \in {"handle", "release"} /\ r.event \in Buffers}
             H == Handled(o)
             E == events[o]
             F == Offered(o)
  <1>0. TypeOK /\ OwnerInv /\ WorkerInv(o) /\ RequestInv(o) /\ BuffersInv(o)
    BY DEF IInv
  <1>1. H \in Seq(Events) /\ E \in Seq(Events) /\ F \in Seq(Events) /\ H \o E \in Seq(Events)
    BY <1>0, PendingTyped
  <1>2. Pending(o) = (H \o E) \o F
    BY DEF Pending
  <1>3. Apart(Pending(o))
    <2>1. CASE inFlight[o]
      <3>1. InOrder(Pending(o), content[o], heard[o].body, sent[o]) /\ heard[o].body \in Nat
        BY <1>0, <2>1 DEF RequestInv, TypeOK
      <3> QED
        BY <3>1, Distinct DEF Apart
    <2>2. CASE ~inFlight[o]
      <3>1. Pending(o) = <<>>
        BY <1>0, <2>2 DEF RequestInv
      <3> QED
        BY <3>1 DEF Apart
    <2> QED
      BY <2>1, <2>2
  <1>4. /\ Apart(E)
        /\ Within(Pending(o)) = Within(H) \cup Within(E) \cup Within(F)
        /\ Within(H) \cap Within(E) = {} /\ (Within(H) \cup Within(E)) \cap Within(F) = {}
    <2> DEFINE HE == H \o E
    <2>0. HE \in Seq(Events) /\ Pending(o) = HE \o F
      BY <1>1, <1>2
    <2>1. /\ Apart(H \o E) /\ Within(Pending(o)) = Within(H \o E) \cup Within(F)
          /\ Within(H \o E) \cap Within(F) = {}
      <3> HIDE DEF H, E, F, HE
      <3>1. Apart(HE \o F)
        BY <1>3, <2>0
      <3>2. /\ Apart(HE) /\ Within(HE \o F) = Within(HE) \cup Within(F)
            /\ Within(HE) \cap Within(F) = {}
        BY <1>1, <2>0, <3>1, ApartConcat
      <3> QED
        BY <2>0, <3>2 DEF HE
    <2>2. Apart(E) /\ Within(H \o E) = Within(H) \cup Within(E) /\ Within(H) \cap Within(E) = {}
      BY <1>1, <2>1, ApartConcat
    <2> QED
      BY <2>1, <2>2
  <1>5. {events[o][i] : i \in queued} = Within(E) /\ Cardinality(queued) = Cardinality(Within(E))
    BY <1>1, <1>4, AsMany
  <1>6. {x.event : x \in filled} = Within(F) \cup Filling(o)
    <2>1. CASE worker[o].at = "enqueue"
      <3>1. F = <<worker[o].event>> /\ Filling(o) = {}
        BY <2>1 DEF Offered, Filling
      <3>2. Within(F) = {worker[o].event} \cap Buffers
        BY <3>1 DEF Within
      <3> QED
        BY <2>1, <3>1, <3>2
    <2>2. CASE worker[o].at = "copy"
      <3>1. F = <<>> /\ Filling(o) = {worker[o].event} /\ worker[o].event \in Buffers
        BY <1>0, <2>2 DEF Offered, Filling, WorkerInv
      <3>2. Within(F) = {}
        BY <3>1 DEF Within
      <3> QED
        BY <2>2, <3>1, <3>2
    <2>3. CASE worker[o].at \notin {"copy", "enqueue"}
      <3>1. F = <<>> /\ Filling(o) = {} /\ filled = {}
        BY <2>3 DEF Offered, Filling
      <3>2. Within(F) = {}
        BY <3>1 DEF Within
      <3> QED
        BY <3>1, <3>2
    <2> QED
      BY <2>1, <2>2, <2>3
  <1>7. {x.event : x \in shown} = Within(H) \cup Releasing(o)
    <2>1. CASE owner.op = o /\ owner.at = "handle"
      <3>1. H = <<owner.event>> /\ Releasing(o) = {}
        BY <2>1 DEF Handled, Releasing
      <3>2. Within(H) = {owner.event} \cap Buffers
        BY <3>1 DEF Within
      <3> QED
        BY <2>1, <3>1, <3>2
    <2>2. CASE owner.op = o /\ owner.at = "release"
      <3>1. H = <<>> /\ Releasing(o) = {owner.event} /\ owner.event \in Buffers
        BY <1>0, <2>2 DEF Handled, Releasing, OwnerInv
      <3>2. Within(H) = {}
        BY <3>1 DEF Within
      <3> QED
        BY <2>2, <3>1, <3>2
    <2>3. CASE ~(owner.op = o /\ owner.at \in {"handle", "release"})
      <3>1. H = <<>> /\ Releasing(o) = {} /\ shown = {}
        BY <2>3 DEF Handled, Releasing
      <3>2. Within(H) = {}
        BY <3>1 DEF Within
      <3> QED
        BY <3>1, <3>2
    <2> QED
      BY <2>1, <2>2, <2>3
  <1>8. /\ Cardinality({x.event : x \in filled}) = Cardinality(filled)
        /\ Cardinality({x.event : x \in shown}) = Cardinality(shown)
    <2>1. filled = {} \/ filled = {worker[o]}
      OBVIOUS
    <2>2. shown = {} \/ shown = {owner}
      OBVIOUS
    <2> QED
      BY <2>1, <2>2, InHands
  <1>9. {x.event : x \in filled \cup shown} = {x.event : x \in filled} \cup {x.event : x \in shown}
    OBVIOUS
  <1> DEFINE EE == {events[o][i] : i \in queued}
             FF == {x.event : x \in filled}
             HH == {x.event : x \in shown}
  <1>10. /\ inUse[o] = EE \cup FF \cup HH /\ EE \cap FF = {} /\ (EE \cup FF) \cap HH = {}
         /\ EE \cup FF \cup HH \subseteq Buffers
    <2>1. /\ inUse[o] = Within(Pending(o)) \cup Filling(o) \cup Releasing(o)
          /\ Filling(o) \cap Within(Pending(o)) = {}
          /\ Releasing(o) \cap (Within(Pending(o)) \cup Filling(o)) = {}
          /\ inUse[o] \subseteq Buffers
      BY <1>0 DEF BuffersInv, TypeOK
    <2> HIDE DEF queued, filled, shown, H, E, F
    <2> QED
      BY <1>4, <1>5, <1>6, <1>7, <2>1
  <1>11. Cardinality(inUse[o]) = Cardinality(queued) + Cardinality(filled) + Cardinality(shown)
    <2> HIDE DEF queued, filled, shown, H, E, F
    <2>1. Cardinality(EE \cup FF \cup HH) = Cardinality(EE) + Cardinality(FF) + Cardinality(HH)
      <3> HIDE DEF EE, FF, HH
      <3> QED
        BY <1>10, SumOfThree
    <2> QED
      BY <1>5, <1>8, <1>10, <2>1
  <1>12. ~inFlight[o] => events[o] = <<>> /\ inUse[o] = {}
    <2>1. ~inFlight[o] => (H \o E) \o F = <<>> /\ inUse[o] = {}
      BY <1>0, <1>2 DEF RequestInv
    <2> QED
      BY <1>1, <2>1
  <1> QED
    BY <1>9, <1>10, <1>11, <1>12

LEMMA NobodySleeps ==
    ASSUME IInv
    PROVE  NobodySleepsOn
  <1>1. ASSUME NEW o \in Operations
        PROVE  /\ eventCV[o] # {"worker", "owner"}
               /\ "worker" \in eventCV[o] =>
                    \/ worker[o].at = "enqueue" /\ Len(events[o]) = setting.queueSize
                    \/ worker[o].at = "allocate" /\ inUse[o] = setting.buffers
               /\ "owner" \in eventCV[o] => events[o] = <<>> /\ inFlight[o]
    <2>0. TypeOK /\ OwnerInv /\ SleepInv(o) /\ BuffersInv(o) /\ WorkerInv(o)
      BY DEF IInv
    <2>1. setting.queueSize \in Nat \ {0} /\ setting.buffers # {}
      BY <2>0, HttpClientOperationAssumption DEF TypeOK, HttpClientOperationAssumption
    <2>2. ASSUME "worker" \in eventCV[o], "owner" \in eventCV[o]
          PROVE  FALSE
      <3>1. events[o] = <<>> /\ owner.at = "wait"
        BY <2>0, <2>2 DEF SleepInv
      <3>2. CASE worker[o].at = "enqueue" /\ Len(events[o]) = setting.queueSize
        BY <2>1, <3>1, <3>2
      <3>3. CASE worker[o].at = "allocate" /\ inUse[o] = setting.buffers
        <4>1. Handled(o) = <<>> /\ Offered(o) = <<>> /\ Filling(o) = {} /\ Releasing(o) = {}
          BY <3>1, <3>3 DEF Handled, Offered, Filling, Releasing
        <4>2. Within(Pending(o)) = {}
          BY <3>1, <4>1 DEF Pending, Within
        <4> QED
          BY <2>0, <2>1, <3>3, <4>1, <4>2 DEF BuffersInv
      <3> QED
        BY <2>0, <2>2, <3>2, <3>3 DEF SleepInv
    <2> QED
      BY <2>0, <2>2 DEF SleepInv
  <1> QED
    BY <1>1 DEF NobodySleepsOn, IInv, ReadyInv

\* Nobody writes what another reads, nobody sleeps on what is there, and no event goes
\* unnoticed, in whatever way the operations are used.
THEOREM HandsOverSoundly == Spec => []HandOverSound
  <1>1. IInv => HandOverSound
    <2>1. ASSUME IInv
          PROVE  EventsNoticed
      BY <2>1, RegisteredTyped DEF IInv, NoticeInv, EventsNoticed
    <2> QED
      BY <2>1, Accounted, NobodySleeps DEF IInv, HandOverSound
  <1> QED
    BY <1>1, Invariant, PTL
-----------------------------------------------------------------------------
(* The listener hears what Response promises                               *)

Unheard == <<inFlight, sent, heard>>

\* A piece counts as received when it is copied, while its request is in flight.
LEMMA WorkerRefines ==
    ASSUME IInv, NEW o \in Operations, WorkerStep(o)
    PROVE  Promise!Receive(o) \/ UNCHANGED Unheard
  <1>1. CASE CopyData(o)
    <2>1. worker[o].at = "copy" /\ worker[o].event \notin Ends
      BY <1>1, BuffersApart DEF IInv, WorkerInv, CopyData
    <2>2. inFlight[o]
      BY <2>1, InFlight DEF IInv, EndPassed
    <2> QED
      BY <1>1, <2>2 DEF CopyData, Promise!Receive
  <1>2. CASE ~CopyData(o)
    BY <1>2 DEF WorkerStep, ReceiveHead, ReceiveData, PerformReturns, AllocateResponseBuffer,
                EnqueueEvent, Notify, EnqueueEnd, WorkerExits, request, Unheard
  <1> QED
    BY <1>1, <1>2

\* What the owner takes from the queue is the next that the listener may hear.
LEMMA OwnerRefines ==
    ASSUME IInv, OwnerStep
    PROVE  \/ \E o \in Operations :
                Promise!HearHead(o) \/ Promise!HearBody(o) \/ Promise!HearEnd(o) \/ Promise!Abandon(o)
           \/ UNCHANGED Unheard
  <1> DEFINE o == owner.op
             p == Pending(o)
  <1>0. TypeOK /\ OwnerInv
    BY DEF IInv
  <1>1. ASSUME owner.at = "handle"
        PROVE  /\ o \in Operations /\ inFlight[o] /\ ~HeadDue(o) /\ RequestInv(o)
               /\ p # <<>> /\ Head(p) = owner.event
               /\ InOrder(p, content[o], heard[o].body, sent[o])
               /\ heard[o].body \in Nat /\ sent[o] \in Nat
    BY <1>1, InHand DEF IInv
  <1>2. CASE HandleHead
    <2>1. owner.at = "handle" /\ owner.event = "head"
      BY <1>2 DEF HandleHead, OwnerGoes
    <2>2. Heads(p) = 1
      BY <1>1, <2>1, TailInOrder
    <2>3. heard[o] = Silence
      BY <1>1, <2>1, <2>2 DEF RequestInv
    <2> QED
      BY <1>1, <1>2, <2>1, <2>3 DEF HandleHead, Promise!HearHead, Silence
  <1>3. CASE HandleData
    <2>1. owner.at = "handle" /\ owner.event \in Buffers
      BY <1>3 DEF HandleData, OwnerGoes
    <2>2. Heads(p) = 0 /\ content[o][owner.event] = heard[o].body + 1 /\ heard[o].body < sent[o]
      BY <1>1, <2>1, TailInOrder
    <2>3. heard[o].head
      BY <1>1, <2>1, <2>2 DEF RequestInv
    <2>4. heard' = [heard EXCEPT ![o].body = content[o][owner.event]] /\ UNCHANGED <<inFlight, sent>>
      BY <1>3 DEF HandleData
    <2>5. heard' = [heard EXCEPT ![o].body = heard[o].body + 1]
      BY <2>2, <2>4
    <2> QED
      BY <1>1, <2>1, <2>2, <2>3, <2>4, <2>5 DEF Promise!HearBody
  <1>4. CASE HandleEnd
    <2>1. owner.at = "handle" /\ owner.event \in Ends
      BY <1>4 DEF HandleEnd, OwnerGoes
    <2>2. Heads(p) = 0 /\ heard[o].body = sent[o]
      <3>1. /\ p # <<>> /\ Head(p) \in Ends /\ InOrder(p, content[o], heard[o].body, sent[o])
            /\ heard[o].body \in Nat /\ sent[o] \in Nat
        BY <1>1, <2>1
      <3> HIDE DEF p
      <3>2. Heads(p) = 0 /\ Tails(p) = 1
        BY <3>1, TailInOrder
      <3>3. p[1] = Head(p) /\ 1 \in 1 .. Len(p)
        BY <3>1, HeadTail, EmptySeq, LenProperties DEF InOrder
      <3>4. Len(p) = 1
        BY <3>1, <3>3 DEF InOrder
      <3> QED
        BY <3>1, <3>2, <3>4 DEF InOrder
    <2>3. heard[o].head
      BY <1>1, <2>1, <2>2 DEF RequestInv
    <2>4. /\ inFlight' = [inFlight EXCEPT ![o] = FALSE] /\ UNCHANGED sent
          /\ heard' = [heard EXCEPT ![o].end = owner.event]
      BY <1>4 DEF HandleEnd
    <2>5. owner.event \in {"complete", "error"}
      BY <2>1 DEF Ends
    <2> QED
      BY <1>1, <2>1, <2>2, <2>3, <2>4, <2>5 DEF Promise!HearEnd
  <1>5. CASE WorkerJoined
    <2>1. o \in Operations /\ inFlight' = [inFlight EXCEPT ![o] = FALSE] /\ UNCHANGED <<sent, heard>>
      BY <1>0, <1>5 DEF WorkerJoined, OwnerInv
    <2>2. CASE inFlight[o]
      BY <2>1, <2>2 DEF Promise!Abandon
    <2>3. CASE ~inFlight[o]
      BY <1>0, <2>1, <2>3 DEF TypeOK, Unheard
    <2> QED
      BY <2>1, <2>2, <2>3
  <1>6. CASE ~(HandleHead \/ HandleData \/ HandleEnd \/ WorkerJoined)
    BY <1>6 DEF OwnerStep, Dequeue, NothingPending, WaitForEvent, WaitTimesOut, ReleaseResponseBuffer,
                CallbackReturns, BlockingLoop, BlockingCloses, Closes, request, Unheard
  <1> QED
    BY <1>2, <1>3, <1>4, <1>5, <1>6

LEMMA StepRefines ==
    ASSUME IInv, [Next]_allVars
    PROVE  [Promise!Next]_Unheard
  <1>0. TypeOK /\ OwnerInv
    BY DEF IInv
  <1>1. CASE OwnerStep
    BY <1>1, OwnerRefines DEF Promise!Next
  <1>2. ASSUME NEW o \in Operations, WorkerStep(o)
        PROVE  [Promise!Next]_Unheard
    BY <1>2, WorkerRefines DEF Promise!Next
  <1>3. ASSUME NEW o \in Operations, UserCall(o) \/ SpuriousWakeup(o)
        PROVE  [Promise!Next]_Unheard
    <2>1. CASE Starts(o)
      <3>1. Promise!Start(o)
        BY <2>1 DEF Starts, Promise!Start, Silence
      <3> QED
        BY <3>1 DEF Promise!Next
    <2>2. CASE UNCHANGED <<worker, workerRunning, responseHeadSeen, inFlight, heard, sent>>
      BY <2>2 DEF Unheard
    <2> QED
      BY <1>0, <1>3, <2>1, <2>2, UserCallOwn
  <1>4. ASSUME NEW o \in Operations, Notifies(o)
        PROVE  UNCHANGED Unheard
    BY <1>4 DEF Notifies, NotifyHttpClientOperation, NotifyLocked, request, Unheard
  <1>5. CASE SchedulerAction
    BY <1>0, <1>5, SchedulerActionOwn DEF request, Unheard
  <1>6. CASE UNCHANGED allVars
    BY <1>6 DEF allVars, vars, request, Unheard
  <1> QED
    BY <1>1, <1>2, <1>3, <1>4, <1>5, <1>6, NextCases

\* The head comes first, the pieces follow in their order with none left out, and the end
\* comes once, when all that came was heard; or close() cuts the request off.
THEOREM HearsWhatIsPromised == Spec => ImplementsResponse
  <1>1. SchedulerInit => Promise!Init
    BY DEF SchedulerInit, Init
  <1>2. IInv /\ [Next]_allVars => [Promise!Next]_<<inFlight, sent, heard>>
    BY StepRefines DEF Unheard
  <1> QED
    BY <1>1, <1>2, Invariant, PTL DEF Spec, ImplementsResponse, Promise!Spec
=============================================================================
