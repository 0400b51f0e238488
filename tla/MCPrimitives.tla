---------------------------- MODULE MCPrimitives ----------------------------
(***************************************************************************)
(* Model checking of the pieces that stand alone: the primitives in which  *)
(* threads wait behind one mutex and its condition variables, those that   *)
(* fibers wait on, and the circular queue of the streams.  A behaviour     *)
(* uses the one `primitive` names, the others keep their initial state.    *)
(***************************************************************************)
EXTENDS RWLock, Integers

CONSTANTS
    Generations, InitialCount, MaxReleases,
    Items, Nothing, Size,
    f1, f2, f3, Outside, Null, MaxCredit

VARIABLES
    primitive,
    waitCount, generation, barrierQ, waiting, gen,
    count, semaphoreQ, acquiring, released,
    isSignaled, eventQ, inWait,
    buffer, readIndex, writeIndex, result,
    setting, permits, owner, queue, waitTail, node, status, cancelRequested,
    at, popped, left, credit

\* The uses of the fiber primitives.  Without cancellation several workers run the fibers
\* and threads outside of them signal; with it one worker runs the fibers and they signal
\* themselves, and so when an event is reset.
Use(kind, fibers, workers, usage) ==
    [kind |-> kind, fibers |-> fibers, workers |-> workers, usage |-> usage]
Settings ==
    {Use("mutex", {f1, f2, f3}, 2, {}), Use("mutex", {f1, f2, f3}, 1, {"cancel"}),
     Use("semaphore", {f1, f2, f3}, 2, {"outside"}), Use("semaphore", {f1, f2, f3}, 1, {"cancel"}),
     Use("event", {f1, f2, f3}, 2, {"outside"}), Use("event", {f1, f2, f3}, 1, {"cancel", "reset"}),
     Use("autoReset", {f1, f2, f3}, 2, {"outside", "reset"}),
     Use("autoReset", {f1, f2, f3}, 1, {"cancel", "reset"})}

B == INSTANCE Barrier WITH condition <- barrierQ
S == INSTANCE Semaphore WITH condition <- semaphoreQ, blocked <- acquiring
E == INSTANCE EventObject WITH cond <- eventQ, blocked <- inWait
Q == INSTANCE CircularQueue
F == INSTANCE FiberSync WITH Fibers <- {f1, f2, f3}, pc <- at

ASSUME BarrierValues == B!BarrierAssumption
ASSUME SemaphoreValues == S!SemaphoreAssumption
ASSUME QueueValues == Q!CircularQueueAssumption
ASSUME FiberValues == F!FiberSyncAssumption /\ F!SoundUsages

ofBarrier == <<waitCount, generation, barrierQ, waiting, gen>>
ofSemaphore == <<count, semaphoreQ, acquiring, released>>
ofEvent == <<isSignaled, eventQ, inWait>>
ofQueue == <<buffer, readIndex, writeIndex, result>>
ofFibers == <<setting, permits, owner, queue, waitTail, node, status, cancelRequested,
              at, popped, left, credit>>
all == <<primitive, vars, ofBarrier, ofSemaphore, ofEvent, ofQueue, ofFibers>>

MCInit ==
    /\ primitive \in {"lock", "barrier", "semaphore", "event", "queue", "fibers"}
    /\ Init /\ B!Init /\ S!Init /\ E!Init /\ Q!Init /\ F!Init
    /\ primitive # "fibers" => setting = Use("mutex", {f1, f2, f3}, 2, {})

LockStep ==
    /\ primitive = "lock" /\ Next
    /\ UNCHANGED <<primitive, ofBarrier, ofSemaphore, ofEvent, ofQueue, ofFibers>>
BarrierStep ==
    /\ primitive = "barrier" /\ B!Next
    /\ UNCHANGED <<primitive, vars, ofSemaphore, ofEvent, ofQueue, ofFibers>>
SemaphoreStep ==
    /\ primitive = "semaphore" /\ S!Next
    /\ UNCHANGED <<primitive, vars, ofBarrier, ofEvent, ofQueue, ofFibers>>
EventStep ==
    /\ primitive = "event" /\ E!Next
    /\ UNCHANGED <<primitive, vars, ofBarrier, ofSemaphore, ofQueue, ofFibers>>
QueueStep ==
    /\ primitive = "queue" /\ Q!Next
    /\ UNCHANGED <<primitive, vars, ofBarrier, ofSemaphore, ofEvent, ofFibers>>
FiberStep ==
    /\ primitive = "fibers" /\ F!Next
    /\ UNCHANGED <<primitive, vars, ofBarrier, ofSemaphore, ofEvent, ofQueue>>

MCNext ==
    \/ LockStep \/ BarrierStep \/ SemaphoreStep \/ EventStep \/ QueueStep \/ FiberStep

MCSpec ==
    /\ MCInit /\ [][MCNext]_all
    /\ \A t \in Threads :
        /\ WF_all(LockStep /\ Proceed(t))
        /\ WF_all(BarrierStep /\ B!Retry(t))
        /\ WF_all(SemaphoreStep /\ S!RetryAcquire(t))
        /\ WF_all(EventStep /\ E!RetryWait(t))

\* RWLock, Barrier, Semaphore, EventObject, CircularQueue and the fiber
\* primitives: their state stays in its types.
TypesOK == TypeOK /\ B!TypeOK /\ S!TypeOK /\ E!TypeOK /\ Q!TypeOK /\ F!TypeOK

\* Semaphore, EventObject: as many sleepers have been woken as there are resources for
\* them, and one for a signal that is kept.  FiberEvent, FiberAutoResetEvent,
\* FiberSemaphore, FiberMutex: permits are handed from one fiber to the next without loss,
\* nodes are reached while somebody needs them, and no wake-up is missed.
WaitsSound == S!EnoughAwake /\ E!SignalHeard /\ F!WaitsSound

\* RWLock, Barrier, Semaphore: nobody stays blocked.  A stream of readers cannot keep the
\* waiting writers out, blocked readers get the lock once writers stop coming, the threads
\* of a complete round get out, and resources that stay available are taken.
BlockedGetOut ==
    /\ WritersNotStarved /\ ReadersNotForgotten
    /\ B!CompleteRoundLeaves /\ S!ResourcesGetUsed

\* Barrier::wait: nobody leaves before its own round is complete, although threads
\* of the last round may be leaving while the next one gathers, and the generation wraps.
\* CircularQueue: it is a deque of at most Size - 1 items, in whatever way the two indices
\* have gone around the ring.
PromisesKept == B!ImplementsPromise /\ Q!ImplementsDeque
=============================================================================
