------------------------------- MODULE Streams -------------------------------
(***************************************************************************)
(* The state of a pipeline of SC::AsyncReadableStream and                  *)
(* SC::AsyncWritableStream (Libraries/AsyncStreams) and the pool of the    *)
(* buffers that it passes on.                                              *)
(*                                                                         *)
(* All of it runs on one thread, in calls that nest and re-enter: a write  *)
(* may resume the stream that is emitting, a listener may destroy the      *)
(* stream that called it.  `stack` is the stack of these calls.  A frame   *)
(* is a method about to run, or the rest of one after a call it made, and  *)
(* an action runs the frame on top up to the next call whose effects it    *)
(* can see.  With an empty stack the thread is in the event loop.          *)
(***************************************************************************)
EXTENDS Integers, SequencesExt

CONSTANTS
    Source, Transforms, Sinks,
    Settings   \* the pipelines that may be set up, of which a behaviour has one

Setting == [
    transforms : Seq(Transforms),   \* in the order of the chain
    sinks      : Seq(Sinks),
    buffers    : Nat \ {0},         \* of the pool
    readQueue  : Nat \ {0},         \* requests a read queue can hold, one less than its slots
    writeQueue : Nat \ {0},
    chunks     : Nat,               \* what the source has to read
    expansion  : Nat,               \* buffers a transform makes of one,
    trailer    : Nat,               \*     and when it is finalized
    reader     : {"request", "sync"},
    usage      : SUBSET {"readFails", "writeFails", "destroySource", "destroyClosed",
                         "destroySink"} ]

ASSUME StreamsAssumption ==
    /\ IsFiniteSet(Transforms) /\ IsFiniteSet(Sinks)
    /\ Source \notin Transforms \cup Sinks /\ Transforms \cap Sinks = {}
    /\ \A s \in Settings :
           /\ s \in Setting
           /\ s.sinks # <<>>
           /\ s.transforms # <<>> => s.expansion + s.trailer > 0

VARIABLES
    setting,
    pool,        \* AsyncBuffersPool: references to each buffer and what is in it
    readable,    \* AsyncReadableStream
    writable,    \* AsyncWritableStream
    request,     \* of the streams that read and write through the event loop
    transform,   \* AsyncTransformStream
    pipe,        \* AsyncPipeline
    stack,
    log          \* what was read, written and emitted so far

vars == <<setting, pool, readable, writable, request, transform, pipe, stack, log>>

Readables == {Source} \cup Transforms
Writables == Transforms \cup Sinks
Buffers == 1 .. setting.buffers
NoBuffer == 0
Maybe == Buffers \cup {NoBuffer}

ReadableStates == {"CanRead", "Reading", "SyncPushing", "SyncReadMore", "AsyncReading",
    "AsyncPushing", "Pausing", "Ended", "Destroying", "Errored"}
WritableStates == {"Stopped", "Writing", "Ending", "Ended", "Destroying", "Errored"}
TransformStates == {"None", "Paused", "Processing", "Finalizing", "Finalized"}
ErrorMessages == {"readFailed", "writeFailed", "pushDropsBuffer", "pushInWrongState",
    "unshiftFailed", "reactivateInWrongState", "pauseInWrongState", "resumeInWrongState",
    "forgotToReactivate", "pushEndInWrongState", "writableUnshiftFailed",
    "destroyAlreadyCalled", "endAlreadyCalled", "transformCannotBeCalled", "logicalError"}

TypeOK ==
    /\ setting \in Settings
    /\ pool \in [refs : [Buffers -> Nat], data : [Buffers -> Nat]]
    /\ readable \in [Readables ->
           [state : ReadableStates, destroyed : BOOLEAN, queue : Seq(Buffers)]]
    /\ writable \in [Writables ->
           [state : WritableStates, destroyed : BOOLEAN, queue : Seq(Buffers)]]
    /\ \A s \in Readables : Len(readable[s].queue) <= setting.readQueue
    /\ \A s \in Writables : Len(writable[s].queue) <= setting.writeQueue
    /\ request \in [{Source} \cup Sinks ->
           [state : {"free", "active", "stopping"}, buffer : Maybe]]
    /\ transform \in [Transforms ->
           [state : TransformStates, input : Maybe, output : Maybe, made : Nat, final : Nat]]
    /\ pipe.pending \in Seq([writable : Writables, buffer : Maybe])
    /\ {pipe.piped, pipe.shouldEndWhenDrained, pipe.endingPipes} \subseteq BOOLEAN
    /\ pipe.finishing \subseteq Sinks
    /\ log.read \in Nat /\ log.written \in [Sinks -> Seq(Nat)]
    /\ log.closed \in [Readables \cup Sinks -> Nat]
    /\ log.errors \subseteq ErrorMessages /\ log.asked \subseteq setting.usage

Init ==
    /\ setting \in Settings
    /\ pool = [refs |-> [b \in Buffers |-> 0], data |-> [b \in Buffers |-> 0]]
    /\ readable = [s \in Readables |-> [state |-> "CanRead", destroyed |-> FALSE, queue |-> <<>>]]
    /\ writable = [s \in Writables |-> [state |-> "Stopped", destroyed |-> FALSE, queue |-> <<>>]]
    /\ request = [s \in {Source} \cup Sinks |-> [state |-> "free", buffer |-> NoBuffer]]
    /\ transform = [t \in Transforms |-> [state |-> "None", input |-> NoBuffer,
                                          output |-> NoBuffer, made |-> 0, final |-> 0]]
    /\ pipe = [ piped |-> TRUE, pending |-> <<>>, shouldEndWhenDrained |-> FALSE,
                endingPipes |-> FALSE, finishing |-> {} ]
    /\ log = [ read |-> 0, written |-> [s \in Sinks |-> <<>>],
               closed |-> [s \in Readables \cup Sinks |-> 0], errors |-> {},
               asked |-> {} ]

-----------------------------------------------------------------------------
(* Calls                                                                   *)

Frame(call, s, arg) == [call |-> call, of |-> s, arg |-> arg]

Running(call) == stack # <<>> /\ Head(stack).call = call
this == Head(stack).of
arg == Head(stack).arg

\* A method of the stream that runs, without a buffer.
Do(call) == Frame(call, this, NoBuffer)

Call(frames) == stack' = frames \o Tail(stack)
Return == Call(<<>>)

\* eventError, which the pipeline forwards to its own listeners.
Error(s, what) == [call |-> "eventError", of |-> s, what |-> what]
\* A release assertion failed, or a null pointer was used: the program is at its end.
Abort(what) == [call |-> "abort", of |-> Source, what |-> what]
Aborted == Running("abort")
message == Head(stack).what

EmitError ==
    /\ Running("eventError")
    /\ log' = [log EXCEPT !.errors = @ \cup {message}]
    /\ Return
    /\ UNCHANGED <<setting, pool, readable, writable, request, transform, pipe>>

-----------------------------------------------------------------------------
(* AsyncBuffersPool, with reusable writable buffers of one size            *)

Ref(p, b) == [p EXCEPT !.refs[b] = @ + 1]
\* The count of a buffer that nobody references would go below zero: the code asserts.
Unref(p, b) == [p EXCEPT !.refs[b] = @ - 1]
\* A slip: what is left in the queue of a destroyed stream keeps its references.
UnrefNone(p, q) == p
UnrefAll(p, q) ==
    [p EXCEPT !.refs = [b \in Buffers |-> @[b] - Cardinality({i \in DOMAIN q : q[i] = b})]]

FreeBuffers == {b \in Buffers : pool.refs[b] = 0}
NewBuffer == CHOOSE b \in FreeBuffers : \A c \in FreeBuffers : b <= c
=============================================================================
