--------------------------- MODULE RequestStreams ---------------------------
(***************************************************************************)
(* The ends of a pipeline: AsyncRequestReadableStream and                  *)
(* AsyncRequestWritableStream (Libraries/AsyncStreams/                     *)
(* AsyncRequestStreams.h), which read and write with a request of the      *)
(* event loop, and a source that reads synchronously, as the               *)
(* SyncReadableStream of the tests does.                                   *)
(***************************************************************************)
EXTENDS ReadableStream, WritableStream

Req == request[this]
Holding(state, b) == request' = [request EXCEPT ![this] = [state |-> state, buffer |-> b]]

\* A buffer of the pool with the item in it, referenced by whom it is given to.
Given(p, b, item) == [p EXCEPT !.refs[b] = 1, !.data[b] = item]

-----------------------------------------------------------------------------
(* The source                                                              *)

AsyncRead ==
    /\ Running("asyncRead") /\ this = Source /\ setting.reader = "request"
    /\ IF Req.state # "free"
       THEN Call(<<Abort("asyncReadRequestInUse")>>) /\ UNCHANGED <<pool, request>>
       ELSE IF FreeBuffers = {} THEN Call(<<Do("pause")>>) /\ UNCHANGED <<pool, request>>
       ELSE /\ Holding("active", NewBuffer)
            /\ pool' = [pool EXCEPT !.refs[NewBuffer] = 1]
            /\ Return
    /\ UNCHANGED <<setting, readable, writable, transform, pipe, log>>

AsyncReadSync ==
    /\ Running("asyncRead") /\ this = Source /\ setting.reader = "sync"
    /\ IF log.read = setting.chunks THEN Call(<<Do("pushEnd")>>) /\ UNCHANGED pool
       ELSE IF FreeBuffers = {} THEN Call(<<Do("pause")>>) /\ UNCHANGED pool
       ELSE /\ pool' = Given(pool, NewBuffer, log.read + 1)
            /\ Call(<<Frame("push", this, NewBuffer), Frame("afterSyncPush", this, NewBuffer)>>)
    /\ UNCHANGED <<setting, readable, writable, request, transform, pipe, log>>

AfterSyncPush ==
    /\ Running("afterSyncPush")
    /\ pool' = Unref(pool, arg)
    /\ log' = [log EXCEPT !.read = @ + 1]
    /\ Call(IF MayPush(this) THEN <<Do("reactivate")>> ELSE <<>>)
    /\ UNCHANGED <<setting, readable, writable, request, transform, pipe>>

\* The request completes: the event loop calls afterRead.
ReadCompletes ==
    /\ stack = <<>> /\ request[Source].state = "active" /\ log.read < setting.chunks
    /\ LET b == request[Source].buffer IN
       /\ request' = [request EXCEPT ![Source].state = "free"]
       /\ pool' = [pool EXCEPT !.data[b] = log.read + 1]
       /\ log' = [log EXCEPT !.read = @ + 1]
       /\ stack' = <<Frame("push", Source, b), Frame("afterPush", Source, b)>>
    /\ UNCHANGED <<setting, readable, writable, transform, pipe>>

AfterPush ==
    /\ Running("afterPush")
    /\ LET kept == IF readable[this].destroyed THEN pool ELSE Unref(pool, Req.buffer)
           left == {b \in Buffers : kept.refs[b] = 0}
           next == CHOOSE b \in left : \A c \in left : b <= c
       IN CASE Req.state # "free" ->
               Call(<<Abort("afterReadRequestInUse")>>) /\ UNCHANGED <<pool, request>>
            [] Req.state = "free" /\ MayPush(this) /\ left # {} ->
               Holding("active", next) /\ pool' = [kept EXCEPT !.refs[next] = 1] /\ Return
            [] OTHER ->
               /\ Holding("free", IF readable[this].destroyed THEN Req.buffer ELSE NoBuffer)
               /\ pool' = kept
               /\ Call(IF MayPush(this) THEN <<Do("pause")>> ELSE <<>>)
    /\ UNCHANGED <<setting, readable, writable, transform, pipe, log>>

\* It has nothing more to read, or it failed: the buffer it held is given back.
ReadStops(frame) ==
    /\ stack = <<>> /\ request[Source].state = "active"
    /\ request' = [request EXCEPT ![Source] = [state |-> "free", buffer |-> NoBuffer]]
    /\ pool' = Unref(pool, request[Source].buffer)
    /\ stack' = <<frame>>
    /\ UNCHANGED <<setting, readable, writable, transform, pipe, log>>

ReadEnds == log.read = setting.chunks /\ ReadStops(Frame("pushEnd", Source, NoBuffer))
ReadFails == "readFails" \in setting.usage /\ ReadStops(Error(Source, "readFailed"))

-----------------------------------------------------------------------------
(* The sinks                                                               *)

\* The buffer that is set stands for the callback, which is set and cleared with it.
AsyncWrite ==
    /\ Running("asyncWrite") /\ this \in Sinks
    /\ IF Req.buffer # NoBuffer
       THEN Call(<<Abort("asyncWriteCallbackLeft")>>) /\ UNCHANGED <<pool, request>>
       ELSE Holding("active", arg) /\ pool' = Ref(pool, arg) /\ Return
    /\ UNCHANGED <<setting, readable, writable, transform, pipe, log>>

CanEndSink ==
    /\ Running("canEndWritable") /\ this \in Sinks
    /\ Return
    /\ UNCHANGED <<setting, pool, readable, writable, request, transform, pipe, log>>

\* What the kernel has written is what the buffer holds at the end.
WriteCompletes(s, errors) ==
    /\ stack = <<>> /\ request[s].state = "active"
    /\ LET b == request[s].buffer IN
       /\ request' = [request EXCEPT ![s] = [state |-> "free", buffer |-> NoBuffer]]
       /\ pool' = Unref(pool, b)
       /\ log' = [log EXCEPT !.written[s] = Append(@, pool.data[b])]
       /\ stack' = errors \o <<Frame("finishedWriting", s, b)>>
    /\ UNCHANGED <<setting, readable, writable, transform, pipe>>

WriteDone(s) == WriteCompletes(s, <<>>)
WriteFails(s) ==
    "writeFails" \in setting.usage /\ WriteCompletes(s, <<Error(s, "writeFailed")>>)

-----------------------------------------------------------------------------
(* Destruction                                                             *)

Finished(s) == IF s = Source THEN "finishedDestroyingReadable" ELSE "finishedDestroyingWritable"

\* A readable gives back the buffer it holds, a writable keeps bufferID and callback.
Finalize(s, frames) ==
    /\ request' = [request EXCEPT ![s].state = "free",
                                  ![s].buffer = IF s = Source THEN NoBuffer ELSE @]
    /\ pool' = IF s = Source /\ request[s].buffer # NoBuffer THEN Unref(pool, request[s].buffer)
                                                             ELSE pool
    /\ stack' = <<Frame(Finished(s), s, NoBuffer)>> \o frames
    /\ UNCHANGED <<setting, readable, writable, transform, pipe, log>>

AsyncDestroy ==
    /\ Running("asyncDestroyReadable") \/ Running("asyncDestroyWritable")
    /\ this \in {Source} \cup Sinks
    /\ IF Req.state = "free" THEN Finalize(this, Tail(stack))
       ELSE /\ request' = [request EXCEPT ![this].state = "stopping"]
            /\ Return
            /\ UNCHANGED <<setting, pool, readable, writable, transform, pipe, log>>

\* The event loop has stopped the request and calls back.
StopCompletes(s) ==
    /\ stack = <<>> /\ request[s].state = "stopping"
    /\ Finalize(s, <<>>)

RequestStep ==
    \/ AsyncRead \/ AsyncReadSync \/ AfterSyncPush \/ AfterPush \/ AsyncWrite \/ CanEndSink
    \/ AsyncDestroy

LoopStep ==
    \/ ReadCompletes \/ ReadEnds \/ ReadFails \/ StopCompletes(Source)
    \/ \E s \in Sinks : WriteDone(s) \/ WriteFails(s) \/ StopCompletes(s)
=============================================================================
