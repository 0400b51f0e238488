--------------------------- MODULE TransformStream ---------------------------
(***************************************************************************)
(* SC::AsyncTransformStream (Libraries/AsyncStreams/AsyncStreams.cpp) with *)
(* a transformation that runs elsewhere and reports back through the event *)
(* loop, as AsyncZLibTransformStreamT does.  It makes `expansion` buffers  *)
(* of each of its inputs, one at a time, and `trailer` more at its end.    *)
(***************************************************************************)
EXTENDS ReadableStream, WritableStream

data == <<setting, request, pipe, log>>
T == transform[this]

\* A new state, and the buffer to write the output to.
Working(state, input, output) ==
    transform' = [transform EXCEPT ![this].state = state, ![this].input = input,
                                   ![this].output = output]

AsyncWriteTransform ==
    /\ Running("asyncWrite") /\ this \in Transforms
    /\ CASE T.state \in {"Processing", "Finalizing", "Finalized"} ->
            /\ Call(<<Error(this, "transformCannotBeCalled")>>)
            /\ UNCHANGED <<pool, transform>>
         [] T.state = "Paused" /\ T.input # arg ->
            Call(<<Error(this, "logicalError")>>) /\ UNCHANGED <<pool, transform>>
         [] T.state \in {"None", "Paused"} /\ (T.state = "Paused" => T.input = arg) ->
            IF FreeBuffers # {}
            THEN /\ Working("Processing", arg, NewBuffer)
                 /\ pool' = [pool EXCEPT !.refs[NewBuffer] = 1]
                 /\ Return
            ELSE /\ Working("Paused", arg, T.output)
                 /\ Call(<<Do("pause"), Frame("unshiftWrite", this, arg)>>)
                 /\ UNCHANGED pool
    /\ UNCHANGED <<readable, writable, data>>

TryFinalize ==
    IF FreeBuffers # {}
    THEN /\ Working("Finalizing", T.input, NewBuffer)
         /\ pool' = [pool EXCEPT !.refs[NewBuffer] = 1]
         /\ Return
    ELSE /\ Working("Paused", T.input, T.output)
         /\ Call(<<Do("pause")>>)
         /\ UNCHANGED pool

CanEndTransform ==
    /\ Running("canEndWritable") /\ this \in Transforms
    /\ IF T.state \in {"None", "Paused"} THEN TryFinalize
                                         ELSE Return /\ UNCHANGED <<pool, transform>>
    /\ UNCHANGED <<readable, writable, data>>

-----------------------------------------------------------------------------
(* The work has been done and the event loop calls afterWork               *)

LastPart(t) == transform[t].made >= setting.expansion
LastOfAll(t) == transform[t].final >= setting.trailer

Filled(t, item) ==
    /\ pool' = [pool EXCEPT !.data[transform[t].output] = item]
    /\ stack' = <<Frame("push", t, transform[t].output), Frame("afterWork", t, NoBuffer)>>
Consumed(t) ==
    /\ stack' = <<Frame("afterWork", t, NoBuffer)>>
    /\ UNCHANGED pool

ProcessCompletes(t) ==
    /\ stack = <<>> /\ transform[t].state = "Processing"
    /\ IF setting.expansion = 0 THEN Consumed(t)
       ELSE Filled(t, (pool.data[transform[t].input] - 1) * setting.expansion
                      + transform[t].made + 1)
    /\ transform' = [transform EXCEPT ![t].made = @ + 1]
    /\ UNCHANGED <<readable, writable, data>>

FinalizeCompletes(t) ==
    /\ stack = <<>> /\ transform[t].state = "Finalizing"
    /\ IF setting.trailer = 0 THEN Consumed(t)
       ELSE Filled(t, setting.chunks * setting.expansion + transform[t].final + 1)
    /\ transform' = [transform EXCEPT ![t].final = @ + 1]
    /\ UNCHANGED <<readable, writable, data>>

AfterProcess ==
    /\ Running("afterWork") /\ T.state = "Processing"
    /\ pool' = Unref(pool, T.output)
    /\ IF LastPart(this)
       THEN /\ transform' = [transform EXCEPT ![this] = [state |-> "None", input |-> NoBuffer,
                                 output |-> NoBuffer, made |-> 0, final |-> T.final]]
            /\ Call(<<Frame("finishedWriting", this, T.input)>>)
       ELSE /\ Working("Paused", T.input, T.output)
            /\ Call(<<Frame("asyncWrite", this, T.input)>>)
    /\ UNCHANGED <<readable, writable, data>>

AfterFinalize ==
    /\ Running("afterWork") /\ T.state = "Finalizing"
    /\ pool' = Unref(pool, T.output)
    /\ IF LastOfAll(this)
       THEN Call(<<Do("pushEnd"), Do("finalized")>>) /\ UNCHANGED transform
       ELSE Working("Paused", T.input, T.output) /\ Call(<<Do("tryFinalize")>>)
    /\ UNCHANGED <<readable, writable, data>>

TryFinalizeAgain ==
    /\ Running("tryFinalize")
    /\ TryFinalize
    /\ UNCHANGED <<readable, writable, data>>

Finalized ==
    /\ Running("finalized")
    /\ Working("Finalized", T.input, T.output) /\ Return
    /\ UNCHANGED <<pool, readable, writable, data>>

\* AsyncDuplexStream::asyncRead, the base classes' asyncDestroyReadable and -Writable.
DuplexCalls ==
    /\ stack # <<>> /\ this \in Transforms
    /\ \/ Running("asyncRead") /\ Return
       \/ Running("asyncDestroyReadable") /\ Call(<<Do("finishedDestroyingReadable")>>)
       \/ Running("asyncDestroyWritable") /\ Call(<<Do("finishedDestroyingWritable")>>)
    /\ UNCHANGED <<pool, readable, writable, transform, data>>

TransformStep ==
    \/ AsyncWriteTransform \/ CanEndTransform \/ AfterProcess \/ AfterFinalize
    \/ TryFinalizeAgain \/ Finalized \/ DuplexCalls

WorkCompletes == \E t \in Transforms : ProcessCompletes(t) \/ FinalizeCompletes(t)
=============================================================================
