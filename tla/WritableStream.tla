--------------------------- MODULE WritableStream ---------------------------
(***************************************************************************)
(* SC::AsyncWritableStream (Libraries/AsyncStreams/AsyncStreams.cpp).      *)
(* asyncWrite, canEndWritable and asyncDestroyWritable are frames that     *)
(* other modules run.  The callback of every write is                      *)
(* AsyncPipeline::afterWrite.                                              *)
(***************************************************************************)
EXTENDS Streams

rest == <<setting, readable, request, transform, pipe, log>>

Turns(state) == writable' = [writable EXCEPT ![this].state = state]
W == writable[this]

\* What canEndWritable returns, once it has run.
CanEnd(s) == IF s \in Transforms THEN transform[s].state = "Finalized"
                                 ELSE request[s].state = "free"

\* A slip: a full queue is not seen.
CanAcceptAnyWrite(s) == writable[s].state \in {"Stopped", "Writing"}
CanAcceptWrite(s) ==
    /\ writable[s].state \in {"Stopped", "Writing"}
    /\ Len(writable[s].queue) < setting.writeQueue

IsStillWriting(s) == writable[s].state \in {"Writing", "Ending"}

\* The pipeline writes when canAcceptWrite holds, and then write refuses nothing.
Write ==
    /\ Running("write")
    /\ writable' = [writable EXCEPT ![this].queue = Append(@, arg)]
    /\ pool' = Ref(pool, arg)
    /\ Call(<<Do("resumeWriting")>>)
    /\ UNCHANGED rest

UnshiftWrite ==
    /\ Running("unshiftWrite")
    /\ pool' = Ref(pool, arg)
    /\ IF Len(W.queue) = setting.writeQueue
       THEN Call(<<Error(this, "writableUnshiftFailed")>>) /\ UNCHANGED writable
       ELSE /\ writable' = [writable EXCEPT ![this].queue = <<arg>> \o @, ![this].state = "Stopped"]
            /\ Return
    /\ UNCHANGED rest

ResumeWriting ==
    /\ Running("resumeWriting")
    /\ CASE W.state = "Stopped" /\ W.queue # <<>> ->
            /\ writable' = [writable EXCEPT ![this].queue = Tail(@), ![this].state = "Writing"]
            /\ Call(<<Frame("asyncWrite", this, Head(W.queue)), Frame("unref", this, Head(W.queue))>>)
         [] W.state = "Ending" ->
            Call(<<Do("canEndWritable"), Do("endQuietly")>>) /\ UNCHANGED writable
         [] W.state = "Destroying" ->
            Call(<<Error(this, "destroyAlreadyCalled")>>) /\ UNCHANGED writable
         [] OTHER -> Return /\ UNCHANGED writable
    /\ UNCHANGED <<pool, rest>>

\* resumeWriting does not emit eventFinish.
EndQuietly ==
    /\ Running("endQuietly")
    /\ IF CanEnd(this) THEN Turns("Ended") /\ Call(<<Do("destroyWritable")>>)
                       ELSE Return /\ UNCHANGED writable
    /\ UNCHANGED <<pool, rest>>

UnrefWritten ==
    /\ Running("unref")
    /\ pool' = Unref(pool, arg) /\ Return
    /\ UNCHANGED <<writable, rest>>

FinishedWriting ==
    /\ Running("finishedWriting")
    /\ LET then == <<Frame("afterWrite", this, arg), Do("afterCallback")>> IN
       CASE ~IsStillWriting(this) ->
            Call(<<Abort("finishedWritingNotWriting")>>) /\ UNCHANGED writable
         [] IsStillWriting(this) /\ W.queue # <<>> ->
            /\ writable' = [writable EXCEPT ![this].queue = Tail(@)]
            /\ Call(<<Frame("asyncWrite", this, Head(W.queue)), Frame("unref", this, Head(W.queue))>>
                    \o then)
         [] W.state = "Writing" /\ W.queue = <<>> -> Turns("Stopped") /\ Call(then)
         [] W.state = "Ending" /\ W.queue = <<>> ->
            Call(<<Do("canEndWritable"), Do("endIfPossible")>> \o then) /\ UNCHANGED writable
    /\ UNCHANGED <<pool, rest>>

EndIfPossible ==
    /\ Running("endIfPossible")
    /\ Turns(IF CanEnd(this) THEN "Ended" ELSE W.state) /\ Return
    /\ UNCHANGED <<pool, rest>>

\* The state is the one that the callback left.
AfterCallback ==
    /\ Running("afterCallback")
    /\ IF W.state = "Ended" THEN Call(<<Do("eventFinish"), Do("destroyWritable")>>) ELSE Return
    /\ UNCHANGED <<pool, writable, rest>>

End ==
    /\ Running("end")
    /\ CASE W.state = "Stopped" ->
            Call(<<Do("canEndWritable"), Do("endNow")>>) /\ UNCHANGED writable
         [] W.state = "Writing" -> Turns("Ending") /\ Return
         [] W.state \in {"Destroying", "Ending", "Ended"} ->
            Call(<<Error(this, "endAlreadyCalled")>>) /\ UNCHANGED writable
         [] OTHER -> Return /\ UNCHANGED writable
    /\ UNCHANGED <<pool, rest>>

EndNow ==
    /\ Running("endNow")
    /\ IF CanEnd(this)
       THEN Turns("Ended") /\ Call(<<Do("eventFinish"), Do("destroyWritable")>>)
       ELSE Turns("Ending") /\ Return
    /\ UNCHANGED <<pool, rest>>

DestroyWritable ==
    /\ Running("destroyWritable")
    /\ pool' = UnrefAll(pool, W.queue)
    /\ IF W.state \in {"Destroying", "Errored"}
       THEN writable' = [writable EXCEPT ![this].queue = <<>>] /\ Return
       ELSE /\ writable' = [writable EXCEPT ![this].queue = <<>>, ![this].state = "Destroying"]
            /\ Call(<<Do("asyncDestroyWritable")>>)
    /\ UNCHANGED rest

FinishedDestroyingWritable ==
    /\ Running("finishedDestroyingWritable")
    /\ writable' = [writable EXCEPT ![this].state = "Ended", ![this].destroyed = TRUE]
    /\ Call(<<Do("eventCloseWritable")>>)
    /\ UNCHANGED <<pool, rest>>

WritableStep ==
    \/ Write \/ UnshiftWrite \/ ResumeWriting \/ EndQuietly \/ UnrefWritten \/ FinishedWriting
    \/ EndIfPossible \/ AfterCallback \/ End \/ EndNow \/ DestroyWritable
    \/ FinishedDestroyingWritable
=============================================================================
