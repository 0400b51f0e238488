--------------------------- MODULE ReadableStream ---------------------------
(***************************************************************************)
(* SC::AsyncReadableStream (Libraries/AsyncStreams/AsyncStreams.cpp).      *)
(* Listeners of its events and the virtual methods asyncRead and           *)
(* asyncDestroyReadable are frames that other modules run.                 *)
(***************************************************************************)
EXTENDS Streams

others == <<setting, writable, request, transform, pipe, log>>

Becomes(state) == readable' = [readable EXCEPT ![this].state = state]
It == readable[this]

EmitOnData ==
    /\ Running("emitOnData")
    /\ IF It.queue = <<>>
       THEN Call(<<Do("maybeDestroyEnded")>>) /\ UNCHANGED readable
       ELSE /\ readable' = [readable EXCEPT ![this].queue = Tail(@)]
            /\ Call(<<Frame("eventData", this, Head(It.queue)),
                      Frame("afterData", this, Head(It.queue))>>)
    /\ UNCHANGED <<pool, others>>

AfterData ==
    /\ Running("afterData")
    /\ pool' = Unref(pool, arg)
    /\ LET stop == It.state = "Pausing" \/ (It.state = "Ended" /\ It.queue # <<>>)
       IN  Call(<<Do(IF stop THEN "maybeDestroyEnded" ELSE "emitOnData")>>)
    /\ UNCHANGED <<readable, others>>

\* A slip: a stream that was destroyed is destroyed again.
MaybeDestroyAgain ==
    /\ Running("maybeDestroyEnded")
    /\ Call(IF It.state = "Ended" /\ It.queue = <<>> THEN <<Do("destroyReadable")>> ELSE <<>>)
    /\ UNCHANGED <<readable, pool, others>>
MaybeDestroyEnded ==
    /\ Running("maybeDestroyEnded")
    /\ IF It.state = "Ended" /\ ~It.destroyed /\ It.queue = <<>>
       THEN Call(<<Do("destroyReadable")>>) ELSE Return
    /\ UNCHANGED <<readable, pool, others>>

Push ==
    /\ Running("push")
    /\ IF Len(It.queue) = setting.readQueue
       THEN /\ Becomes("Errored")
            /\ Call(<<Error(this, "pushDropsBuffer")>>)
            /\ UNCHANGED pool
       ELSE /\ readable' = [readable EXCEPT ![this].queue = Append(@, arg)]
            /\ pool' = Ref(pool, arg)
            /\ Call(CASE It.state \in {"SyncPushing", "Reading"} ->
                         <<Do("emitOnData"), Do("pushedSync")>>
                      [] It.state \in {"AsyncPushing", "AsyncReading"} ->
                         <<Do("emitOnData"), Do("pushedAsync")>>
                      [] It.state = "Pausing" -> <<Do("emitOnData")>>
                      [] OTHER -> <<Error(this, "pushInWrongState")>>)
    /\ UNCHANGED others

\* Whatever the listeners did to the state.
PushedSync ==
    /\ Running("pushedSync")
    /\ Becomes("SyncPushing") /\ Return
    /\ UNCHANGED <<pool, others>>

PushedAsync ==
    /\ Running("pushedAsync")
    /\ Becomes(IF It.state = "AsyncReading" THEN "AsyncPushing" ELSE It.state) /\ Return
    /\ UNCHANGED <<pool, others>>

\* What push returns, in the states in which it returns.
MayPush(s) == readable[s].state \in {"AsyncPushing", "SyncPushing"}

Unshift ==
    /\ Running("unshift")
    /\ IF Len(It.queue) = setting.readQueue
       THEN Call(<<Error(this, "unshiftFailed")>>) /\ UNCHANGED <<readable, pool>>
       ELSE /\ readable' = [readable EXCEPT ![this].queue = <<arg>> \o @]
            /\ pool' = Ref(pool, arg)
            /\ Return
    /\ UNCHANGED others

Reactivate ==
    /\ Running("reactivate")
    /\ CASE It.state = "SyncPushing"  -> Becomes("SyncReadMore") /\ Return
         [] It.state = "AsyncPushing" -> Call(<<Do("executeRead")>>) /\ UNCHANGED readable
         [] OTHER -> Call(<<Error(this, "reactivateInWrongState")>>) /\ UNCHANGED readable
    /\ UNCHANGED <<pool, others>>

Pause ==
    /\ Running("pause")
    /\ CASE It.state \in {"Reading", "AsyncReading", "SyncPushing", "AsyncPushing"} ->
            Becomes("Pausing") /\ Return
         [] It.state \in {"Pausing", "Ended"} -> Return /\ UNCHANGED readable
         [] OTHER -> Call(<<Error(this, "pauseInWrongState")>>) /\ UNCHANGED readable
    /\ UNCHANGED <<pool, others>>

ResumeReading ==
    /\ Running("resumeReading")
    /\ Call(CASE It.state \in {"Pausing", "CanRead"} -> <<Do("executeRead")>>
              [] It.state = "Ended" -> <<Do("emitOnData")>>
              [] It.state = "Errored" -> <<Error(this, "resumeInWrongState")>>
              [] OTHER -> <<>>)
    /\ UNCHANGED <<readable, pool, others>>

-----------------------------------------------------------------------------
ExecuteRead ==
    /\ Running("executeRead")
    /\ Becomes("Reading")
    /\ Call((IF It.queue = <<>> THEN <<>> ELSE <<Do("emitOnData")>>)
            \o <<Do("readLoop")>>)
    /\ UNCHANGED <<pool, others>>

ReadLoop ==
    /\ Running("readLoop")
    /\ IF It.state = "Reading"
       THEN Call(<<Do("asyncRead"), Do("afterAsyncRead")>>)
       ELSE Return
    /\ UNCHANGED <<readable, pool, others>>

AfterAsyncRead ==
    /\ Running("afterAsyncRead")
    /\ CASE It.state = "SyncReadMore" ->
            Becomes("Reading") /\ Call(<<Do("readLoop")>>)
         [] It.state = "Reading" -> Becomes("AsyncReading") /\ Return
         [] It.state = "SyncPushing" ->
            Becomes("Errored") /\ Call(<<Error(this, "forgotToReactivate")>>)
         [] OTHER -> Return /\ UNCHANGED readable
    /\ UNCHANGED <<pool, others>>

PushEnd ==
    /\ Running("pushEnd")
    /\ IF It.state \in {"Destroying", "Ended", "Errored"}
       THEN Call(<<Error(this, "pushEndInWrongState")>>) /\ UNCHANGED readable
       ELSE /\ Becomes("Ended")
            /\ Call(<<Do("eventEnd"), Do("maybeDestroyEnded")>>)
    /\ UNCHANGED <<pool, others>>

DestroyReadable ==
    /\ Running("destroyReadable")
    /\ pool' = UnrefAll(pool, It.queue)
    /\ IF It.state \in {"Destroying", "Errored"}
       THEN readable' = [readable EXCEPT ![this].queue = <<>>] /\ Return
       ELSE /\ readable' = [readable EXCEPT ![this].queue = <<>>, ![this].state = "Destroying"]
            /\ Call(<<Do("asyncDestroyReadable")>>)
    /\ UNCHANGED others

FinishedDestroyingReadable ==
    /\ Running("finishedDestroyingReadable")
    /\ readable' = [readable EXCEPT ![this].state = "Ended", ![this].destroyed = TRUE]
    /\ Call(<<Do("eventCloseReadable")>>)
    /\ UNCHANGED <<pool, others>>

ReadableStep ==
    \/ EmitOnData \/ AfterData \/ MaybeDestroyEnded \/ Push \/ PushedSync \/ PushedAsync
    \/ Unshift \/ Reactivate \/ Pause \/ ResumeReading \/ ExecuteRead \/ ReadLoop
    \/ AfterAsyncRead \/ PushEnd \/ DestroyReadable \/ FinishedDestroyingReadable
=============================================================================
