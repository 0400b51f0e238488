------------------------------ MODULE Pipeline ------------------------------
(***************************************************************************)
(* SC::AsyncPipeline (Libraries/AsyncStreams/AsyncStreams.cpp): one source *)
(* through a chain of transforms to one or more sinks, after pipe().  Its  *)
(* actions are the listeners it registers for the events of the streams,   *)
(* and the callback of the writes that it makes.                           *)
(***************************************************************************)
EXTENDS RequestStreams, TransformStream, FiniteSetsExt

streams == <<setting, readable, writable, request, transform>>

ChainLength == Len(setting.transforms)
UsedSinks == ToSet(setting.sinks)

\* dispatchReadable and transformInputs
DispatchReadable == IF ChainLength = 0 THEN Source ELSE Last(setting.transforms)
Position(t) == CHOOSE i \in 1 .. ChainLength : setting.transforms[i] = t
InputOf(w) ==
    IF w \in Sinks THEN DispatchReadable
    ELSE IF Position(w) = 1 THEN Source ELSE setting.transforms[Position(w) - 1]

\* The transform that comes after a readable that is not the last.
Following(r) == setting.transforms[IF r = Source THEN 1 ELSE Position(r) + 1]
WritablesOf(r) == IF r = DispatchReadable THEN setting.sinks ELSE <<Following(r)>>

Pending(slots) == {i \in DOMAIN slots : slots[i].buffer # NoBuffer}
HasPendingWrites == Pending(pipe.pending) # {}
\* A slip: data is dispatched although earlier data is pending.
NeverPending(r) == FALSE
HasPendingWritesFor(r) == \E i \in Pending(pipe.pending) : InputOf(pipe.pending[i].writable) = r

\* A slip: the sinks are ended although the source still has data for them.
NothingQueued == FALSE
SourceHasQueuedData == readable[Source].queue # <<>>

-----------------------------------------------------------------------------
(* Data                                                                    *)

\* dispatchToPipes and dispatchToTransform: after unpipe() nobody listens.
EventData ==
    /\ Running("eventData")
    /\ Call(IF ~pipe.piped THEN <<>>
            ELSE IF HasPendingWritesFor(this) THEN <<Do("pause"), Frame("unshift", this, arg)>>
            ELSE [i \in DOMAIN WritablesOf(this) |->
                     Frame("asyncWriteWritable", WritablesOf(this)[i], arg)])
    /\ UNCHANGED <<streams, pool, pipe, log>>

\* findPendingWrite: the slot of the same pair, or the first that is free.  There are as
\* many slots as there can be pairs.
SlotFor(w) ==
    LET own  == {i \in Pending(pipe.pending) : pipe.pending[i].writable = w}
        free == DOMAIN pipe.pending \ Pending(pipe.pending)
    IN  IF own # {} THEN Min(own) ELSE IF free # {} THEN Min(free) ELSE Len(pipe.pending) + 1

AsyncWriteWritable ==
    /\ Running("asyncWriteWritable")
    /\ pool' = Ref(pool, arg)
    /\ LET slot == [writable |-> this, buffer |-> arg]
           i    == SlotFor(this)
       IN CASE CanAcceptWrite(this) ->
               Call(<<Frame("write", this, arg)>>) /\ UNCHANGED pipe
            [] ~CanAcceptWrite(this) /\ i \in Pending(pipe.pending) ->
               Call(<<Abort("writeAlreadyPending")>>) /\ UNCHANGED pipe
            [] OTHER ->
               /\ pipe' = [pipe EXCEPT !.pending = IF i > Len(@) THEN Append(@, slot)
                                                                 ELSE [@ EXCEPT ![i] = slot]]
               /\ Call(IF HasPendingWritesFor(InputOf(this)) THEN <<>>
                       ELSE <<Frame("pause", InputOf(this), NoBuffer)>>)
    /\ UNCHANGED <<streams, log>>

AfterWrite ==
    /\ Running("afterWrite")
    /\ IF ~pipe.piped THEN Call(<<Abort("sourceIsNull")>>) /\ UNCHANGED pool
       ELSE /\ pool' = Unref(pool, arg)
            /\ Call(<<Frame("retryPendingWrites", this, 1), Do("afterRetry")>>)
    /\ UNCHANGED <<streams, pipe, log>>

\* The slot is cleared when write has returned.
RetryPendingWrites ==
    /\ Running("retryPendingWrites")
    /\ LET ready == {i \in Pending(pipe.pending) :
                         i >= arg /\ CanAcceptWrite(pipe.pending[i].writable)}
           slot  == pipe.pending[Min(ready)]
       IN Call(IF ready = {} THEN <<>>
               ELSE <<Frame("write", slot.writable, slot.buffer),
                      Frame("clearPendingWrite", this, Min(ready)),
                      Frame("retryPendingWrites", this, Min(ready) + 1)>>)
    /\ UNCHANGED <<streams, pool, pipe, log>>

ClearPendingWrite ==
    /\ Running("clearPendingWrite")
    /\ pipe' = [pipe EXCEPT !.pending[arg].buffer = NoBuffer]
    /\ Return
    /\ UNCHANGED <<streams, pool, log>>

AfterRetry ==
    /\ Running("afterRetry")
    /\ CASE HasPendingWrites -> Return /\ UNCHANGED pipe
         [] ~HasPendingWrites /\ pipe.shouldEndWhenDrained ->
            IF SourceHasQueuedData
            THEN Call(<<Frame("resumeReading", Source, NoBuffer)>>) /\ UNCHANGED pipe
            ELSE /\ pipe' = [pipe EXCEPT !.shouldEndWhenDrained = FALSE]
                 /\ Call(<<Frame("endPipes", Source, NoBuffer)>>)
         [] ~HasPendingWrites /\ ~pipe.shouldEndWhenDrained ->
            /\ Call([i \in 1 .. ChainLength |->
                         Frame("resumeTransform", setting.transforms[ChainLength + 1 - i], NoBuffer)]
                    \o <<Frame("resumeSource", Source, NoBuffer)>>)
            /\ UNCHANGED pipe
    /\ UNCHANGED <<streams, pool, log>>

\* unpipe() may have run since, and then `transforms` and `source` are null.
ResumeTransform ==
    /\ Running("resumeTransform")
    /\ Call(IF pipe.piped THEN <<Do("resumeWriting"), Do("resumeReading")>> ELSE <<>>)
    /\ UNCHANGED <<streams, pool, pipe, log>>

\* A slip: nothing resumes the source.
SourceForgotten == Running("resumeSource") /\ Return /\ UNCHANGED <<streams, pool, pipe, log>>
ResumeSource ==
    /\ Running("resumeSource")
    /\ Call(<<IF pipe.piped THEN Do("resumeReading") ELSE Abort("sourceIsNull")>>)
    /\ UNCHANGED <<streams, pool, pipe, log>>

-----------------------------------------------------------------------------
(* The end                                                                 *)

\* endPipes listens to the end and to the close of dispatchReadable, and the close of any
\* other readable ends the transform that it feeds.
EventEnd ==
    /\ Running("eventEnd")
    /\ Call(IF pipe.piped /\ this = DispatchReadable THEN <<Do("endPipes")>> ELSE <<>>)
    /\ UNCHANGED <<streams, pool, pipe, log>>

EventCloseReadable ==
    /\ Running("eventCloseReadable")
    /\ log' = [log EXCEPT !.closed[this] = @ + 1]
    /\ Call(IF ~pipe.piped THEN <<>>
            ELSE IF this = DispatchReadable THEN <<Do("endPipes")>>
            ELSE <<Frame("end", Following(this), NoBuffer)>>)
    /\ UNCHANGED <<streams, pool, pipe>>

EndPipes ==
    /\ Running("endPipes")
    /\ CASE pipe.endingPipes -> Return /\ UNCHANGED pipe
         [] ~pipe.endingPipes /\ (HasPendingWrites \/ (pipe.piped /\ SourceHasQueuedData)) ->
            /\ pipe' = [pipe EXCEPT !.shouldEndWhenDrained = TRUE]
            /\ Call(IF HasPendingWrites THEN <<>>
                    ELSE <<Frame("resumeReading", Source, NoBuffer)>>)
         [] OTHER ->
            LET busy == {k \in UsedSinks : IsStillWriting(k)} IN
            /\ pipe' = [pipe EXCEPT !.endingPipes = TRUE, !.finishing = @ \cup busy]
            /\ Call([i \in DOMAIN setting.sinks |-> Frame("end", setting.sinks[i], NoBuffer)]
                    \o IF busy = {} THEN <<Do("unpipe")>> ELSE <<>>)
    /\ UNCHANGED <<streams, pool, log>>

\* afterSinkEnd, of the sinks that endPipes found writing.
EventFinish ==
    /\ Running("eventFinish")
    /\ LET done == {k \in UsedSinks : ~IsStillWriting(k)} IN
       CASE this \notin pipe.finishing -> Return /\ UNCHANGED pipe
         [] this \in pipe.finishing /\ ~(done \subseteq pipe.finishing) ->
            Call(<<Abort("notAListener")>>) /\ UNCHANGED pipe
         [] this \in pipe.finishing /\ done \subseteq pipe.finishing ->
            /\ pipe' = [pipe EXCEPT !.finishing = @ \ done]
            /\ Call(IF done = UsedSinks THEN <<Do("unpipe")>> ELSE <<>>)
    /\ UNCHANGED <<streams, pool, log>>

EventCloseWritable ==
    /\ Running("eventCloseWritable")
    /\ log' = IF this \in Sinks THEN [log EXCEPT !.closed[this] = @ + 1] ELSE log
    /\ Return
    /\ UNCHANGED <<streams, pool, pipe>>

\* With a second transform, unpipe() removes a listener from `source` after it set it to null.
Unpipe ==
    /\ Running("unpipe")
    /\ LET held == [i \in DOMAIN pipe.pending |-> pipe.pending[i].buffer] IN
       IF ChainLength > 1
       THEN Call(<<Abort("unpipeSourceIsNull")>>) /\ UNCHANGED <<pool, pipe>>
       ELSE /\ pool' = UnrefAll(pool, held)
            /\ pipe' = [pipe EXCEPT !.piped = FALSE, !.pending = <<>>,
                            !.shouldEndWhenDrained = FALSE, !.endingPipes = FALSE]
            /\ Return
    /\ UNCHANGED <<streams, log>>

-----------------------------------------------------------------------------
(* Whole behaviours                                                        *)

\* start() resumes the transforms and then the source.
PipelineInit ==
    /\ Init
    /\ stack = [i \in 1 .. ChainLength |-> Frame("resumeReading", setting.transforms[i], NoBuffer)]
               \o <<Frame("resumeReading", Source, NoBuffer)>>

PipelineStep ==
    \/ EventData \/ AsyncWriteWritable \/ AfterWrite \/ RetryPendingWrites \/ ClearPendingWrite
    \/ AfterRetry \/ ResumeTransform \/ ResumeSource \/ EventEnd \/ EventCloseReadable
    \/ EndPipes \/ EventFinish \/ EventCloseWritable \/ Unpipe

\* What the user may call while the event loop waits, once each.
UserCalls(usage, s, call) ==
    /\ usage \in setting.usage \ log.asked /\ stack = <<>>
    /\ stack' = <<Frame(call, s, NoBuffer)>>
    /\ log' = [log EXCEPT !.asked = @ \cup {usage}]
    /\ UNCHANGED <<streams, pool, pipe>>

UserStep ==
    \/ ~readable[Source].destroyed /\ UserCalls("destroySource", Source, "destroyReadable")
    \/ readable[Source].destroyed /\ UserCalls("destroyClosed", Source, "destroyReadable")
    \/ \E k \in UsedSinks :
           \/ ~writable[k].destroyed /\ UserCalls("destroySink", k, "destroyWritable")
           \/ writable[k].destroyed /\ UserCalls("destroyClosed", k, "destroyWritable")

Calls == EmitError \/ ReadableStep \/ WritableStep \/ RequestStep \/ TransformStep \/ PipelineStep
Next == Calls \/ LoopStep \/ WorkCompletes \/ UserStep

\* The thread goes on, and the kernel and the worker threads finish what they were given.
Fairness ==
    /\ WF_vars(Calls)
    /\ WF_vars(ReadCompletes \/ ReadEnds)
    /\ \A s \in {Source} \cup Sinks : WF_vars(StopCompletes(s))
    /\ \A s \in Sinks : WF_vars(WriteDone(s))
    /\ \A t \in Transforms : WF_vars(ProcessCompletes(t) \/ FinalizeCompletes(t))

Spec == PipelineInit /\ [][Next]_vars /\ Fairness

-----------------------------------------------------------------------------
(* Properties                                                              *)

Count(q, b) == Cardinality({i \in DOMAIN q : q[i] = b})
InQueues(streamsOf, b) ==
    Cardinality(UNION {{s} \X {i \in DOMAIN streamsOf[s].queue : streamsOf[s].queue[i] = b} :
                       s \in DOMAIN streamsOf})

\* Who holds a reference to a buffer while the event loop waits: a read queue, the source
\* that reads into it, a transform that fills it, and the pipeline for each write it has
\* asked for, which in addition is in a queue or in the hands of a sink.
Holders(b) ==
    InQueues(readable, b) + 2 * InQueues(writable, b)
    + Cardinality({i \in Pending(pipe.pending) : pipe.pending[i].buffer = b})
    + Cardinality({s \in {Source} : request[s].buffer = b})
    + 2 * Cardinality({k \in Sinks : request[k].buffer = b})
    + Cardinality({t \in Transforms :
                       transform[t].state = "Processing" /\ transform[t].input = b})
    + Cardinality({t \in Transforms :
                       transform[t].state \in {"Processing", "Finalizing"} /\ transform[t].output = b})

\* AsyncBuffersPool: a buffer has a reference for each of its holders, so that none is
\* reused while somebody still reads or writes it.
NoneReused == stack = <<>> => \A b \in Buffers : pool.refs[b] >= Holders(b)

\* AsyncBuffersPool: the references of each buffer are exactly those of its holders: in
\* addition none is lost.  After destroy() of a sink, which calls none of its callbacks,
\* some are.
RefsExact ==
    /\ NoneReused
    /\ stack = <<>> /\ "destroySink" \notin log.asked =>
         \A b \in Buffers : pool.refs[b] <= Holders(b)

\* The items the sinks are to get, of what the source has.
Items ==
    IF ChainLength = 0 THEN setting.chunks
    ELSE setting.chunks * setting.expansion + setting.trailer

Broadcast == INSTANCE Broadcast WITH
    Receivers <- Sinks, used <- UsedSinks, items <- Items,
    received <- log.written, cut <- log.asked # {}, over <- ~pipe.piped

\* AsyncPipeline: every sink is written the data of the source, all of it and in order,
\* before the pipeline takes itself apart, unless the user destroyed one of its ends.
ImplementsBroadcast == Broadcast!Spec

\* No release assertion fails, no null pointer is used and no stream complains of a call
\* in a wrong state, whatever order reads, writes and transformations complete in, but
\* for the end of a second sink (see MCPipelineFanOut) and calls of a destroyed sink.
NoAssertionFails ==
    /\ Aborted => Len(setting.sinks) > 1 /\ message = "notAListener"
    /\ "destroySink" \notin log.asked => log.errors \subseteq {"readFailed", "writeFailed"}

\* eventClose: a stream closes at most once, in whatever order it ends, is destroyed and
\* finishes the request it waits for, unless destroy() is called when it has closed.
ClosedOnce ==
    "destroyClosed" \notin log.asked => \A s \in DOMAIN log.closed : log.closed[s] <= 1

\* AsyncPipeline: it comes to its end, also when the source is destroyed half-way: each
\* of a full queue, a pool without buffers and a pending write is resumed by somebody.  A
\* source whose read failed and a sink that was destroyed are left to the user.
PipelineEnds ==
    (setting.usage \cap {"readFails", "destroySink"} = {} \/ "destroySource" \in log.asked)
        ~> (Aborted \/ ~pipe.piped)
=============================================================================
