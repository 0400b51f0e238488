----------------------------- MODULE MCPipeline -----------------------------
(***************************************************************************)
(* The pipelines that are model-checked: their streams, the capacities of  *)
(* pool and queues, what the source has to read and what may go wrong.     *)
(***************************************************************************)
EXTENDS Pipeline

CONSTANTS src, t1, k1, k2

One == <<k1>>
Two == <<k1, k2>>

Straight(sinks, reader, buffers, readQueue, writeQueue, usage) == [
    transforms |-> <<>>, sinks |-> sinks, reader |-> reader,
    buffers |-> buffers, readQueue |-> readQueue, writeQueue |-> writeQueue,
    chunks |-> 4, expansion |-> 1, trailer |-> 0, usage |-> usage ]

Through(sinks, reader, buffers, writeQueue, chunks, expansion, trailer, usage) == [
    transforms |-> <<t1>>, sinks |-> sinks, reader |-> reader,
    buffers |-> buffers, readQueue |-> 1, writeQueue |-> writeQueue,
    chunks |-> chunks, expansion |-> expansion, trailer |-> trailer, usage |-> usage ]

\* From a source of each kind to one sink or two, with pools that are smaller than the
\* queues, as large, and larger.
Plain ==
    {Straight(k, "request", b, 1, wq, {}) : k \in {One, Two}, b \in 1 .. 5, wq \in 1 .. 2}
    \cup {Straight(k, "sync", b, rq, wq, u) :
            k \in {One, Two}, b \in 1 .. 5, rq \in 1 .. 2, wq \in 1 .. 2,
            u \in {{}, {"destroySource", "destroyClosed"}}}

\* Reads and writes that fail, streams that are destroyed half-way or a second time.
Failing ==
    {Straight(k, "request", b, 1, 1, u) : k \in {One, Two}, b \in 1 .. 3,
        u \in {{"readFails", "destroySource", "destroyClosed"},
               {"writeFails", "destroySource"}, {"writeFails", "destroySink"}}}

\* Transforms that consume, keep the size, expand, and add a trailer at the end.
Transformed ==
    {Through(k, "request", b, wq, 2, 1, f, u) :
        k \in {One, Two}, b \in 2 .. 3, wq \in 1 .. 2, f \in 0 .. 1,
        u \in {{}, {"writeFails"}, {"destroySink"}}}
    \cup {Through(One, "request", 2, 1, 2, 2, 2, {}), Through(One, "request", 5, 2, 3, 1, 1, {}),
          Through(Two, "request", 3, 1, 3, 0, 2, {}), Through(One, "sync", 4, 1, 2, 1, 1, {})}

AllSettings == Plain \cup Failing \cup Transformed

FanOutSettings == {Straight(Two, "request", 2, 1, 1, {})}
StuckSettings == {Through(One, "request", 4, 1, 3, 1, 0, {})}

\* AsyncStreams.md:107: a pipeline "supports at most eight transforms and eight sinks": its
\* end does not fail an assertion.
SinksEnd == ~Aborted
=============================================================================
