--------------------------- MODULE PipelineProofs ---------------------------
(***************************************************************************)
(* That the state of a pipeline is well-formed and that every buffer has a *)
(* reference for each of its holders, whatever the streams, their queues,  *)
(* the pool and what fails.                                                *)
(***************************************************************************)
EXTENDS Pipeline, FiniteSetTheorems, SequenceTheorems, WellFoundedInduction, TLAPS

-----------------------------------------------------------------------------
(* The inductive invariant                                                 *)

\* The streams of a pipeline.
UsedTransforms(s) == {s.transforms[i] : i \in DOMAIN s.transforms}
UsedReadables(s) == {Source} \cup UsedTransforms(s)
UsedWritables(s) == UsedTransforms(s) \cup {s.sinks[i] : i \in DOMAIN s.sinks}

BuffersOf(s) == 1 .. s.buffers

\* The buffers that have been filled once.
Full(s, p) == {b \in BuffersOf(s) : p.data[b] >= 1}

Pools(s) == [refs : [BuffersOf(s) -> Int], data : [BuffersOf(s) -> Nat]]

ReadablesOver(full) ==
    [Readables -> [state : ReadableStates, destroyed : BOOLEAN, queue : Seq(full)]]
WritablesOver(full) ==
    [Writables -> [state : WritableStates, destroyed : BOOLEAN, queue : Seq(full)]]
Requests(s) ==
    [{Source} \cup Sinks -> [state : {"free", "active", "stopping"},
                             buffer : BuffersOf(s) \cup {NoBuffer}]]
TransformsOver(s) ==
    [Transforms -> [state : TransformStates, input : BuffersOf(s) \cup {NoBuffer},
                    output : BuffersOf(s) \cup {NoBuffer}, made : Nat, final : Nat]]
Slots(s, full) == [writable : UsedWritables(s), buffer : full \cup {NoBuffer}]
Pipes(s, full) ==
    [piped : BOOLEAN, pending : Seq(Slots(s, full)), shouldEndWhenDrained : BOOLEAN,
     endingPipes : BOOLEAN, finishing : SUBSET Sinks]
Logs(s) ==
    [read : Nat, written : [Sinks -> Seq(Nat)], closed : [Readables \cup Sinks -> Nat],
     errors : SUBSET ErrorMessages, asked : SUBSET s.usage]

\* A request under way and a transform at work have the buffers that they need.
RequestsReady(s, full, q) ==
    /\ q[Source].state = "active" => q[Source].buffer # NoBuffer
    /\ \A k \in Sinks : /\ q[k].state = "active" => q[k].buffer # NoBuffer
                        /\ q[k].buffer \in full \cup {NoBuffer}
                        /\ q[k].state # "free" => k \in UsedWritables(s)
TransformsReady(s, full, t) ==
    \A x \in Transforms :
        /\ t[x].state # "None" => x \in UsedTransforms(s)
        /\ t[x].state = "Processing" => t[x].input \in full
        /\ t[x].state \in {"Processing", "Finalizing"} => t[x].output # NoBuffer

WithinQueues(s, r, w) ==
    /\ \A x \in Readables : Len(r[x].queue) <= s.readQueue
    /\ \A x \in Writables : Len(w[x].queue) <= s.writeQueue

\* Frames: the methods of readable and of writable streams, and those of them that are
\* given a buffer.
ReadableCalls == {"emitOnData", "eventData", "afterData", "maybeDestroyEnded", "push",
    "pushedSync", "pushedAsync", "unshift", "reactivate", "pause", "resumeReading",
    "executeRead", "readLoop", "asyncRead", "afterAsyncRead", "pushEnd", "eventEnd",
    "destroyReadable", "asyncDestroyReadable", "finishedDestroyingReadable",
    "eventCloseReadable", "afterSyncPush", "afterPush"}
WritableCalls == {"asyncWriteWritable", "write", "unshiftWrite", "resumeWriting", "endQuietly",
    "asyncWrite", "unref", "canEndWritable", "finishedWriting", "endIfPossible", "afterWrite",
    "afterRetry", "afterCallback", "end", "endNow", "eventFinish", "destroyWritable",
    "asyncDestroyWritable", "finishedDestroyingWritable", "eventCloseWritable",
    "retryPendingWrites", "clearPendingWrite"}
TransformCalls == {"resumeTransform", "afterWork", "tryFinalize", "finalized", "unshiftWrite"}
SourceCalls == {"afterSyncPush", "afterPush", "resumeSource"}
BufferCalls == {"eventData", "afterData", "push", "unshift", "afterSyncPush",
    "asyncWriteWritable", "write", "unshiftWrite", "asyncWrite", "unref", "finishedWriting",
    "afterWrite"}
\* What write() may call, and what that calls.
WriteCalls == {"write", "resumeWriting", "asyncWrite", "unref", "canEndWritable", "endQuietly",
    "destroyWritable", "asyncDestroyWritable", "finishedDestroyingWritable",
    "eventCloseWritable", "pause", "unshiftWrite", "eventError", "abort"}
\* The calls that give back a reference to their buffer when they end, or pass it on.
HoldingCalls == {"afterData", "afterSyncPush", "write", "asyncWrite", "unshiftWrite", "unref",
    "finishedWriting", "afterWrite"}

CallNames ==
    ReadableCalls \cup WritableCalls \cup TransformCalls \cup SourceCalls
    \cup {"endPipes", "unpipe", "afterWork"}
Assertions == {"asyncReadRequestInUse", "afterReadRequestInUse", "asyncWriteCallbackLeft",
    "finishedWritingNotWriting", "writeAlreadyPending", "sourceIsNull", "notAListener",
    "unpipeSourceIsNull"}

Frames ==
    [call : CallNames, of : Readables \cup Writables, arg : Nat]
    \cup [call : {"eventError"}, of : Readables \cup Writables, what : ErrorMessages]
    \cup [call : {"abort"}, of : Readables \cup Writables, what : Assertions]

FrameOK(s, full, f) ==
    /\ f.call \in ReadableCalls => f.of \in UsedReadables(s)
    /\ f.call \in WritableCalls => f.of \in UsedWritables(s)
    /\ f.call \in TransformCalls => f.of \in UsedTransforms(s)
    /\ f.call \in SourceCalls => f.of = Source
    /\ f.call \in BufferCalls => f.arg \in full

StackOK(s, full, st) ==
    /\ st \in Seq(Frames)
    /\ \A i \in DOMAIN st :
           /\ FrameOK(s, full, st[i])
           /\ st[i].call = "afterWork" => i = Len(st)
           /\ st[i].call = "clearPendingWrite" => \A j \in 1 .. i - 1 : st[j].call \in WriteCalls

TypesInv ==
    LET full == Full(setting, pool) IN
    /\ setting \in Settings
    /\ pool \in Pools(setting)
    /\ readable \in ReadablesOver(full) /\ writable \in WritablesOver(full)
    /\ WithinQueues(setting, readable, writable)
    /\ request \in Requests(setting) /\ RequestsReady(setting, full, request)
    /\ transform \in TransformsOver(setting) /\ TransformsReady(setting, full, transform)
    /\ pipe \in Pipes(setting, full)
    /\ log \in Logs(setting)

\* write() runs as soon as it was called.
NoWrite(st) == \A i \in DOMAIN st : st[i].call # "write"
WriteOnTop(st) == \A i \in DOMAIN st : st[i].call = "write" => i = 1

StackInv ==
    /\ StackOK(setting, Full(setting, pool), stack)
    /\ WriteOnTop(stack)
    /\ Running("write") => CanAcceptWrite(this)

-----------------------------------------------------------------------------
\* The holders of a buffer at any moment.  While write() runs, the slot of the pending
\* write is not cleared yet, and a transform that was finalized has given back its output.
Clearing(st) == {st[i].arg : i \in {j \in DOMAIN st : st[j].call = "clearPendingWrite"}}
Finalizers(st) == {st[i].of : i \in {j \in DOMAIN st : st[j].call = "finalized"}}

HeldByFrames(st, b) ==
    Cardinality({i \in DOMAIN st : st[i].call \in HoldingCalls /\ st[i].arg = b})
HeldByPending(slots, clearing, b) ==
    Cardinality({i \in DOMAIN slots : i \notin clearing /\ slots[i].buffer = b})
HeldBySinks(q, b) == Cardinality({k \in Sinks : q[k].buffer = b})
HeldAsInput(t, b) == Cardinality({x \in Transforms : t[x].state = "Processing" /\ t[x].input = b})
HeldAsOutput(t, finalizers, b) ==
    Cardinality({x \in Transforms : /\ x \notin finalizers
                                    /\ t[x].state \in {"Processing", "Finalizing"}
                                    /\ t[x].output = b})
Is(x, b) == IF x = b THEN 1 ELSE 0

Held(r, w, q, t, slots, st, b) ==
    (InQueues(r, b) + 2 * InQueues(w, b))
    + (Is(q[Source].buffer, b) + 2 * HeldBySinks(q, b))
    + (HeldAsInput(t, b) + HeldAsOutput(t, Finalizers(st), b))
    + HeldByPending(slots, Clearing(st), b) + HeldByFrames(st, b)

RefsInv ==
    \A b \in BuffersOf(setting) :
        pool.refs[b] >= Held(readable, writable, request, transform, pipe.pending, stack, b)

IInv == TypesInv /\ StackInv /\ RefsInv

-----------------------------------------------------------------------------
(* Counting                                                                *)

\* The positions of a sequence that hold a member of a set.
Where(q, S) == {i \in DOMAIN q : q[i] \in S}
HowMany(q, S) == Cardinality(Where(q, S))

LEMMA WhereFinite ==
    ASSUME NEW X, NEW q \in Seq(X), NEW S
    PROVE  IsFiniteSet(Where(q, S)) /\ HowMany(q, S) \in Nat
  <1>1. DOMAIN q = 1 .. Len(q) /\ Len(q) \in Nat
    BY LenProperties
  <1>2. IsFiniteSet(1 .. Len(q))
    BY <1>1, FS_Interval
  <1>3. Where(q, S) \in SUBSET (1 .. Len(q))
    BY <1>1 DEF Where
  <1> QED BY <1>2, <1>3, FS_Subset, FS_CardinalityType DEF HowMany

\* Positions that all move by the same distance are as many.
LEMMA Shifted ==
    ASSUME NEW A \in SUBSET Nat, IsFiniteSet(A), NEW n \in Nat
    PROVE  /\ IsFiniteSet({i + n : i \in A})
           /\ Cardinality({i + n : i \in A}) = Cardinality(A)
  <1> DEFINE f == [i \in A |-> i + n]
  <1>1. f \in Bijection(A, {i + n : i \in A})
    BY DEF Bijection, Injection, Surjection, IsInjective
  <1>2. ExistsBijection(A, {i + n : i \in A})
    BY <1>1 DEF ExistsBijection
  <1> QED BY <1>2, FS_Bijection

LEMMA HowManyPrefix ==
    ASSUME NEW X, NEW p \in Seq(X), NEW q \in Seq(X), NEW S, Where(p, S) = {}
    PROVE  HowMany(p \o q, S) = HowMany(q, S)
  <1>1. /\ Len(p) \in Nat /\ DOMAIN p = 1 .. Len(p)
        /\ Len(q) \in Nat /\ DOMAIN q = 1 .. Len(q)
        /\ p \o q \in Seq(X) /\ Len(p \o q) = Len(p) + Len(q)
        /\ DOMAIN (p \o q) = 1 .. Len(p) + Len(q)
        /\ \A i \in 1 .. Len(p) + Len(q) :
               (p \o q)[i] = IF i <= Len(p) THEN p[i] ELSE q[i - Len(p)]
    BY ConcatProperties, LenProperties
  <1>2. Where(p \o q, S) = {i + Len(p) : i \in Where(q, S)}
    <2>1. ASSUME NEW i \in Where(p \o q, S) PROVE i \in {k + Len(p) : k \in Where(q, S)}
      <3>1. i > Len(p) /\ i - Len(p) \in 1 .. Len(q) /\ (p \o q)[i] = q[i - Len(p)]
        BY <1>1 DEF Where
      <3>2. i - Len(p) \in Where(q, S) /\ i = (i - Len(p)) + Len(p)
        BY <1>1, <3>1 DEF Where
      <3> QED BY <3>2
    <2>2. ASSUME NEW k \in Where(q, S) PROVE k + Len(p) \in Where(p \o q, S)
      <3>1. k \in 1 .. Len(q) /\ q[k] \in S
        BY <1>1 DEF Where
      <3>2. /\ k + Len(p) \in 1 .. Len(p) + Len(q) /\ ~(k + Len(p) <= Len(p))
            /\ (k + Len(p)) - Len(p) = k
        BY <1>1, <3>1
      <3>3. (p \o q)[k + Len(p)] = q[k]
        BY <1>1, <3>2
      <3> QED BY <1>1, <3>1, <3>2, <3>3 DEF Where
    <2> QED BY <2>1, <2>2
  <1>3. Where(q, S) \in SUBSET Nat
    BY <1>1 DEF Where
  <1>4. IsFiniteSet(Where(q, S))
    BY WhereFinite
  <1> QED BY <1>1, <1>2, <1>3, <1>4, Shifted DEF HowMany

LEMMA HowManyFirst ==
    ASSUME NEW X, NEW x \in X, NEW q \in Seq(X), NEW S
    PROVE  HowMany(<<x>> \o q, S) = HowMany(q, S) + (IF x \in S THEN 1 ELSE 0)
  <1>1. /\ Len(q) \in Nat /\ DOMAIN q = 1 .. Len(q)
        /\ <<x>> \in Seq(X) /\ Len(<<x>>) = 1 /\ <<x>>[1] = x
    BY LenProperties
  <1>2. /\ DOMAIN (<<x>> \o q) = 1 .. 1 + Len(q)
        /\ \A i \in 1 .. 1 + Len(q) : (<<x>> \o q)[i] = IF i <= 1 THEN x ELSE q[i - 1]
    <2>1. /\ <<x>> \o q \in Seq(X) /\ Len(<<x>> \o q) = 1 + Len(q)
          /\ \A i \in 1 .. 1 + Len(q) : (<<x>> \o q)[i] = IF i <= 1 THEN <<x>>[i] ELSE q[i - 1]
      BY <1>1, ConcatProperties
    <2> QED BY <1>1, <2>1, LenProperties
  <1> DEFINE later == {i + 1 : i \in Where(q, S)}
  <1>0. Where(q, S) \in SUBSET Nat /\ 1 \notin later
    BY <1>1 DEF Where
  <1>10. IsFiniteSet(Where(q, S)) /\ HowMany(q, S) \in Nat
    BY WhereFinite
  <1>3. Where(q, S) \in SUBSET Nat /\ IsFiniteSet(Where(q, S)) /\ 1 \notin later
    BY <1>0, <1>10
  <1>4. IsFiniteSet(later) /\ Cardinality(later) = HowMany(q, S)
    BY <1>3, Shifted DEF HowMany
  <1>5. ASSUME NEW i \in 2 .. 1 + Len(q)
        PROVE  (<<x>> \o q)[i] \in S <=> i \in later
    <2>1. i - 1 \in 1 .. Len(q) /\ (<<x>> \o q)[i] = q[i - 1] /\ i = (i - 1) + 1
      BY <1>1, <1>2
    <2>2. (<<x>> \o q)[i] \in S => i \in later
      BY <1>1, <2>1 DEF Where
    <2>3. ASSUME NEW k \in Where(q, S), i = k + 1 PROVE (<<x>> \o q)[i] \in S
      <3>1. k = i - 1
        BY <1>1, <2>3 DEF Where
      <3> QED BY <2>1, <3>1 DEF Where
    <2> QED BY <2>2, <2>3
  <1>6. \A i \in later : i \in 2 .. 1 + Len(q)
    BY <1>1 DEF Where
  <1>7. (<<x>> \o q)[1] = x /\ 1 \in DOMAIN (<<x>> \o q)
    BY <1>1, <1>2
  <1>8. CASE x \in S
    <2>1. Where(<<x>> \o q, S) = later \cup {1}
      <3>1. ASSUME NEW i \in Where(<<x>> \o q, S) PROVE i \in later \cup {1}
        <4>1. i = 1 \/ i \in 2 .. 1 + Len(q)
          BY <1>1, <1>2 DEF Where
        <4> QED BY <4>1, <1>5 DEF Where
      <3>2. later \subseteq Where(<<x>> \o q, S)
        BY <1>1, <1>2, <1>5, <1>6 DEF Where
      <3> QED BY <3>1, <3>2, <1>7, <1>8 DEF Where
    <2> HIDE DEF later
    <2>2. Cardinality(later \cup {1}) = Cardinality(later) + 1
      BY <1>3, <1>4, FS_AddElement
    <2> QED BY <2>1, <2>2, <1>4, <1>8 DEF HowMany
  <1>9. CASE x \notin S
    <2>1. Where(<<x>> \o q, S) = later
      <3>1. ASSUME NEW i \in Where(<<x>> \o q, S) PROVE i \in later
        <4>1. i = 1 \/ i \in 2 .. 1 + Len(q)
          BY <1>1, <1>2 DEF Where
        <4> QED BY <4>1, <1>5, <1>7, <1>9 DEF Where
      <3>2. later \subseteq Where(<<x>> \o q, S)
        BY <1>1, <1>2, <1>5, <1>6 DEF Where
      <3> QED BY <3>1, <3>2
    <2> HIDE DEF later
    <2> QED BY <2>1, <1>10, <1>4, <1>9 DEF HowMany
  <1> QED BY <1>8, <1>9

LEMMA HowManyConcat ==
    ASSUME NEW X, NEW p \in Seq(X), NEW q \in Seq(X), NEW S
    PROVE  HowMany(p \o q, S) = HowMany(p, S) + HowMany(q, S)
  <1>1. /\ Len(p) \in Nat /\ DOMAIN p = 1 .. Len(p)
        /\ Len(q) \in Nat /\ DOMAIN q = 1 .. Len(q)
        /\ p \o q \in Seq(X) /\ Len(p \o q) = Len(p) + Len(q)
        /\ DOMAIN (p \o q) = 1 .. Len(p) + Len(q)
        /\ \A i \in 1 .. Len(p) + Len(q) :
               (p \o q)[i] = IF i <= Len(p) THEN p[i] ELSE q[i - Len(p)]
    BY ConcatProperties, LenProperties
  <1> DEFINE later == {i + Len(p) : i \in Where(q, S)}
  <1>2. Where(p \o q, S) = Where(p, S) \cup later
    <2>1. ASSUME NEW i \in Where(p \o q, S), i > Len(p) PROVE i \in later
      <3>1. i - Len(p) \in 1 .. Len(q) /\ (p \o q)[i] = q[i - Len(p)]
        BY <1>1, <2>1 DEF Where
      <3>2. i - Len(p) \in Where(q, S) /\ i = (i - Len(p)) + Len(p)
        BY <1>1, <2>1, <3>1 DEF Where
      <3> QED BY <3>2
    <2>2. ASSUME NEW i \in Where(p \o q, S), ~(i > Len(p)) PROVE i \in Where(p, S)
      <3>1. i \in 1 .. Len(p) + Len(q) /\ (p \o q)[i] \in S
        BY <1>1 DEF Where
      <3>2. i \in 1 .. Len(p) /\ (p \o q)[i] = p[i]
        BY <1>1, <2>2, <3>1
      <3> QED BY <1>1, <3>1, <3>2 DEF Where
    <2>3. ASSUME NEW i \in Where(p, S) PROVE i \in Where(p \o q, S)
      <3>1. i \in 1 .. Len(p) /\ p[i] \in S
        BY <1>1 DEF Where
      <3>2. i \in 1 .. Len(p) + Len(q) /\ (p \o q)[i] = p[i]
        BY <1>1, <3>1
      <3> QED BY <1>1, <3>1, <3>2 DEF Where
    <2>4. ASSUME NEW k \in Where(q, S) PROVE k + Len(p) \in Where(p \o q, S)
      <3>1. k \in 1 .. Len(q) /\ q[k] \in S
        BY <1>1 DEF Where
      <3>2. /\ k + Len(p) \in 1 .. Len(p) + Len(q) /\ ~(k + Len(p) <= Len(p))
            /\ (k + Len(p)) - Len(p) = k
        BY <1>1, <3>1
      <3>3. (p \o q)[k + Len(p)] = q[k]
        BY <1>1, <3>2
      <3> QED BY <1>1, <3>1, <3>2, <3>3 DEF Where
    <2> QED BY <2>1, <2>2, <2>3, <2>4
  <1>3. Where(q, S) \in SUBSET Nat /\ Where(p, S) \cap later = {}
    BY <1>1 DEF Where
  <1>4. /\ IsFiniteSet(Where(q, S)) /\ IsFiniteSet(Where(p, S))
        /\ HowMany(q, S) \in Nat /\ HowMany(p, S) \in Nat
    BY WhereFinite
  <1>5. IsFiniteSet(later) /\ Cardinality(later) = HowMany(q, S)
    BY <1>1, <1>3, <1>4, Shifted DEF HowMany
  <1> HIDE DEF later
  <1>6. Cardinality(Where(p, S) \cup later)
        = Cardinality(Where(p, S)) + Cardinality(later) - Cardinality(Where(p, S) \cap later)
    BY <1>4, <1>5, FS_Union
  <1>7. Cardinality(Where(p, S) \cap later) = 0
    BY <1>3, FS_EmptySet
  <1> QED BY <1>2, <1>4, <1>5, <1>6, <1>7 DEF HowMany

LEMMA ConsOfTail ==
    ASSUME NEW X, NEW q \in Seq(X), q # <<>>
    PROVE  q = <<Head(q)>> \o Tail(q) /\ Head(q) \in X /\ Tail(q) \in Seq(X)
  <1>1. /\ Head(q) \in X /\ Tail(q) \in Seq(X) /\ Len(Tail(q)) = Len(q) - 1
        /\ \A i \in 1 .. Len(Tail(q)) : Tail(q)[i] = q[i + 1]
    BY HeadTailProperties
  <1>2. Len(q) \in Nat \ {0} /\ Head(q) = q[1]
    BY EmptySeq
  <1>3. /\ <<Head(q)>> \o Tail(q) \in Seq(X) /\ Len(<<Head(q)>> \o Tail(q)) = Len(q)
        /\ \A i \in 1 .. Len(q) :
               (<<Head(q)>> \o Tail(q))[i] = IF i <= 1 THEN Head(q) ELSE Tail(q)[i - 1]
    <2>1. <<Head(q)>> \in Seq(X) /\ Len(<<Head(q)>>) = 1 /\ <<Head(q)>>[1] = Head(q)
      BY <1>1
    <2>2. /\ <<Head(q)>> \o Tail(q) \in Seq(X)
          /\ Len(<<Head(q)>> \o Tail(q)) = 1 + (Len(q) - 1)
          /\ \A i \in 1 .. 1 + (Len(q) - 1) :
               (<<Head(q)>> \o Tail(q))[i] = IF i <= 1 THEN <<Head(q)>>[i] ELSE Tail(q)[i - 1]
      BY <1>1, <2>1, ConcatProperties
    <2> QED BY <1>2, <2>1, <2>2
  <1>4. \A i \in 1 .. Len(q) : q[i] = (<<Head(q)>> \o Tail(q))[i]
    BY <1>1, <1>2, <1>3
  <1> QED BY <1>1, <1>3, <1>4, SeqEqual

LEMMA HowManyTail ==
    ASSUME NEW X, NEW q \in Seq(X), q # <<>>, NEW S
    PROVE  HowMany(q, S) = HowMany(Tail(q), S) + (IF Head(q) \in S THEN 1 ELSE 0)
  <1>1. q = <<Head(q)>> \o Tail(q)
    BY ConsOfTail
  <1>3. Head(q) \in X /\ Tail(q) \in Seq(X)
    BY ConsOfTail
  <1>2. \A x \in X : \A t \in Seq(X) :
           HowMany(<<x>> \o t, S) = HowMany(t, S) + (IF x \in S THEN 1 ELSE 0)
    BY HowManyFirst
  <1>4. HowMany(<<Head(q)>> \o Tail(q), S)
        = HowMany(Tail(q), S) + (IF Head(q) \in S THEN 1 ELSE 0)
    BY <1>2, <1>3, Zenon
  <1> QED BY <1>1, <1>4, Zenon

LEMMA HowManyAppend ==
    ASSUME NEW X, NEW q \in Seq(X), NEW x \in X, NEW S
    PROVE  HowMany(Append(q, x), S) = HowMany(q, S) + (IF x \in S THEN 1 ELSE 0)
  <1>1. /\ Len(q) \in Nat /\ DOMAIN q = 1 .. Len(q)
        /\ Append(q, x) \in Seq(X) /\ Len(Append(q, x)) = Len(q) + 1
        /\ DOMAIN Append(q, x) = 1 .. Len(q) + 1
        /\ \A i \in 1 .. Len(q) : Append(q, x)[i] = q[i]
        /\ Append(q, x)[Len(q) + 1] = x
    BY AppendProperties, LenProperties
  <1>2. IsFiniteSet(Where(q, S)) /\ HowMany(q, S) \in Nat
    BY WhereFinite
  <1>5. Len(q) + 1 \notin Where(q, S)
    BY <1>1 DEF Where
  <1>3. CASE x \in S
    <2>1. Where(Append(q, x), S) = Where(q, S) \cup {Len(q) + 1}
      BY <1>1, <1>3 DEF Where
    <2> QED BY <2>1, <1>2, <1>5, <1>3, FS_AddElement DEF HowMany
  <1>4. CASE x \notin S
    <2>1. Where(Append(q, x), S) = Where(q, S)
      BY <1>1, <1>4 DEF Where
    <2> QED BY <2>1, <1>2, <1>4 DEF HowMany
  <1> QED BY <1>3, <1>4

\* Sets that differ in one member at most.
LEMMA OneMember ==
    ASSUME NEW A, NEW B, NEW x, IsFiniteSet(A), A \ {x} = B \ {x}
    PROVE  /\ IsFiniteSet(B) /\ Cardinality(A) \in Nat /\ Cardinality(B) \in Nat
           /\ Cardinality(B) = Cardinality(A) - (IF x \in A THEN 1 ELSE 0)
                                              + (IF x \in B THEN 1 ELSE 0)
  <1>1. IsFiniteSet(A \ {x})
    BY FS_RemoveElement
  <1>2. Cardinality(A \ {x}) = IF x \in A THEN Cardinality(A) - 1 ELSE Cardinality(A)
    BY FS_RemoveElement
  <1>3. B = A \ {x} \/ B = (A \ {x}) \cup {x}
    OBVIOUS
  <1>4. /\ IsFiniteSet(B)
        /\ Cardinality(B) = Cardinality(A \ {x}) + (IF x \in B THEN 1 ELSE 0)
    <2>1. CASE x \in B
      BY <1>1, <1>3, <2>1, FS_AddElement
    <2>2. CASE x \notin B
      <3>1. B = A \ {x}
        BY <1>3, <2>2
      <3>2. Cardinality(B) \in Nat
        BY <1>1, <3>1, FS_CardinalityType
      <3> QED BY <1>1, <2>2, <3>1, <3>2
    <2> QED BY <2>1, <2>2
  <1>5. Cardinality(A) \in Nat /\ Cardinality(B) \in Nat
    BY <1>4, FS_CardinalityType
  <1> QED BY <1>2, <1>4, <1>5

LEMMA CountIsHowMany ==
    ASSUME NEW X, NEW q \in Seq(X), NEW b
    PROVE  Count(q, b) = HowMany(q, {b}) /\ Count(q, b) \in Nat
  <1>1. {i \in DOMAIN q : q[i] = b} = Where(q, {b})
    BY DEF Where
  <1> QED BY <1>1, WhereFinite DEF Count, HowMany

\* What a change of one queue does to the number of places where a buffer is queued.
Places(f, x, b) == {x} \X {i \in DOMAIN f[x].queue : f[x].queue[i] = b}

PlacesIn(f, D, b) == UNION {Places(f, x, b) : x \in D}

LEMMA PlacesCount ==
    ASSUME NEW X, NEW f, NEW x, f[x].queue \in Seq(X), NEW b
    PROVE  /\ IsFiniteSet(Places(f, x, b))
           /\ Cardinality(Places(f, x, b)) = Count(f[x].queue, b)
  <1> DEFINE at == {i \in DOMAIN f[x].queue : f[x].queue[i] = b}
  <1>1. at = Where(f[x].queue, {b})
    BY DEF Where
  <1>2. IsFiniteSet(at) /\ Cardinality(at) = Count(f[x].queue, b) /\ Count(f[x].queue, b) \in Nat
    BY <1>1, WhereFinite, CountIsHowMany DEF Count
  <1>3. IsFiniteSet({x}) /\ Cardinality({x}) = 1
    BY FS_Singleton
  <1> HIDE DEF at
  <1>4. IsFiniteSet({x} \X at) /\ Cardinality({x} \X at) = Cardinality({x}) * Cardinality(at)
    BY <1>2, <1>3, FS_Product
  <1>5. Cardinality({x} \X at) = Count(f[x].queue, b)
    BY <1>2, <1>3, <1>4
  <1> QED BY <1>4, <1>5 DEF Places, at

LEMMA PlacesFinite ==
    ASSUME NEW D, IsFiniteSet(D), NEW X, NEW f, \A x \in D : f[x].queue \in Seq(X), NEW b
    PROVE  IsFiniteSet(PlacesIn(f, D, b))
  <1> DEFINE P == [x \in D |-> Places(f, x, b)]
  <1>1. P \in Surjection(D, {Places(f, x, b) : x \in D})
    BY DEF Surjection
  <1>2. IsFiniteSet({Places(f, x, b) : x \in D})
    BY <1>1, FS_Surjection
  <1>3. \A A \in {Places(f, x, b) : x \in D} : IsFiniteSet(A)
    BY PlacesCount
  <1> QED BY <1>2, <1>3, FS_UNION DEF PlacesIn

LEMMA InQueuesIs ==
    ASSUME NEW f, NEW D, DOMAIN f = D, NEW b
    PROVE  InQueues(f, b) = Cardinality(PlacesIn(f, D, b))
  BY DEF InQueues, PlacesIn, Places

HasQueues(f, D, X) == DOMAIN f = D /\ \A x \in D : f[x].queue \in Seq(X)

LEMMA OneQueue ==
    ASSUME NEW D, IsFiniteSet(D), NEW X, NEW f, NEW g, HasQueues(f, D, X), HasQueues(g, D, X),
           NEW s \in D, \A x \in D \ {s} : g[x].queue = f[x].queue, NEW b
    PROVE  /\ InQueues(f, b) \in Nat /\ InQueues(g, b) \in Nat
           /\ Count(f[s].queue, b) \in Nat /\ Count(g[s].queue, b) \in Nat
           /\ InQueues(g, b) = InQueues(f, b) - Count(f[s].queue, b) + Count(g[s].queue, b)
  <1> DEFINE Others(h) == PlacesIn(h, D \ {s}, b)
             All(h) == PlacesIn(h, D, b)
  <1>1. IsFiniteSet(D \ {s})
    BY FS_RemoveElement
  <1>2. Others(f) = Others(g)
    <2>1. \A x \in D \ {s} : Places(f, x, b) = Places(g, x, b)
      BY DEF Places
    <2> QED BY <2>1 DEF PlacesIn
  <1>3. ASSUME NEW h, h = f \/ h = g
        PROVE  /\ Cardinality(All(h)) \in Nat /\ Count(h[s].queue, b) \in Nat
               /\ Cardinality(All(h)) = Cardinality(Others(h)) + Count(h[s].queue, b)
               /\ Cardinality(Others(h)) \in Nat
    <2>0. \A x \in D : h[x].queue \in Seq(X)
      BY <1>3 DEF HasQueues
    <2>8. (\A x \in D \ {s} : h[x].queue \in Seq(X)) /\ h[s].queue \in Seq(X)
      BY <2>0
    <2>1. IsFiniteSet(Others(h))
      BY <1>1, <2>8, PlacesFinite
    <2>2. /\ IsFiniteSet(Places(h, s, b)) /\ Count(h[s].queue, b) \in Nat
          /\ Cardinality(Places(h, s, b)) = Count(h[s].queue, b)
      <3>1. Count(h[s].queue, b) \in Nat
        BY <2>8, CountIsHowMany
      <3> QED BY <2>8, <3>1, PlacesCount
    <2>3. Others(h) \cap Places(h, s, b) = {}
      BY DEF Places, PlacesIn
    <2>4. All(h) = Others(h) \cup Places(h, s, b)
      BY DEF PlacesIn
    <2> HIDE DEF Others, All
    <2>5. /\ Cardinality(Others(h) \cup Places(h, s, b))
             = Cardinality(Others(h)) + Cardinality(Places(h, s, b))
               - Cardinality(Others(h) \cap Places(h, s, b))
          /\ IsFiniteSet(Others(h) \cup Places(h, s, b))
      BY <2>1, <2>2, FS_Union
    <2>6. Cardinality(Others(h) \cap Places(h, s, b)) = 0
      BY <2>3, FS_EmptySet
    <2>7. Cardinality(Others(h)) \in Nat /\ Cardinality(All(h)) \in Nat
      BY <2>1, <2>4, <2>5, FS_CardinalityType
    <2> QED BY <2>2, <2>4, <2>5, <2>6, <2>7
  <1>4. InQueues(f, b) = Cardinality(All(f)) /\ InQueues(g, b) = Cardinality(All(g))
    BY InQueuesIs DEF HasQueues
  <1> HIDE DEF Others, All
  <1>5. Cardinality(Others(f)) = Cardinality(Others(g))
    BY <1>2
  <1>6. /\ Cardinality(All(f)) \in Nat /\ Count(f[s].queue, b) \in Nat
        /\ Cardinality(All(f)) = Cardinality(Others(f)) + Count(f[s].queue, b)
        /\ Cardinality(Others(f)) \in Nat
    BY <1>3
  <1>7. /\ Cardinality(All(g)) \in Nat /\ Count(g[s].queue, b) \in Nat
        /\ Cardinality(All(g)) = Cardinality(Others(g)) + Count(g[s].queue, b)
    BY <1>3
  <1> QED BY <1>4, <1>5, <1>6, <1>7

LEMMA SameQueues ==
    ASSUME NEW D, NEW f, NEW g, DOMAIN f = D, DOMAIN g = D,
           \A x \in D : g[x].queue = f[x].queue, NEW b
    PROVE  InQueues(g, b) = InQueues(f, b)
  <1>1. \A x \in D : Places(f, x, b) = Places(g, x, b)
    BY DEF Places
  <1>2. PlacesIn(f, D, b) = PlacesIn(g, D, b)
    BY <1>1 DEF PlacesIn
  <1> QED BY <1>2, InQueuesIs

LEMMA InQueuesNat ==
    ASSUME NEW D, IsFiniteSet(D), NEW X, NEW f, HasQueues(f, D, X), NEW b
    PROVE  InQueues(f, b) \in Nat
  <1>1. DOMAIN f = D /\ \A x \in D : f[x].queue \in Seq(X)
    BY DEF HasQueues
  <1>2. IsFiniteSet(PlacesIn(f, D, b))
    BY <1>1, PlacesFinite
  <1> QED BY <1>1, <1>2, InQueuesIs, FS_CardinalityType

-----------------------------------------------------------------------------
(* The stack                                                               *)

Holds(f, b) == f.call \in HoldingCalls /\ f.arg = b

\* Frames that count for nothing in the invariant.
Plain(f) ==
    f.call \notin HoldingCalls \cup {"afterWork", "clearPendingWrite", "finalized"}

LEMMA FramesCount ==
    ASSUME NEW st \in Seq(Frames), NEW b
    PROVE  /\ HeldByFrames(st, b) = HowMany(st, {f \in Frames : Holds(f, b)})
           /\ HeldByFrames(st, b) \in Nat
  <1>1. \A i \in DOMAIN st : st[i] \in Frames
    BY ElementOfSeq, LenProperties
  <1>2. {i \in DOMAIN st : st[i].call \in HoldingCalls /\ st[i].arg = b}
        = Where(st, {f \in Frames : Holds(f, b)})
    BY <1>1 DEF Where, Holds
  <1> QED BY <1>2, WhereFinite DEF HeldByFrames, HowMany

LEMMA TopFrame ==
    ASSUME NEW s, NEW full, NEW st, StackOK(s, full, st), st # <<>>
    PROVE  /\ Head(st) \in Frames /\ FrameOK(s, full, Head(st))
           /\ Tail(st) \in Seq(Frames) /\ Len(st) \in Nat \ {0}
           /\ DOMAIN st = 1 .. Len(st) /\ DOMAIN Tail(st) = 1 .. Len(st) - 1
           /\ Len(Tail(st)) = Len(st) - 1
           /\ Head(st) = st[1] /\ \A i \in 1 .. Len(st) - 1 : Tail(st)[i] = st[i + 1]
  <1>1. st \in Seq(Frames)
    BY DEF StackOK
  <1>2. Len(st) \in Nat \ {0} /\ DOMAIN st = 1 .. Len(st) /\ Head(st) = st[1]
    BY <1>1, EmptySeq, LenProperties
  <1>3. /\ Head(st) \in Frames /\ Tail(st) \in Seq(Frames) /\ Len(Tail(st)) = Len(st) - 1
        /\ \A i \in 1 .. Len(Tail(st)) : Tail(st)[i] = st[i + 1]
    BY <1>1, HeadTailProperties
  <1>4. DOMAIN Tail(st) = 1 .. Len(st) - 1
    BY <1>3, LenProperties
  <1>5. 1 \in DOMAIN st
    BY <1>2
  <1>6. FrameOK(s, full, st[1])
    BY <1>5 DEF StackOK
  <1> QED BY <1>2, <1>3, <1>4, <1>6

LEMMA Popped ==
    ASSUME NEW s, NEW full, NEW st, StackOK(s, full, st), st # <<>>
    PROVE  /\ StackOK(s, full, Tail(st))
           /\ Head(st).call \notin WriteCalls => Clearing(Tail(st)) = {}
           /\ Head(st).call = "afterWork" => Tail(st) = <<>>
           /\ WriteOnTop(st) => NoWrite(Tail(st))
           /\ \A b : HeldByFrames(st, b)
                     = HeldByFrames(Tail(st), b) + (IF Holds(Head(st), b) THEN 1 ELSE 0)
           /\ Clearing(st) = Clearing(Tail(st))
                             \cup (IF Head(st).call = "clearPendingWrite" THEN {Head(st).arg} ELSE {})
           /\ Finalizers(st) = Finalizers(Tail(st))
                             \cup (IF Head(st).call = "finalized" THEN {Head(st).of} ELSE {})
  <1> DEFINE t == Tail(st)
             n == Len(st) - 1
  <1>1. /\ t \in Seq(Frames) /\ n \in Nat /\ DOMAIN st = 1 .. n + 1 /\ DOMAIN t = 1 .. n
        /\ Len(t) = n /\ Len(st) = n + 1 /\ Head(st) = st[1] /\ \A i \in 1 .. n : t[i] = st[i + 1]
        /\ Head(st) \in Frames /\ st \in Seq(Frames)
    BY TopFrame DEF StackOK
  <1> HIDE DEF t, n
  <1>2. ASSUME NEW i \in DOMAIN t
        PROVE  /\ FrameOK(s, full, t[i])
               /\ t[i].call = "afterWork" => i = Len(t)
               /\ t[i].call = "clearPendingWrite" =>
                      /\ \A j \in 1 .. i - 1 : t[j].call \in WriteCalls
                      /\ Head(st).call \in WriteCalls
    <2>1. i + 1 \in DOMAIN st /\ t[i] = st[i + 1]
      BY <1>1
    <2>2. /\ FrameOK(s, full, st[i + 1])
          /\ st[i + 1].call = "afterWork" => i + 1 = Len(st)
          /\ st[i + 1].call = "clearPendingWrite" =>
                 \A j \in 1 .. (i + 1) - 1 : st[j].call \in WriteCalls
      BY <2>1 DEF StackOK
    <2>3. \A j \in 1 .. i - 1 : j + 1 \in 1 .. (i + 1) - 1 /\ t[j] = st[j + 1]
      BY <1>1
    <2>4. 1 \in 1 .. (i + 1) - 1
      BY <1>1
    <2> QED BY <1>1, <2>1, <2>2, <2>3, <2>4
  <1>3. StackOK(s, full, t)
    BY <1>1, <1>2 DEF StackOK
  <1>4. Head(st).call \notin WriteCalls => Clearing(t) = {}
    BY <1>2 DEF Clearing
  <1>5. Head(st).call = "afterWork" => t = <<>>
    <2>1. Head(st).call = "afterWork" => 1 = Len(st)
      BY <1>1 DEF StackOK
    <2> QED BY <1>1, <2>1, EmptySeq
  <1>6. WriteOnTop(st) => NoWrite(t)
    <2>1. ASSUME WriteOnTop(st), NEW i \in DOMAIN t PROVE t[i].call # "write"
      <3>1. i + 1 \in DOMAIN st /\ t[i] = st[i + 1] /\ i + 1 # 1
        BY <1>1
      <3> QED BY <3>1, <2>1 DEF WriteOnTop
    <2> QED BY <2>1 DEF NoWrite
  <1>7. ASSUME NEW b PROVE HeldByFrames(st, b)
                          = HeldByFrames(t, b) + (IF Holds(Head(st), b) THEN 1 ELSE 0)
    <2>1. HowMany(st, {f \in Frames : Holds(f, b)})
          = HowMany(Tail(st), {f \in Frames : Holds(f, b)})
            + (IF Head(st) \in {f \in Frames : Holds(f, b)} THEN 1 ELSE 0)
      BY <1>1, HowManyTail
    <2>2. HeldByFrames(st, b) = HowMany(st, {f \in Frames : Holds(f, b)})
      BY <1>1, FramesCount
    <2>3. HeldByFrames(t, b) = HowMany(t, {f \in Frames : Holds(f, b)})
      BY <1>1, FramesCount
    <2>4. Head(st) \in {f \in Frames : Holds(f, b)} <=> Holds(Head(st), b)
      BY <1>1
    <2> QED BY <2>1, <2>2, <2>3, <2>4 DEF t
  <1>8. \A i \in DOMAIN st : i = 1 \/ \E k \in DOMAIN t : st[i] = t[k]
    <2>1. ASSUME NEW i \in DOMAIN st, i # 1 PROVE \E k \in DOMAIN t : st[i] = t[k]
      <3>1. i - 1 \in DOMAIN t /\ t[i - 1] = st[i]
        <4>1. i - 1 \in 1 .. n /\ (i - 1) + 1 = i
          BY <1>1, <2>1
        <4> QED BY <1>1, <4>1
      <3> QED BY <3>1
    <2> QED BY <2>1
  <1>11. 1 \in DOMAIN st
    BY <1>1
  <1>9. Clearing(st) = Clearing(t)
              \cup (IF Head(st).call = "clearPendingWrite" THEN {Head(st).arg} ELSE {})
    <2>1. ASSUME NEW i \in DOMAIN st, st[i].call = "clearPendingWrite"
          PROVE  st[i].arg \in Clearing(t)
                     \cup (IF Head(st).call = "clearPendingWrite" THEN {Head(st).arg} ELSE {})
      BY <1>1, <1>8, <2>1 DEF Clearing
    <2>2. ASSUME NEW i \in DOMAIN t, t[i].call = "clearPendingWrite"
          PROVE  t[i].arg \in Clearing(st)
      <3>1. i + 1 \in DOMAIN st /\ t[i] = st[i + 1]
        BY <1>1
      <3> QED BY <3>1, <2>2 DEF Clearing
    <2>3. Head(st).call = "clearPendingWrite" => Head(st).arg \in Clearing(st)
      BY <1>1, <1>11 DEF Clearing
    <2> QED BY <2>1, <2>2, <2>3 DEF Clearing
  <1>10. Finalizers(st) = Finalizers(t)
              \cup (IF Head(st).call = "finalized" THEN {Head(st).of} ELSE {})
    <2>1. ASSUME NEW i \in DOMAIN st, st[i].call = "finalized"
          PROVE  st[i].of \in Finalizers(t)
                     \cup (IF Head(st).call = "finalized" THEN {Head(st).of} ELSE {})
      BY <1>1, <1>8, <2>1 DEF Finalizers
    <2>2. ASSUME NEW i \in DOMAIN t, t[i].call = "finalized"
          PROVE  t[i].of \in Finalizers(st)
      <3>1. i + 1 \in DOMAIN st /\ t[i] = st[i + 1]
        BY <1>1
      <3> QED BY <3>1, <2>2 DEF Finalizers
    <2>3. Head(st).call = "finalized" => Head(st).of \in Finalizers(st)
      BY <1>1, <1>11 DEF Finalizers
    <2> QED BY <2>1, <2>2, <2>3 DEF Finalizers
  <1> QED BY <1>3, <1>4, <1>5, <1>6, <1>7, <1>9, <1>10 DEF t

\* A frame on the others.
On(f, st) == <<f>> \o st

LEMMA Pushed ==
    ASSUME NEW s, NEW full, NEW st, StackOK(s, full, st), NEW f \in Frames, FrameOK(s, full, f),
           f.call = "afterWork" => st = <<>>,
           f.call \in WriteCalls \/ Clearing(st) = {}
    PROVE  /\ StackOK(s, full, On(f, st)) /\ Head(On(f, st)) = f
           /\ NoWrite(st) => WriteOnTop(On(f, st))
           /\ NoWrite(st) /\ f.call # "write" => NoWrite(On(f, st))
           /\ \A b : HeldByFrames(On(f, st), b)
                     = HeldByFrames(st, b) + (IF Holds(f, b) THEN 1 ELSE 0)
           /\ Clearing(On(f, st))
              = Clearing(st) \cup (IF f.call = "clearPendingWrite" THEN {f.arg} ELSE {})
           /\ Finalizers(On(f, st))
              = Finalizers(st) \cup (IF f.call = "finalized" THEN {f.of} ELSE {})
  <1> DEFINE t == <<f>> \o st
             n == Len(st)
  <1>1. /\ st \in Seq(Frames) /\ n \in Nat /\ DOMAIN st = 1 .. n
        /\ t \in Seq(Frames) /\ Len(t) = n + 1 /\ DOMAIN t = 1 .. n + 1
        /\ t[1] = f /\ \A i \in 1 .. n : t[i + 1] = st[i]
        /\ \A i \in 2 .. n + 1 : i - 1 \in 1 .. n /\ t[i] = st[i - 1]
    <2>1. st \in Seq(Frames)
      BY DEF StackOK
    <2>2. n \in Nat /\ DOMAIN st = 1 .. n
      BY <2>1, LenProperties
    <2>3. <<f>> \in Seq(Frames) /\ Len(<<f>>) = 1 /\ <<f>>[1] = f
      OBVIOUS
    <2>4. /\ t \in Seq(Frames) /\ Len(t) = 1 + n
          /\ \A i \in 1 .. 1 + n : t[i] = IF i <= 1 THEN <<f>>[i] ELSE st[i - 1]
      BY <2>1, <2>3, ConcatProperties
    <2>5. DOMAIN t = 1 .. n + 1
      BY <2>2, <2>4, LenProperties
    <2> HIDE DEF t, n
    <2> QED BY <2>1, <2>2, <2>3, <2>4, <2>5
  <1>10. t # <<>> /\ Head(t) = f
    BY <1>1, EmptySeq
  <1>7. ASSUME NEW b PROVE HeldByFrames(t, b)
                          = HeldByFrames(st, b) + (IF Holds(f, b) THEN 1 ELSE 0)
    <2>1. HowMany(<<f>> \o st, {g \in Frames : Holds(g, b)})
          = HowMany(st, {g \in Frames : Holds(g, b)})
            + (IF f \in {g \in Frames : Holds(g, b)} THEN 1 ELSE 0)
      BY <1>1, HowManyFirst
    <2>2. HeldByFrames(st, b) = HowMany(st, {g \in Frames : Holds(g, b)})
      BY <1>1, FramesCount
    <2>3. HeldByFrames(t, b) = HowMany(t, {g \in Frames : Holds(g, b)})
      BY <1>1, FramesCount
    <2>4. f \in {g \in Frames : Holds(g, b)} <=> Holds(f, b)
      OBVIOUS
    <2> QED BY <2>1, <2>2, <2>3, <2>4 DEF t
  <1>13. On(f, st) = t
    BY DEF On
  <1> HIDE DEF t, n
  <1>2. ASSUME NEW i \in DOMAIN t
        PROVE  /\ FrameOK(s, full, t[i])
               /\ t[i].call = "afterWork" => i = Len(t)
               /\ t[i].call = "clearPendingWrite" => \A j \in 1 .. i - 1 : t[j].call \in WriteCalls
    <2>1. CASE i = 1
      <3>1. f.call = "afterWork" => n = 0
        BY <1>1, EmptySeq DEF n
      <3> QED BY <1>1, <2>1, <3>1
    <2>2. CASE i # 1
      <3>1. i - 1 \in DOMAIN st /\ t[i] = st[i - 1] /\ i \in 2 .. n + 1
        BY <1>1, <2>2
      <3>2. /\ FrameOK(s, full, st[i - 1])
            /\ st[i - 1].call = "afterWork" => i - 1 = Len(st)
            /\ st[i - 1].call = "clearPendingWrite" =>
                   \A j \in 1 .. (i - 1) - 1 : st[j].call \in WriteCalls
        BY <3>1 DEF StackOK
      <3>3. ASSUME t[i].call = "clearPendingWrite", NEW j \in 1 .. i - 1
            PROVE  t[j].call \in WriteCalls
        <4>1. f.call \in WriteCalls
          BY <3>1, <3>3 DEF Clearing
        <4>2. CASE j = 1
          BY <1>1, <4>1, <4>2
        <4>3. CASE j # 1
          <5>1. j \in 2 .. n + 1 /\ j - 1 \in 1 .. (i - 1) - 1
            BY <1>1, <3>1, <4>3
          <5>2. t[j] = st[j - 1]
            BY <1>1, <5>1
          <5> QED BY <3>1, <3>2, <3>3, <5>1, <5>2
        <4> QED BY <4>2, <4>3
      <3>4. t[i].call = "afterWork" => i = Len(t)
        BY <1>1, <3>1, <3>2 DEF n
      <3> QED BY <3>1, <3>2, <3>3, <3>4
    <2> QED BY <2>1, <2>2
  <1>3. StackOK(s, full, t)
    BY <1>1, <1>2 DEF StackOK
  <1>4. NoWrite(st) => WriteOnTop(t)
    <2>1. ASSUME NoWrite(st), NEW i \in DOMAIN t, i # 1 PROVE t[i].call # "write"
      <3>1. i - 1 \in DOMAIN st /\ t[i] = st[i - 1]
        BY <1>1, <2>1
      <3> QED BY <3>1, <2>1 DEF NoWrite
    <2> QED BY <2>1 DEF WriteOnTop
  <1>5. NoWrite(st) /\ f.call # "write" => NoWrite(t)
    BY <1>1, <1>4 DEF NoWrite, WriteOnTop
  <1>8. \A i \in DOMAIN t : i = 1 \/ \E k \in DOMAIN st : t[i] = st[k]
    <2>1. ASSUME NEW i \in DOMAIN t, i # 1 PROVE \E k \in DOMAIN st : t[i] = st[k]
      <3>1. i - 1 \in DOMAIN st /\ t[i] = st[i - 1]
        BY <1>1, <2>1
      <3> QED BY <3>1
    <2> QED BY <2>1
  <1>11. 1 \in DOMAIN t /\ \A k \in DOMAIN st : k + 1 \in DOMAIN t /\ t[k + 1] = st[k]
    BY <1>1
  <1>9. Clearing(t) = Clearing(st) \cup (IF f.call = "clearPendingWrite" THEN {f.arg} ELSE {})
    <2>1. ASSUME NEW i \in DOMAIN t, t[i].call = "clearPendingWrite"
          PROVE  t[i].arg \in Clearing(st)
                     \cup (IF f.call = "clearPendingWrite" THEN {f.arg} ELSE {})
      BY <1>1, <1>8, <2>1 DEF Clearing
    <2>2. ASSUME NEW i \in DOMAIN st, st[i].call = "clearPendingWrite"
          PROVE  st[i].arg \in Clearing(t)
      BY <1>11, <2>2 DEF Clearing
    <2>3. f.call = "clearPendingWrite" => f.arg \in Clearing(t)
      BY <1>1, <1>11 DEF Clearing
    <2> QED BY <2>1, <2>2, <2>3 DEF Clearing
  <1>12. Finalizers(t) = Finalizers(st) \cup (IF f.call = "finalized" THEN {f.of} ELSE {})
    <2>1. ASSUME NEW i \in DOMAIN t, t[i].call = "finalized"
          PROVE  t[i].of \in Finalizers(st)
                     \cup (IF f.call = "finalized" THEN {f.of} ELSE {})
      BY <1>1, <1>8, <2>1 DEF Finalizers
    <2>2. ASSUME NEW i \in DOMAIN st, st[i].call = "finalized"
          PROVE  st[i].of \in Finalizers(t)
      BY <1>11, <2>2 DEF Finalizers
    <2>3. f.call = "finalized" => f.of \in Finalizers(t)
      BY <1>1, <1>11 DEF Finalizers
    <2> QED BY <2>1, <2>2, <2>3 DEF Finalizers
  <1> QED BY <1>3, <1>4, <1>5, <1>7, <1>9, <1>10, <1>12, <1>13

\* Frames that count for nothing, on top of a stack.
LEMMA PushedPlain ==
    ASSUME NEW s, NEW full, NEW st, StackOK(s, full, st), NoWrite(st),
           NEW F \in Seq(Frames),
           \A i \in 1 .. Len(F) : /\ FrameOK(s, full, F[i]) /\ Plain(F[i])
                                  /\ F[i].call \in WriteCalls \/ Clearing(st) = {}
    PROVE  /\ StackOK(s, full, F \o st) /\ NoWrite(F \o st)
           /\ \A b : HeldByFrames(F \o st, b) = HeldByFrames(st, b)
           /\ Clearing(F \o st) = Clearing(st) /\ Finalizers(F \o st) = Finalizers(st)
  <1> DEFINE t == F \o st
             n == Len(st)
             m == Len(F)
  <1>1. /\ st \in Seq(Frames) /\ n \in Nat /\ DOMAIN st = 1 .. n
        /\ m \in Nat /\ DOMAIN F = 1 .. m
        /\ t \in Seq(Frames) /\ Len(t) = m + n /\ DOMAIN t = 1 .. m + n
        /\ \A i \in 1 .. m : t[i] = F[i]
        /\ \A i \in 1 .. n : i + m \in 1 .. m + n /\ t[i + m] = st[i]
        /\ \A i \in 1 .. m + n : i > m => i - m \in 1 .. n /\ t[i] = st[i - m]
    <2>1. st \in Seq(Frames)
      BY DEF StackOK
    <2>2. n \in Nat /\ DOMAIN st = 1 .. n /\ m \in Nat /\ DOMAIN F = 1 .. m
      BY <2>1, LenProperties
    <2>4. /\ t \in Seq(Frames) /\ Len(t) = m + n
          /\ \A i \in 1 .. m + n : t[i] = IF i <= m THEN F[i] ELSE st[i - m]
      BY <2>1, ConcatProperties
    <2>5. DOMAIN t = 1 .. m + n
      BY <2>2, <2>4, LenProperties
    <2> HIDE DEF t, n, m
    <2> QED BY <2>1, <2>2, <2>4, <2>5
  <1>2. ASSUME NEW b PROVE HeldByFrames(t, b) = HeldByFrames(st, b)
    <2>1. Where(F, {g \in Frames : Holds(g, b)}) = {}
      BY <1>1 DEF Where, Holds, Plain
    <2>2. HowMany(F \o st, {g \in Frames : Holds(g, b)})
          = HowMany(st, {g \in Frames : Holds(g, b)})
      BY <1>1, <2>1, HowManyPrefix
    <2> QED BY <1>1, <2>2, FramesCount DEF t
  <1> HIDE DEF t, n, m
  <1>3. \A i \in DOMAIN t :
            \/ /\ i \in 1 .. m /\ FrameOK(s, full, t[i]) /\ Plain(t[i])
               /\ t[i].call \in WriteCalls \/ Clearing(st) = {}
            \/ i > m /\ i - m \in DOMAIN st /\ t[i] = st[i - m]
    BY <1>1 DEF m
  <1>4. ASSUME NEW i \in DOMAIN t
        PROVE  /\ FrameOK(s, full, t[i])
               /\ t[i].call = "afterWork" => i = Len(t)
               /\ t[i].call = "clearPendingWrite" => \A j \in 1 .. i - 1 : t[j].call \in WriteCalls
               /\ t[i].call # "write"
    <2>1. CASE i \in 1 .. m /\ FrameOK(s, full, t[i]) /\ Plain(t[i])
      BY <2>1 DEF Plain, HoldingCalls
    <2>2. CASE i > m /\ i - m \in DOMAIN st /\ t[i] = st[i - m]
      <3>2. /\ FrameOK(s, full, st[i - m])
            /\ st[i - m].call = "afterWork" => i - m = Len(st)
            /\ st[i - m].call = "clearPendingWrite" =>
                   \A j \in 1 .. (i - m) - 1 : st[j].call \in WriteCalls
            /\ st[i - m].call # "write"
        BY <2>2 DEF StackOK, NoWrite
      <3>3. ASSUME t[i].call = "clearPendingWrite", NEW j \in 1 .. i - 1
            PROVE  t[j].call \in WriteCalls
        <4>1. Clearing(st) # {}
          BY <2>2, <3>3 DEF Clearing
        <4>2. j \in DOMAIN t
          BY <1>1
        <4>3. CASE j \in 1 .. m
          BY <1>1, <1>3, <4>1, <4>2, <4>3
        <4>4. CASE j > m /\ j - m \in DOMAIN st /\ t[j] = st[j - m]
          <5>1. j - m \in 1 .. (i - m) - 1
            BY <1>1, <2>2, <4>4
          <5> QED BY <2>2, <3>2, <3>3, <4>4, <5>1
        <4> QED BY <1>3, <4>2, <4>3, <4>4
      <3>4. t[i].call = "afterWork" => i = Len(t)
        BY <1>1, <2>2, <3>2 DEF n
      <3> QED BY <2>2, <3>2, <3>3, <3>4
    <2> QED BY <1>3, <2>1, <2>2
  <1>5. StackOK(s, full, t) /\ NoWrite(t)
    BY <1>1, <1>4 DEF StackOK, NoWrite
  <1>6. \A i \in DOMAIN t : Plain(t[i]) \/ \E k \in DOMAIN st : t[i] = st[k]
    BY <1>3
  <1>7. \A k \in DOMAIN st : \E i \in DOMAIN t : t[i] = st[k]
    BY <1>1
  <1>8. Clearing(t) = Clearing(st)
    BY <1>6, <1>7 DEF Clearing, Plain
  <1>9. Finalizers(t) = Finalizers(st)
    BY <1>6, <1>7 DEF Finalizers, Plain
  <1> QED BY <1>2, <1>5, <1>8, <1>9 DEF t

-----------------------------------------------------------------------------
(* The pool                                                                *)

LEMMA FullGrows ==
    ASSUME NEW s, NEW full, NEW full2, full \subseteq full2, NEW st, StackOK(s, full, st)
    PROVE  StackOK(s, full2, st)
  BY DEF StackOK, FrameOK

LEMMA Wider ==
    ASSUME NEW full, NEW full2, full \subseteq full2,
           NEW r \in ReadablesOver(full), NEW w \in WritablesOver(full)
    PROVE  r \in ReadablesOver(full2) /\ w \in WritablesOver(full2)
  <1>1. \A q \in Seq(full) : q \in Seq(full2)
    OBVIOUS
  <1>2. /\ [state : ReadableStates, destroyed : BOOLEAN, queue : Seq(full)]
           \subseteq [state : ReadableStates, destroyed : BOOLEAN, queue : Seq(full2)]
        /\ [state : WritableStates, destroyed : BOOLEAN, queue : Seq(full)]
           \subseteq [state : WritableStates, destroyed : BOOLEAN, queue : Seq(full2)]
    BY <1>1
  <1> QED BY <1>2 DEF ReadablesOver, WritablesOver

LEMMA WiderPipe ==
    ASSUME NEW s, NEW full, NEW full2, full \subseteq full2, NEW p \in Pipes(s, full)
    PROVE  p \in Pipes(s, full2)
  <1>1. Slots(s, full) \subseteq Slots(s, full2)
    BY DEF Slots
  <1>2. \A q \in Seq(Slots(s, full)) : q \in Seq(Slots(s, full2))
    BY <1>1
  <1> QED BY <1>2 DEF Pipes

\* What the operations of the pool do to the references and to what is in the buffers.
LEMMA Reffed ==
    ASSUME NEW s, NEW p \in Pools(s), NEW b \in BuffersOf(s)
    PROVE  /\ Ref(p, b) \in Pools(s) /\ Full(s, Ref(p, b)) = Full(s, p)
           /\ \A c \in BuffersOf(s) : Ref(p, b).refs[c] = p.refs[c] + Is(b, c)
  BY DEF Ref, Pools, Full, Is

LEMMA Unreffed ==
    ASSUME NEW s, NEW p \in Pools(s), NEW b
    PROVE  /\ Unref(p, b) \in Pools(s) /\ Full(s, Unref(p, b)) = Full(s, p)
           /\ \A c \in BuffersOf(s) : Unref(p, b).refs[c] = p.refs[c] - Is(b, c)
  BY DEF Unref, Pools, Full, Is

\* The code takes buffers whose count is 0, and the count of no other changes.
LEMMA TakenEmpty ==
    ASSUME NEW s, NEW p \in Pools(s), NEW b \in BuffersOf(s), p.refs[b] = 0
    PROVE  /\ [p EXCEPT !.refs[b] = 1] \in Pools(s)
           /\ Full(s, [p EXCEPT !.refs[b] = 1]) = Full(s, p)
           /\ \A c \in BuffersOf(s) : [p EXCEPT !.refs[b] = 1].refs[c] = p.refs[c] + Is(b, c)
  BY DEF Pools, Full, Is

LEMMA GivenItem ==
    ASSUME NEW s, NEW p \in Pools(s), NEW b \in BuffersOf(s), p.refs[b] = 0, NEW item \in Nat \ {0}
    PROVE  /\ Given(p, b, item) \in Pools(s)
           /\ Full(s, p) \subseteq Full(s, Given(p, b, item)) /\ b \in Full(s, Given(p, b, item))
           /\ \A c \in BuffersOf(s) : Given(p, b, item).refs[c] = p.refs[c] + Is(b, c)
  <1> DEFINE refs == [p.refs EXCEPT ![b] = 1]
             contents == [p.data EXCEPT ![b] = item]
             q == Given(p, b, item)
  <1>1. q = [refs |-> refs, data |-> contents]
    <2>1. p = [refs |-> p.refs, data |-> p.data]
      BY DEF Pools
    <2>2. q = [[p EXCEPT !.refs = refs] EXCEPT !.data = contents]
      BY <2>1 DEF Given
    <2> HIDE DEF q, refs, contents
    <2> QED BY <2>1, <2>2
  <1>2. /\ refs \in [BuffersOf(s) -> Int]
        /\ \A c \in BuffersOf(s) : refs[c] = p.refs[c] + Is(b, c)
    BY DEF Pools, Is
  <1>3. /\ contents \in [BuffersOf(s) -> Nat]
        /\ \A c \in BuffersOf(s) : contents[c] = IF c = b THEN item ELSE p.data[c]
    BY DEF Pools
  <1> HIDE DEF refs, contents, q
  <1>4. q.refs = refs /\ q.data = contents
    BY <1>1
  <1>5. q \in Pools(s)
    BY <1>1, <1>2, <1>3 DEF Pools
  <1>6. Full(s, p) \subseteq Full(s, q) /\ b \in Full(s, q)
    BY <1>3, <1>4 DEF Full
  <1> QED BY <1>2, <1>4, <1>5, <1>6 DEF q

LEMMA Stored ==
    ASSUME NEW s, NEW p \in Pools(s), NEW b \in BuffersOf(s), NEW item \in Nat \ {0}
    PROVE  /\ [p EXCEPT !.data[b] = item] \in Pools(s)
           /\ Full(s, p) \subseteq Full(s, [p EXCEPT !.data[b] = item])
           /\ b \in Full(s, [p EXCEPT !.data[b] = item])
           /\ [p EXCEPT !.data[b] = item].refs = p.refs
  BY DEF Pools, Full

LEMMA AllUnreffed ==
    ASSUME NEW X, NEW q \in Seq(X), pool \in Pools(setting)
    PROVE  /\ UnrefAll(pool, q) \in Pools(setting)
           /\ Full(setting, UnrefAll(pool, q)) = Full(setting, pool)
           /\ \A c \in BuffersOf(setting) :
                  UnrefAll(pool, q).refs[c] = pool.refs[c] - Count(q, c)
  <1>1. \A c : Count(q, c) \in Nat
    BY CountIsHowMany
  <1> DEFINE refs == [b \in Buffers |-> pool.refs[b] - Cardinality({i \in DOMAIN q : q[i] = b})]
  <1>2. Buffers = BuffersOf(setting)
    BY DEF Buffers, BuffersOf
  <1>3. \A c \in BuffersOf(setting) : pool.refs[c] \in Int
    BY DEF Pools
  <1>6. refs = [b \in BuffersOf(setting) |-> pool.refs[b] - Count(q, b)]
    BY <1>2 DEF Count
  <1>4. /\ refs \in [BuffersOf(setting) -> Int]
        /\ \A c \in BuffersOf(setting) : refs[c] = pool.refs[c] - Count(q, c)
    BY <1>1, <1>3, <1>6
  <1>5. UnrefAll(pool, q) = [pool EXCEPT !.refs = refs]
    <2>1. UnrefAll(pool, q)
          = [pool EXCEPT !.refs = [b \in Buffers |-> @[b] - Cardinality({i \in DOMAIN q : q[i] = b})]]
      BY DEF UnrefAll
    <2> QED BY <2>1
  <1> HIDE DEF refs
  <1> QED BY <1>4, <1>5 DEF Pools, Full

LEMMA Least ==
    ASSUME NEW S \in SUBSET Nat, S # {}
    PROVE  (CHOOSE b \in S : \A c \in S : b <= c) \in S
  <1> DEFINE less == OpToRel(<, Nat)
  <1>1. IsWellFoundedOn(less, Nat)
    BY NatLessThanWellFounded
  <1>2. PICK b \in S : \A c \in S : ~ (<<c, b>> \in less)
    BY <1>1, WFMin
  <1>3. \A c \in S : ~ (c < b)
    BY <1>2, Zenon DEF OpToRel
  <1>4. \A c \in S : b <= c
    BY <1>3
  <1> QED BY <1>4

LEMMA FreeBuffer ==
    ASSUME setting \in Settings, FreeBuffers # {}
    PROVE  NewBuffer \in BuffersOf(setting) /\ pool.refs[NewBuffer] = 0
  <1>1. FreeBuffers \in SUBSET Nat
    BY DEF FreeBuffers, Buffers
  <1>2. NewBuffer \in FreeBuffers
    BY <1>1, Least DEF NewBuffer
  <1> QED BY <1>2 DEF FreeBuffers, Buffers, BuffersOf

-----------------------------------------------------------------------------
(* Who holds what                                                          *)

LEMMA CountQueue ==
    ASSUME NEW X, NEW q \in Seq(X), NEW x \in X, NEW b
    PROVE  /\ Count(q, b) \in Nat /\ Count(<<>>, b) = 0
           /\ Count(Append(q, x), b) = Count(q, b) + Is(x, b)
           /\ Count(<<x>> \o q, b) = Count(q, b) + Is(x, b)
  <1>1. Count(q, b) = HowMany(q, {b}) /\ Count(q, b) \in Nat
    BY CountIsHowMany
  <1>2. Append(q, x) \in Seq(X)
    BY AppendProperties
  <1>6. <<x>> \o q \in Seq(X)
    <2>1. <<x>> \in Seq(X)
      OBVIOUS
    <2> QED BY <2>1, ConcatProperties
  <1>3. Count(Append(q, x), b) = HowMany(q, {b}) + (IF x \in {b} THEN 1 ELSE 0)
    <2>1. Count(Append(q, x), b) = HowMany(Append(q, x), {b})
      BY <1>2, CountIsHowMany
    <2>2. HowMany(Append(q, x), {b}) = HowMany(q, {b}) + (IF x \in {b} THEN 1 ELSE 0)
      BY HowManyAppend
    <2> QED BY <2>1, <2>2
  <1>4. Count(<<x>> \o q, b) = HowMany(q, {b}) + (IF x \in {b} THEN 1 ELSE 0)
    <2>1. Count(<<x>> \o q, b) = HowMany(<<x>> \o q, {b})
      BY <1>6, CountIsHowMany
    <2>2. HowMany(<<x>> \o q, {b}) = HowMany(q, {b}) + (IF x \in {b} THEN 1 ELSE 0)
      BY HowManyFirst
    <2> QED BY <2>1, <2>2
  <1>5. Count(<<>>, b) = 0
    <2>1. {i \in DOMAIN <<>> : <<>>[i] = b} = {}
      OBVIOUS
    <2> QED BY <2>1, FS_EmptySet DEF Count
  <1> QED BY <1>1, <1>3, <1>4, <1>5 DEF Is

LEMMA CountFirst ==
    ASSUME NEW X, NEW q \in Seq(X), q # <<>>, NEW b
    PROVE  /\ Count(q, b) \in Nat /\ Count(Tail(q), b) \in Nat
           /\ Count(q, b) = Count(Tail(q), b) + Is(Head(q), b)
  <1>1. Head(q) \in X /\ Tail(q) \in Seq(X)
    BY ConsOfTail
  <1>2. /\ Count(q, b) = HowMany(q, {b}) /\ Count(q, b) \in Nat
        /\ Count(Tail(q), b) = HowMany(Tail(q), {b}) /\ Count(Tail(q), b) \in Nat
    BY <1>1, CountIsHowMany
  <1>3. HowMany(q, {b}) = HowMany(Tail(q), {b}) + (IF Head(q) \in {b} THEN 1 ELSE 0)
    BY HowManyTail
  <1> QED BY <1>2, <1>3 DEF Is

LEMMA StreamsFinite ==
    IsFiniteSet(Readables) /\ IsFiniteSet(Writables) /\ IsFiniteSet(Sinks) /\ IsFiniteSet(Transforms)
  <1>1. IsFiniteSet({Source})
    BY FS_Singleton
  <1> QED BY <1>1, FS_Union, StreamsAssumption DEF Readables, Writables

\* The queue of one stream changed.
LEMMA ReadQueue ==
    ASSUME NEW full, NEW full2, NEW r \in ReadablesOver(full), NEW r2 \in ReadablesOver(full2),
           NEW x \in Readables, \A y \in Readables \ {x} : r2[y].queue = r[y].queue, NEW b
    PROVE  /\ InQueues(r, b) \in Nat /\ InQueues(r2, b) \in Nat
           /\ InQueues(r2, b) = InQueues(r, b) - Count(r[x].queue, b) + Count(r2[x].queue, b)
  <1>1. \A y \in Readables : r[y].queue \in Seq(full) /\ r2[y].queue \in Seq(full2)
    BY DEF ReadablesOver
  <1>2. DOMAIN r = Readables /\ DOMAIN r2 = Readables
    BY DEF ReadablesOver
  <1>3. /\ HasQueues(r, Readables, full \cup full2) /\ HasQueues(r2, Readables, full \cup full2)
        /\ IsFiniteSet(Readables)
    BY <1>1, <1>2, StreamsFinite DEF HasQueues
  <1> QED BY <1>3, OneQueue

LEMMA WriteQueue ==
    ASSUME NEW full, NEW full2, NEW w \in WritablesOver(full), NEW w2 \in WritablesOver(full2),
           NEW x \in Writables, \A y \in Writables \ {x} : w2[y].queue = w[y].queue, NEW b
    PROVE  /\ InQueues(w, b) \in Nat /\ InQueues(w2, b) \in Nat
           /\ InQueues(w2, b) = InQueues(w, b) - Count(w[x].queue, b) + Count(w2[x].queue, b)
  <1>1. \A y \in Writables : w[y].queue \in Seq(full) /\ w2[y].queue \in Seq(full2)
    BY DEF WritablesOver
  <1>2. DOMAIN w = Writables /\ DOMAIN w2 = Writables
    BY DEF WritablesOver
  <1>3. /\ HasQueues(w, Writables, full \cup full2) /\ HasQueues(w2, Writables, full \cup full2)
        /\ IsFiniteSet(Writables)
    BY <1>1, <1>2, StreamsFinite DEF HasQueues
  <1> QED BY <1>3, OneQueue

LEMMA QueuesKept ==
    ASSUME NEW full, NEW full2, NEW b,
           NEW r \in ReadablesOver(full), NEW r2 \in ReadablesOver(full2),
           NEW w \in WritablesOver(full), NEW w2 \in WritablesOver(full2)
    PROVE  /\ InQueues(r, b) \in Nat /\ InQueues(w, b) \in Nat
           /\ (\A y \in Readables : r2[y].queue = r[y].queue) => InQueues(r2, b) = InQueues(r, b)
           /\ (\A y \in Writables : w2[y].queue = w[y].queue) => InQueues(w2, b) = InQueues(w, b)
  <1>1. /\ DOMAIN r = Readables /\ DOMAIN r2 = Readables
        /\ HasQueues(r, Readables, full)
    BY DEF ReadablesOver, HasQueues
  <1>2. /\ DOMAIN w = Writables /\ DOMAIN w2 = Writables
        /\ HasQueues(w, Writables, full)
    BY DEF WritablesOver, HasQueues
  <1>3. InQueues(r, b) \in Nat /\ InQueues(w, b) \in Nat
    BY <1>1, <1>2, InQueuesNat, StreamsFinite
  <1>4. (\A y \in Readables : r2[y].queue = r[y].queue) => InQueues(r2, b) = InQueues(r, b)
    BY <1>1, SameQueues
  <1>5. (\A y \in Writables : w2[y].queue = w[y].queue) => InQueues(w2, b) = InQueues(w, b)
    BY <1>2, SameQueues
  <1> QED BY <1>3, <1>4, <1>5

\* One sink was given a buffer, or has given back its own.
SinksBut(q, q2, k) == \A y \in Sinks \ {k} : q2[y].buffer = q[y].buffer

LEMMA OneSink ==
    ASSUME NEW q, NEW q2, NEW k \in Sinks, SinksBut(q, q2, k), NEW b
    PROVE  /\ HeldBySinks(q, b) \in Nat /\ HeldBySinks(q2, b) \in Nat
           /\ HeldBySinks(q2, b) = HeldBySinks(q, b) - Is(q[k].buffer, b) + Is(q2[k].buffer, b)
  <1> DEFINE A == {y \in Sinks : q[y].buffer = b}
             B == {y \in Sinks : q2[y].buffer = b}
  <1>1. IsFiniteSet(A)
    BY StreamsFinite, FS_Subset
  <1>2. A \ {k} = B \ {k}
    BY DEF SinksBut
  <1>3. (k \in A <=> q[k].buffer = b) /\ (k \in B <=> q2[k].buffer = b)
    OBVIOUS
  <1> HIDE DEF A, B
  <1>4. /\ IsFiniteSet(B) /\ Cardinality(A) \in Nat /\ Cardinality(B) \in Nat
        /\ Cardinality(B) = Cardinality(A) - (IF k \in A THEN 1 ELSE 0) + (IF k \in B THEN 1 ELSE 0)
    BY <1>1, <1>2, OneMember
  <1>5. HeldBySinks(q, b) = Cardinality(A) /\ HeldBySinks(q2, b) = Cardinality(B)
    BY DEF HeldBySinks, A, B
  <1> QED BY <1>3, <1>4, <1>5 DEF Is

LEMMA SinksNat ==
    ASSUME NEW q, NEW b
    PROVE  HeldBySinks(q, b) \in Nat
  <1>1. IsFiniteSet({y \in Sinks : q[y].buffer = b})
    BY StreamsFinite, FS_Subset
  <1> QED BY <1>1, FS_CardinalityType DEF HeldBySinks

\* What one transform holds.
Input(t, x, b) == IF t[x].state = "Processing" /\ t[x].input = b THEN 1 ELSE 0
Output(t, x, finalizers, b) ==
    IF x \notin finalizers /\ t[x].state \in {"Processing", "Finalizing"} /\ t[x].output = b
    THEN 1 ELSE 0

TransformsBut(t, t2, fin, fin2, x) ==
    \A y \in Transforms \ {x} : t2[y] = t[y] /\ (y \in fin2 <=> y \in fin)

LEMMA OneTransform ==
    ASSUME NEW t, NEW t2, NEW fin, NEW fin2, NEW x \in Transforms,
           TransformsBut(t, t2, fin, fin2, x), NEW b
    PROVE  /\ HeldAsInput(t, b) \in Nat /\ HeldAsInput(t2, b) \in Nat
           /\ HeldAsOutput(t, fin, b) \in Nat /\ HeldAsOutput(t2, fin2, b) \in Nat
           /\ HeldAsInput(t2, b) = HeldAsInput(t, b) - Input(t, x, b) + Input(t2, x, b)
           /\ HeldAsOutput(t2, fin2, b)
              = HeldAsOutput(t, fin, b) - Output(t, x, fin, b) + Output(t2, x, fin2, b)
  <1> DEFINE A == {y \in Transforms : t[y].state = "Processing" /\ t[y].input = b}
             B == {y \in Transforms : t2[y].state = "Processing" /\ t2[y].input = b}
             C == {y \in Transforms : /\ y \notin fin /\ t[y].state \in {"Processing", "Finalizing"}
                                      /\ t[y].output = b}
             D == {y \in Transforms : /\ y \notin fin2 /\ t2[y].state \in {"Processing", "Finalizing"}
                                      /\ t2[y].output = b}
  <1>1. IsFiniteSet(A) /\ IsFiniteSet(C)
    BY StreamsFinite, FS_Subset
  <1>2. A \ {x} = B \ {x} /\ C \ {x} = D \ {x}
    BY DEF TransformsBut
  <1>3. /\ Input(t, x, b) = (IF x \in A THEN 1 ELSE 0)
        /\ Input(t2, x, b) = (IF x \in B THEN 1 ELSE 0)
        /\ Output(t, x, fin, b) = (IF x \in C THEN 1 ELSE 0)
        /\ Output(t2, x, fin2, b) = (IF x \in D THEN 1 ELSE 0)
    BY DEF Input, Output
  <1>5. /\ HeldAsInput(t, b) = Cardinality(A) /\ HeldAsInput(t2, b) = Cardinality(B)
        /\ HeldAsOutput(t, fin, b) = Cardinality(C) /\ HeldAsOutput(t2, fin2, b) = Cardinality(D)
    BY DEF HeldAsInput, HeldAsOutput
  <1> HIDE DEF A, B, C, D
  <1>4. /\ Cardinality(A) \in Nat /\ Cardinality(B) \in Nat
        /\ Cardinality(B) = Cardinality(A) - (IF x \in A THEN 1 ELSE 0) + (IF x \in B THEN 1 ELSE 0)
    BY <1>1, <1>2, OneMember
  <1>6. /\ Cardinality(C) \in Nat /\ Cardinality(D) \in Nat
        /\ Cardinality(D) = Cardinality(C) - (IF x \in C THEN 1 ELSE 0) + (IF x \in D THEN 1 ELSE 0)
    BY <1>1, <1>2, OneMember
  <1> QED BY <1>3, <1>4, <1>5, <1>6

LEMMA TransformsNat ==
    ASSUME NEW t, NEW fin, NEW b
    PROVE  HeldAsInput(t, b) \in Nat /\ HeldAsOutput(t, fin, b) \in Nat
  <1>1. /\ IsFiniteSet({y \in Transforms : t[y].state = "Processing" /\ t[y].input = b})
        /\ IsFiniteSet({y \in Transforms :
               y \notin fin /\ t[y].state \in {"Processing", "Finalizing"} /\ t[y].output = b})
    BY StreamsFinite, FS_Subset
  <1> QED BY <1>1, FS_CardinalityType DEF HeldAsInput, HeldAsOutput

LEMMA SameTransforms ==
    ASSUME NEW t, NEW t2, NEW fin, NEW b,
           \A y \in Transforms : /\ t2[y].state = t[y].state /\ t2[y].input = t[y].input
                                 /\ t2[y].output = t[y].output
    PROVE  /\ HeldAsInput(t2, b) = HeldAsInput(t, b)
           /\ HeldAsOutput(t2, fin, b) = HeldAsOutput(t, fin, b)
  <1>1. {y \in Transforms : t2[y].state = "Processing" /\ t2[y].input = b}
        = {y \in Transforms : t[y].state = "Processing" /\ t[y].input = b}
    OBVIOUS
  <1>2. {y \in Transforms :
             y \notin fin /\ t2[y].state \in {"Processing", "Finalizing"} /\ t2[y].output = b}
        = {y \in Transforms :
               y \notin fin /\ t[y].state \in {"Processing", "Finalizing"} /\ t[y].output = b}
    OBVIOUS
  <1> QED BY <1>1, <1>2 DEF HeldAsInput, HeldAsOutput

\* One slot of the pending writes was filled or emptied.
Slot(slots, clearing, k, b) ==
    IF k \in DOMAIN slots /\ k \notin clearing /\ slots[k].buffer = b THEN 1 ELSE 0

PendingSlots(slots, clearing, b) == {i \in DOMAIN slots : i \notin clearing /\ slots[i].buffer = b}

LEMMA PendingNat ==
    ASSUME NEW Y, NEW slots \in Seq(Y), NEW clearing, NEW b
    PROVE  /\ HeldByPending(slots, clearing, b) \in Nat
           /\ IsFiniteSet(PendingSlots(slots, clearing, b))
  <1>1. Len(slots) \in Nat /\ DOMAIN slots = 1 .. Len(slots)
    BY LenProperties
  <1>2. IsFiniteSet(1 .. Len(slots))
    BY <1>1, FS_Interval
  <1>3. IsFiniteSet(PendingSlots(slots, clearing, b))
    BY <1>1, <1>2, FS_Subset DEF PendingSlots
  <1> QED BY <1>3, FS_CardinalityType DEF HeldByPending, PendingSlots

SlotsBut(slots, slots2, clearing, clearing2, k) ==
    /\ \A i \in DOMAIN slots \ {k} : /\ i \in DOMAIN slots2 /\ slots2[i] = slots[i]
                                     /\ i \in clearing2 <=> i \in clearing
    /\ \A i \in DOMAIN slots2 \ {k} : i \in DOMAIN slots

LEMMA OneSlot ==
    ASSUME NEW Y, NEW slots \in Seq(Y), NEW slots2 \in Seq(Y), NEW clearing, NEW clearing2, NEW k,
           SlotsBut(slots, slots2, clearing, clearing2, k), NEW b
    PROVE  /\ HeldByPending(slots, clearing, b) \in Nat
           /\ HeldByPending(slots2, clearing2, b) \in Nat
           /\ HeldByPending(slots2, clearing2, b)
              = HeldByPending(slots, clearing, b) - Slot(slots, clearing, k, b)
                                                  + Slot(slots2, clearing2, k, b)
  <1> DEFINE A == PendingSlots(slots, clearing, b)
             B == PendingSlots(slots2, clearing2, b)
  <1>1. IsFiniteSet(A)
    BY PendingNat
  <1>2. A \ {k} = B \ {k}
    BY DEF PendingSlots, SlotsBut
  <1>3. /\ Slot(slots, clearing, k, b) = (IF k \in A THEN 1 ELSE 0)
        /\ Slot(slots2, clearing2, k, b) = (IF k \in B THEN 1 ELSE 0)
    BY DEF Slot, PendingSlots
  <1>4. HeldByPending(slots, clearing, b) = Cardinality(A)
    BY DEF HeldByPending, PendingSlots
  <1>5. HeldByPending(slots2, clearing2, b) = Cardinality(B)
    BY DEF HeldByPending, PendingSlots
  <1> HIDE DEF A, B
  <1>6. /\ Cardinality(A) \in Nat /\ Cardinality(B) \in Nat
        /\ Cardinality(B) = Cardinality(A) - (IF k \in A THEN 1 ELSE 0) + (IF k \in B THEN 1 ELSE 0)
    BY <1>1, <1>2, OneMember
  <1> QED BY <1>3, <1>4, <1>5, <1>6

\* Everything that counts as a holder is counted by a natural number.
LEMMA HeldNat ==
    ASSUME NEW full, NEW r \in ReadablesOver(full), NEW w \in WritablesOver(full), NEW q, NEW t,
           NEW Y, NEW slots \in Seq(Y), NEW st \in Seq(Frames), NEW b, NEW fin, NEW clearing
    PROVE  /\ InQueues(r, b) \in Nat /\ InQueues(w, b) \in Nat
           /\ HeldByPending(slots, clearing, b) \in Nat
           /\ HeldBySinks(q, b) \in Nat /\ HeldAsInput(t, b) \in Nat
           /\ HeldAsOutput(t, fin, b) \in Nat /\ HeldByFrames(st, b) \in Nat
  BY QueuesKept, PendingNat, SinksNat, TransformsNat, FramesCount

-----------------------------------------------------------------------------
(* The pipeline                                                            *)

LEMMA SettingIs ==
    ASSUME NEW s \in Settings
    PROVE  /\ s.transforms \in Seq(Transforms) /\ s.sinks \in Seq(Sinks) /\ s.sinks # <<>>
           /\ s.buffers \in Nat /\ s.readQueue \in Nat \ {0} /\ s.writeQueue \in Nat \ {0}
           /\ s.chunks \in Nat /\ s.expansion \in Nat /\ s.trailer \in Nat
           /\ Len(s.transforms) \in Nat /\ DOMAIN s.transforms = 1 .. Len(s.transforms)
           /\ Len(s.sinks) \in Nat /\ DOMAIN s.sinks = 1 .. Len(s.sinks)
           /\ \A i \in DOMAIN s.transforms : s.transforms[i] \in UsedTransforms(s)
           /\ \A i \in DOMAIN s.sinks : s.sinks[i] \in Sinks
           /\ UsedTransforms(s) \subseteq Transforms
           /\ UsedReadables(s) \subseteq Readables /\ UsedWritables(s) \subseteq Writables
           /\ UsedReadables(s) \cap Transforms = UsedTransforms(s)
           /\ UsedWritables(s) \cap Transforms = UsedTransforms(s)
           /\ BuffersOf(s) \subseteq Nat \ {0}
  <1>1. s \in Setting /\ s.sinks # <<>>
    BY StreamsAssumption
  <1>2. /\ s.transforms \in Seq(Transforms) /\ s.sinks \in Seq(Sinks) /\ s.sinks # <<>>
        /\ s.buffers \in Nat /\ s.readQueue \in Nat \ {0} /\ s.writeQueue \in Nat \ {0}
        /\ s.chunks \in Nat /\ s.expansion \in Nat /\ s.trailer \in Nat
    BY <1>1 DEF Setting
  <1>3. /\ Len(s.transforms) \in Nat /\ DOMAIN s.transforms = 1 .. Len(s.transforms)
        /\ Len(s.sinks) \in Nat /\ DOMAIN s.sinks = 1 .. Len(s.sinks)
        /\ \A i \in DOMAIN s.transforms : s.transforms[i] \in Transforms
        /\ \A i \in DOMAIN s.sinks : s.sinks[i] \in Sinks
    BY <1>2, LenProperties, ElementOfSeq
  <1>4. /\ \A i \in DOMAIN s.transforms : s.transforms[i] \in UsedTransforms(s)
        /\ UsedTransforms(s) \subseteq Transforms
    BY <1>3 DEF UsedTransforms
  <1>5. /\ UsedReadables(s) \subseteq Readables /\ UsedWritables(s) \subseteq Writables
        /\ UsedReadables(s) \cap Transforms = UsedTransforms(s)
        /\ UsedWritables(s) \cap Transforms = UsedTransforms(s)
    BY <1>3, <1>4, StreamsAssumption DEF UsedReadables, UsedWritables, Readables, Writables
  <1>6. BuffersOf(s) \subseteq Nat \ {0}
    BY <1>2 DEF BuffersOf
  <1> QED BY <1>2, <1>3, <1>4, <1>5, <1>6

\* Every stream that a listener calls is one of the pipeline.
LEMMA Neighbours ==
    ASSUME setting \in Settings
    PROVE  /\ DispatchReadable \in UsedReadables(setting)
           /\ Source \in UsedReadables(setting)
           /\ \A w \in UsedWritables(setting) : InputOf(w) \in UsedReadables(setting)
           /\ \A r \in UsedReadables(setting) :
                  r # DispatchReadable => Following(r) \in UsedTransforms(setting)
           /\ \A r \in UsedReadables(setting) :
                  /\ WritablesOf(r) \in Seq(UsedWritables(setting))
                  /\ \A i \in DOMAIN WritablesOf(r) : WritablesOf(r)[i] \in UsedWritables(setting)
           /\ \A i \in DOMAIN setting.sinks : setting.sinks[i] \in UsedWritables(setting)
  <1> DEFINE chain == setting.transforms
             n == Len(setting.transforms)
  <1>1. /\ chain \in Seq(Transforms) /\ n \in Nat /\ DOMAIN chain = 1 .. n /\ ChainLength = n
        /\ \A i \in 1 .. n : chain[i] \in UsedTransforms(setting)
        /\ Len(setting.sinks) \in Nat /\ DOMAIN setting.sinks = 1 .. Len(setting.sinks)
    BY SettingIs DEF ChainLength
  <1> HIDE DEF n, chain
  <1>2. n > 0 => Last(setting.transforms) = chain[n]
    BY DEF Last, n, chain
  <1>3. DispatchReadable \in UsedReadables(setting)
    <2>1. CASE n = 0
      BY <1>1, <2>1 DEF DispatchReadable, UsedReadables
    <2>2. CASE n # 0
      BY <1>1, <1>2, <2>2 DEF DispatchReadable, UsedReadables
    <2> QED BY <2>1, <2>2
  <1>4. ASSUME NEW x \in UsedTransforms(setting)
        PROVE  Position(x) \in 1 .. n /\ chain[Position(x)] = x
    BY <1>1 DEF Position, UsedTransforms, chain
  <1>5. Source \in UsedReadables(setting)
    BY DEF UsedReadables
  <1>6. \A i \in DOMAIN setting.sinks : setting.sinks[i] \in UsedWritables(setting)
    BY DEF UsedWritables
  <1>7. ASSUME NEW w \in UsedWritables(setting) PROVE InputOf(w) \in UsedReadables(setting)
    <2>1. CASE w \in Sinks
      BY <1>3, <2>1 DEF InputOf
    <2>2. CASE w \notin Sinks
      <3>1. w \in UsedTransforms(setting)
        BY <2>2, SettingIs DEF Writables
      <3>2. Position(w) # 1 => setting.transforms[Position(w) - 1] \in UsedTransforms(setting)
        BY <1>1, <1>4, <3>1 DEF chain
      <3> QED BY <2>2, <3>2 DEF InputOf, UsedReadables
    <2> QED BY <2>1, <2>2
  <1>8. ASSUME NEW r \in UsedReadables(setting), r # DispatchReadable
        PROVE  Following(r) \in UsedTransforms(setting)
    <2>1. n # 0
      BY <1>1, <1>8 DEF DispatchReadable, UsedReadables, UsedTransforms, chain
    <2>2. CASE r = Source
      BY <1>1, <2>1, <2>2 DEF Following, chain
    <2>3. CASE r # Source
      <3>1. r \in UsedTransforms(setting)
        BY <2>3 DEF UsedReadables
      <3>2. Position(r) # n
        BY <1>1, <1>2, <1>4, <1>8, <2>1, <3>1 DEF DispatchReadable
      <3>3. Position(r) + 1 \in 1 .. n
        BY <1>1, <1>4, <3>1, <3>2
      <3> QED BY <1>1, <2>3, <3>3 DEF Following, chain
    <2> QED BY <2>2, <2>3
  <1>9. ASSUME NEW r \in UsedReadables(setting)
        PROVE  /\ WritablesOf(r) \in Seq(UsedWritables(setting))
               /\ \A i \in DOMAIN WritablesOf(r) : WritablesOf(r)[i] \in UsedWritables(setting)
    <2>0. WritablesOf(r) \in Seq(UsedWritables(setting))
      <3>1. CASE r = DispatchReadable
        <4>1. setting.sinks \in Seq(UsedWritables(setting))
          <5>1. setting.sinks \in Seq(Sinks)
            BY SettingIs
          <5>2. setting.sinks = [i \in 1 .. Len(setting.sinks) |-> setting.sinks[i]]
            BY <5>1
          <5> QED BY <1>1, <1>6, <5>2
        <4> QED BY <3>1, <4>1 DEF WritablesOf
      <3>2. CASE r # DispatchReadable
        <4>1. Following(r) \in UsedWritables(setting)
          BY <1>8, <3>2 DEF UsedWritables
        <4> QED BY <3>2, <4>1 DEF WritablesOf
      <3> QED BY <3>1, <3>2
    <2> QED BY <2>0, LenProperties, ElementOfSeq
  <1> QED BY <1>3, <1>5, <1>6, <1>7, <1>8, <1>9

-----------------------------------------------------------------------------
(* Calls that leave the buffers where they are                             *)

Harmless(f) ==
    /\ FrameOK(setting, Full(setting, pool), f) /\ Plain(f)
    /\ f.call \in WriteCalls \/ Head(stack).call \notin WriteCalls

HarmlessFrames == {f \in Frames : Harmless(f)}

BuffersStay ==
    /\ UNCHANGED <<setting, pool>>
    /\ \A x \in Readables : readable'[x].queue = readable[x].queue
    /\ \A x \in Writables : writable'[x].queue = writable[x].queue
    /\ \A x \in {Source} \cup Sinks : request'[x].buffer = request[x].buffer
    /\ \A x \in Transforms : /\ transform'[x].state = transform[x].state
                             /\ transform'[x].input = transform[x].input
                             /\ transform'[x].output = transform[x].output
    /\ pipe'.pending = pipe.pending

LEMMA NoWriteRuns ==
    ASSUME NEW st \in Seq(Frames), NoWrite(st), st # <<>>
    PROVE  Head(st).call # "write" /\ WriteOnTop(st)
  <1>1. Len(st) \in Nat \ {0} /\ DOMAIN st = 1 .. Len(st) /\ Head(st) = st[1]
    BY EmptySeq, LenProperties
  <1>2. 1 \in DOMAIN st
    BY <1>1
  <1> QED BY <1>1, <1>2 DEF NoWrite, WriteOnTop

\* What is left of the stack when the call on top has ended, and calls that count for
\* nothing are put in its place.
LEMMA Continues ==
    ASSUME TypesInv, StackInv, stack # <<>>, NEW F \in Seq(HarmlessFrames),
           NEW s, NEW full, s = setting, Full(setting, pool) \subseteq full
    PROVE  LET st == F \o Tail(stack) IN
           /\ StackOK(s, full, st) /\ NoWrite(st) /\ WriteOnTop(st)
           /\ st # <<>> => Head(st).call # "write"
           /\ \A b : HeldByFrames(st, b)
                     = HeldByFrames(stack, b) - (IF Holds(Head(stack), b) THEN 1 ELSE 0)
           /\ Clearing(stack) = Clearing(st)
                 \cup (IF Head(stack).call = "clearPendingWrite" THEN {Head(stack).arg} ELSE {})
           /\ Finalizers(stack) = Finalizers(st)
                 \cup (IF Head(stack).call = "finalized" THEN {Head(stack).of} ELSE {})
           /\ Head(stack).call \notin WriteCalls => Clearing(st) = {}
  <1> DEFINE st == F \o Tail(stack)
             old == Full(setting, pool)
  <1>1. StackOK(setting, old, stack) /\ WriteOnTop(stack)
    BY DEF StackInv
  <1>2. /\ StackOK(setting, old, Tail(stack)) /\ NoWrite(Tail(stack))
        /\ Head(stack).call \notin WriteCalls => Clearing(Tail(stack)) = {}
        /\ \A b : HeldByFrames(stack, b)
                  = HeldByFrames(Tail(stack), b) + (IF Holds(Head(stack), b) THEN 1 ELSE 0)
        /\ Clearing(stack) = Clearing(Tail(stack))
              \cup (IF Head(stack).call = "clearPendingWrite" THEN {Head(stack).arg} ELSE {})
        /\ Finalizers(stack) = Finalizers(Tail(stack))
              \cup (IF Head(stack).call = "finalized" THEN {Head(stack).of} ELSE {})
    BY <1>1, Popped
  <1>3. F \in Seq(Frames) /\ \A i \in 1 .. Len(F) : F[i] \in HarmlessFrames
    <2>1. \A i \in 1 .. Len(F) : F[i] \in HarmlessFrames
      BY ElementOfSeq
    <2>2. HarmlessFrames \subseteq Frames
      BY DEF HarmlessFrames
    <2> HIDE DEF HarmlessFrames
    <2> QED BY <2>1, <2>2
  <1>4. \A i \in 1 .. Len(F) : /\ FrameOK(setting, old, F[i]) /\ Plain(F[i])
                               /\ F[i].call \in WriteCalls \/ Clearing(Tail(stack)) = {}
    BY <1>2, <1>3 DEF Harmless, HarmlessFrames
  <1>5. /\ StackOK(setting, old, st) /\ NoWrite(st)
        /\ \A b : HeldByFrames(st, b) = HeldByFrames(Tail(stack), b)
        /\ Clearing(st) = Clearing(Tail(stack)) /\ Finalizers(st) = Finalizers(Tail(stack))
    BY <1>2, <1>3, <1>4, PushedPlain
  <1>6. StackOK(s, full, st)
    BY <1>5, FullGrows
  <1>7. st \in Seq(Frames)
    BY <1>6 DEF StackOK
  <1>8. WriteOnTop(st) /\ (st # <<>> => Head(st).call # "write")
    BY <1>5, <1>7, NoWriteRuns DEF NoWrite, WriteOnTop
  <1>9. \A b : HeldByFrames(Tail(stack), b) \in Nat
    BY <1>2, FramesCount DEF StackOK
  <1> HIDE DEF st
  <1>10. \A b : HeldByFrames(st, b)
                = HeldByFrames(stack, b) - (IF Holds(Head(stack), b) THEN 1 ELSE 0)
    BY <1>2, <1>5, <1>9
  <1> QED BY <1>2, <1>5, <1>6, <1>8, <1>10 DEF st

LEMMA Passes ==
    ASSUME IInv, stack # <<>>, Plain(Head(stack)), BuffersStay, TypesInv',
           NEW F \in Seq(HarmlessFrames), stack' = F \o Tail(stack)
    PROVE  IInv'
  <1>1. TypesInv /\ StackInv /\ RefsInv
    BY DEF IInv
  <1>2. setting' = setting /\ Full(setting', pool') = Full(setting, pool)
    BY DEF BuffersStay
  <1>3. /\ StackOK(setting', Full(setting', pool'), stack') /\ NoWrite(stack') /\ WriteOnTop(stack')
        /\ stack' # <<>> => Head(stack').call # "write"
        /\ \A b : HeldByFrames(stack', b)
                  = HeldByFrames(stack, b) - (IF Holds(Head(stack), b) THEN 1 ELSE 0)
        /\ Clearing(stack) = Clearing(stack')
              \cup (IF Head(stack).call = "clearPendingWrite" THEN {Head(stack).arg} ELSE {})
        /\ Finalizers(stack) = Finalizers(stack')
              \cup (IF Head(stack).call = "finalized" THEN {Head(stack).of} ELSE {})
    BY <1>1, <1>2, Continues
  <1>4. StackInv'
    BY <1>3 DEF StackInv, Running
  <1>5. /\ \A b : HeldByFrames(stack', b) = HeldByFrames(stack, b)
        /\ Clearing(stack') = Clearing(stack) /\ Finalizers(stack') = Finalizers(stack)
    <2>1. /\ \A b : ~Holds(Head(stack), b) /\ Head(stack).call # "clearPendingWrite"
          /\ Head(stack).call # "finalized"
      BY DEF Plain, Holds
    <2>2. \A b : HeldByFrames(stack, b) \in Nat
      BY <1>1, FramesCount DEF StackInv, StackOK
    <2>3. ASSUME NEW b PROVE HeldByFrames(stack', b) = HeldByFrames(stack, b)
      <3>1. HeldByFrames(stack', b)
            = HeldByFrames(stack, b) - (IF Holds(Head(stack), b) THEN 1 ELSE 0)
        BY <1>3
      <3> QED BY <2>1, <2>2, <3>1
    <2> QED BY <1>3, <2>1, <2>3
  <1>6. ASSUME NEW b
        PROVE  Held(readable, writable, request, transform, pipe.pending, stack, b)'
               = Held(readable, writable, request, transform, pipe.pending, stack, b)
    <2>1. InQueues(readable', b) = InQueues(readable, b) /\ InQueues(writable', b) = InQueues(writable, b)
      <3>1. /\ readable \in ReadablesOver(Full(setting, pool))
            /\ readable' \in ReadablesOver(Full(setting', pool'))
            /\ writable \in WritablesOver(Full(setting, pool))
            /\ writable' \in WritablesOver(Full(setting', pool'))
        BY <1>1 DEF TypesInv
      <3>2. /\ \A x \in Readables : readable'[x].queue = readable[x].queue
            /\ \A x \in Writables : writable'[x].queue = writable[x].queue
        BY DEF BuffersStay
      <3> QED BY <3>1, <3>2, QueuesKept
    <2>2. /\ HeldBySinks(request', b) = HeldBySinks(request, b)
          /\ request'[Source].buffer = request[Source].buffer
      BY DEF BuffersStay, HeldBySinks
    <2>3. /\ HeldAsInput(transform', b) = HeldAsInput(transform, b)
          /\ \A fin : HeldAsOutput(transform', fin, b) = HeldAsOutput(transform, fin, b)
      BY SameTransforms DEF BuffersStay
    <2>4. pipe'.pending = pipe.pending
      BY DEF BuffersStay
    <2> QED BY <1>5, <2>1, <2>2, <2>3, <2>4 DEF Held
  <1>7. RefsInv'
    <2>1. pool' = pool /\ setting' = setting
      BY DEF BuffersStay
    <2> QED BY <1>1, <1>6, <2>1 DEF RefsInv
  <1> QED BY <1>4, <1>7 DEF IInv

LEMMA ReadableBecomes ==
    ASSUME IInv, this \in Readables, NEW v \in ReadableStates, Becomes(v)
    PROVE  /\ readable' \in ReadablesOver(Full(setting, pool))
           /\ \A y \in Readables : readable'[y].queue = readable[y].queue
  BY DEF IInv, TypesInv, ReadablesOver, Becomes

LEMMA WritableTurns ==
    ASSUME IInv, this \in Writables, NEW v \in WritableStates, Turns(v)
    PROVE  /\ writable' \in WritablesOver(Full(setting, pool))
           /\ \A y \in Writables : writable'[y].queue = writable[y].queue
  BY DEF IInv, TypesInv, WritablesOver, Turns

\* A step that changes nothing but the stack and, of one kind of stream, the states.
LEMMA OnlyCalls ==
    ASSUME IInv, stack # <<>>, Plain(Head(stack)), NEW F \in Seq(HarmlessFrames),
           Call(F),
           UNCHANGED <<setting, pool, readable, writable, request, transform, pipe, log>>
    PROVE  IInv'
  <1>1. TypesInv'
    BY DEF IInv, TypesInv
  <1>2. BuffersStay
    BY DEF BuffersStay
  <1> QED BY <1>1, <1>2, Passes DEF Call

LEMMA OnlyReadables ==
    ASSUME IInv, stack # <<>>, Plain(Head(stack)), NEW F \in Seq(HarmlessFrames),
           Call(F),
           readable' \in ReadablesOver(Full(setting, pool)),
           \A x \in Readables : readable'[x].queue = readable[x].queue,
           UNCHANGED <<setting, pool, writable, request, transform, pipe, log>>
    PROVE  IInv'
  <1>1. TypesInv'
    BY DEF IInv, TypesInv, WithinQueues
  <1>2. BuffersStay
    BY DEF BuffersStay
  <1> QED BY <1>1, <1>2, Passes DEF Call

LEMMA OnlyWritables ==
    ASSUME IInv, stack # <<>>, Plain(Head(stack)), NEW F \in Seq(HarmlessFrames),
           Call(F),
           writable' \in WritablesOver(Full(setting, pool)),
           \A x \in Writables : writable'[x].queue = writable[x].queue,
           UNCHANGED <<setting, pool, readable, request, transform, pipe, log>>
    PROVE  IInv'
  <1>1. TypesInv'
    BY DEF IInv, TypesInv, WithinQueues
  <1>2. BuffersStay
    BY DEF BuffersStay
  <1> QED BY <1>1, <1>2, Passes DEF Call

LEMMA OnlyPipe ==
    ASSUME IInv, stack # <<>>, Plain(Head(stack)), NEW F \in Seq(HarmlessFrames),
           Call(F),
           pipe' \in Pipes(setting, Full(setting, pool)), pipe'.pending = pipe.pending,
           UNCHANGED <<setting, pool, readable, writable, request, transform, log>>
    PROVE  IInv'
  <1>1. TypesInv'
    BY DEF IInv, TypesInv
  <1>2. BuffersStay
    BY DEF BuffersStay
  <1> QED BY <1>1, <1>2, Passes DEF Call

LEMMA OnlyLog ==
    ASSUME IInv, stack # <<>>, Plain(Head(stack)), NEW F \in Seq(HarmlessFrames),
           Call(F), log' \in Logs(setting),
           UNCHANGED <<setting, pool, readable, writable, request, transform, pipe>>
    PROVE  IInv'
  <1>1. TypesInv'
    BY DEF IInv, TypesInv
  <1>2. BuffersStay
    BY DEF BuffersStay
  <1> QED BY <1>1, <1>2, Passes DEF Call

\* The call on top of the stack.
LEMMA TopCall ==
    ASSUME IInv, stack # <<>>
    PROVE  /\ Head(stack) \in Frames /\ this \in Readables \cup Writables
           /\ Head(stack).call \in ReadableCalls =>
                  this \in UsedReadables(setting) /\ this \in Readables
           /\ Head(stack).call \in WritableCalls =>
                  this \in UsedWritables(setting) /\ this \in Writables
           /\ Head(stack).call \in TransformCalls =>
                  this \in UsedTransforms(setting) /\ this \in Transforms
           /\ Head(stack).call \in SourceCalls => this = Source
           /\ Head(stack).call \in BufferCalls =>
                  arg \in Full(setting, pool) /\ arg \in BuffersOf(setting)
           /\ Head(stack).call \notin {"eventError", "abort"} => arg \in Nat
           /\ Head(stack).call = "eventError" => message \in ErrorMessages
  <1>1. setting \in Settings /\ StackOK(setting, Full(setting, pool), stack)
    BY DEF IInv, TypesInv, StackInv
  <1>2. Head(stack) \in Frames /\ FrameOK(setting, Full(setting, pool), Head(stack))
    BY <1>1, TopFrame
  <1>3. /\ this \in Readables \cup Writables
        /\ Head(stack).call \notin {"eventError", "abort"} => arg \in Nat
        /\ Head(stack).call = "eventError" => message \in ErrorMessages
    <2>1. "eventError" \notin CallNames /\ "abort" \notin CallNames
      BY DEF CallNames, ReadableCalls, WritableCalls, TransformCalls, SourceCalls
    <2> QED BY <1>2, <2>1 DEF Frames, this, arg, message
  <1>4. /\ UsedReadables(setting) \subseteq Readables /\ UsedWritables(setting) \subseteq Writables
        /\ UsedTransforms(setting) \subseteq Transforms
    BY <1>1, SettingIs
  <1>5. Full(setting, pool) \subseteq BuffersOf(setting)
    BY DEF Full
  <1> QED BY <1>2, <1>3, <1>4, <1>5 DEF FrameOK, this, arg

\* The calls that streams make of each other without handing over a buffer.
Quiet(c) == c \notin BufferCalls \cup {"afterWork", "clearPendingWrite", "finalized"}

LEMMA Harms ==
    ASSUME NEW c \in CallNames, Quiet(c), NEW n \in Nat,
           NEW x \in Readables \cup Writables,
           c \in ReadableCalls => x \in UsedReadables(setting),
           c \in WritableCalls => x \in UsedWritables(setting),
           c \in TransformCalls => x \in UsedTransforms(setting),
           c \in SourceCalls => x = Source,
           c \in WriteCalls \/ Head(stack).call \notin WriteCalls
    PROVE  Frame(c, x, n) \in HarmlessFrames
  <1>1. Frame(c, x, n) = [call |-> c, of |-> x, arg |-> n]
    BY DEF Frame
  <1>2. Frame(c, x, n) \in Frames
    BY <1>1 DEF Frames
  <1>3. Frame(c, x, n).call = c /\ Frame(c, x, n).of = x
    BY <1>1
  <1>4. FrameOK(setting, Full(setting, pool), Frame(c, x, n))
    BY <1>3 DEF FrameOK, Quiet
  <1>5. c \notin HoldingCalls
    BY DEF Quiet, BufferCalls, HoldingCalls
  <1> QED BY <1>2, <1>3, <1>4, <1>5 DEF HarmlessFrames, Harmless, Plain, Quiet

LEMMA Errors ==
    ASSUME NEW x \in Readables \cup Writables, NEW what \in ErrorMessages, NEW assertion \in Assertions
    PROVE  /\ Error(x, what) \in HarmlessFrames /\ Abort(assertion) \in HarmlessFrames
           /\ <<Error(x, what)>> \in Seq(HarmlessFrames)
           /\ <<Abort(assertion)>> \in Seq(HarmlessFrames)
           /\ Error(x, what).call = "eventError" /\ Abort(assertion).call = "abort"
  <1>1. Source \in Readables \cup Writables
    BY DEF Readables
  <1>2. \A f \in {Error(x, what), Abort(assertion)} : f \in Frames /\ f.call \in {"eventError", "abort"}
    BY <1>1 DEF Error, Abort, Frames
  <1>3. \A f \in {Error(x, what), Abort(assertion)} : Harmless(f)
    BY <1>2 DEF Harmless, FrameOK, Plain, ReadableCalls, WritableCalls, TransformCalls, SourceCalls,
                BufferCalls, HoldingCalls, WriteCalls
  <1>4. Error(x, what).call = "eventError" /\ Abort(assertion).call = "abort"
    BY DEF Error, Abort
  <1>5. \A f \in HarmlessFrames : <<f>> \in Seq(HarmlessFrames)
    OBVIOUS
  <1>6. Error(x, what) \in HarmlessFrames /\ Abort(assertion) \in HarmlessFrames
    BY <1>2, <1>3 DEF HarmlessFrames
  <1> QED BY <1>4, <1>5, <1>6

\* Those of readable streams.
LEMMA ReadablesCalled ==
    ASSUME setting \in Settings, NEW x \in UsedReadables(setting), Head(stack).call \notin WriteCalls
    PROVE  \A c \in ReadableCalls \ (BufferCalls \cup SourceCalls) :
               Frame(c, x, NoBuffer) \in HarmlessFrames
  <1>1. x \in Readables \cup Writables
    BY SettingIs
  <1>2. ASSUME NEW c \in ReadableCalls \ (BufferCalls \cup SourceCalls)
        PROVE  Frame(c, x, NoBuffer) \in HarmlessFrames
    <2>3. c \in CallNames
      BY <1>2 DEF CallNames
    <2>4. c \notin BufferCalls /\ c \notin {"afterWork", "clearPendingWrite", "finalized"}
      BY <1>2 DEF ReadableCalls
    <2>5. c \notin WritableCalls
      BY <1>2 DEF ReadableCalls, WritableCalls
    <2>6. c \notin TransformCalls
      BY <1>2 DEF ReadableCalls, TransformCalls
    <2>1. /\ c \in CallNames /\ Quiet(c) /\ c \notin WritableCalls
          /\ c \notin TransformCalls
      BY <2>3, <2>4, <2>5, <2>6 DEF Quiet
    <2>2. NoBuffer \in Nat
      BY DEF NoBuffer
    <2> QED BY <1>1, <1>2, <2>1, <2>2, Harms
  <1> QED BY <1>2

\* Those of writable streams.
LEMMA WritablesCalled ==
    ASSUME setting \in Settings, NEW x \in UsedWritables(setting), NEW n \in Nat
    PROVE  \A c \in WritableCalls \ (BufferCalls \cup {"clearPendingWrite"}) :
               c \in WriteCalls \/ Head(stack).call \notin WriteCalls =>
                   Frame(c, x, n) \in HarmlessFrames
  <1>1. x \in Readables \cup Writables
    BY SettingIs
  <1>2. ASSUME NEW c \in WritableCalls \ (BufferCalls \cup {"clearPendingWrite"}),
               c \in WriteCalls \/ Head(stack).call \notin WriteCalls
        PROVE  Frame(c, x, n) \in HarmlessFrames
    <2>3. c \in CallNames
      BY <1>2 DEF CallNames
    <2>4. c \notin BufferCalls /\ c \notin {"afterWork", "clearPendingWrite", "finalized"}
      BY <1>2 DEF WritableCalls
    <2>5. c \notin ReadableCalls
      BY <1>2 DEF ReadableCalls, WritableCalls
    <2>6. c \notin TransformCalls /\ c \notin SourceCalls
      BY <1>2 DEF WritableCalls, TransformCalls, SourceCalls, BufferCalls
    <2>1. /\ c \in CallNames /\ Quiet(c) /\ c \notin ReadableCalls
          /\ c \notin TransformCalls /\ c \notin SourceCalls
      BY <2>3, <2>4, <2>5, <2>6 DEF Quiet
    <2> QED BY <1>1, <1>2, <2>1, Harms
  <1> QED BY <1>2

-----------------------------------------------------------------------------
(* The steps of readable streams that hand over no buffer                  *)

LEMMA EmitErrorKeeps == IInv /\ EmitError => IInv'
  <1> SUFFICES ASSUME IInv, EmitError PROVE IInv'
    OBVIOUS
  <1>1. stack # <<>> /\ Head(stack).call = "eventError" /\ Plain(Head(stack))
    BY DEF EmitError, Running, Plain, HoldingCalls
  <1>2. message \in ErrorMessages
    BY <1>1, TopCall
  <1>3. log' \in Logs(setting)
    BY <1>2 DEF EmitError, IInv, TypesInv, Logs
  <1>4. Call(<<>>) /\ <<>> \in Seq(HarmlessFrames)
    BY DEF EmitError, Return
  <1>5. UNCHANGED <<setting, pool, readable, writable, request, transform, pipe>>
    BY DEF EmitError
  <1> QED BY <1>1, <1>3, <1>4, <1>5, OnlyLog

LEMMA MaybeDestroyEndedKeeps == IInv /\ MaybeDestroyEnded => IInv'
  <1> SUFFICES ASSUME IInv, MaybeDestroyEnded PROVE IInv'
    OBVIOUS
  <1>1. stack # <<>> /\ Head(stack).call = "maybeDestroyEnded" /\ Plain(Head(stack))
    BY DEF MaybeDestroyEnded, Running, Plain, HoldingCalls
  <1>2. this \in UsedReadables(setting) /\ setting \in Settings
    BY <1>1, TopCall DEF ReadableCalls, IInv, TypesInv
  <1>3. Do("destroyReadable") \in HarmlessFrames
    BY <1>1, <1>2, ReadablesCalled DEF Do, ReadableCalls, BufferCalls, SourceCalls, WriteCalls
  <1>7. /\ <<>> \in Seq(HarmlessFrames)
        /\ <<Do("destroyReadable")>> \in Seq(HarmlessFrames)
    BY <1>3
  <1>4. \E F \in Seq(HarmlessFrames) : Call(F)
    BY <1>7 DEF MaybeDestroyEnded, Return
  <1> QED BY <1>1, <1>4, OnlyCalls DEF MaybeDestroyEnded, others

LEMMA PushedSyncKeeps == IInv /\ PushedSync => IInv'
  <1> SUFFICES ASSUME IInv, PushedSync PROVE IInv'
    OBVIOUS
  <1>1. stack # <<>> /\ Head(stack).call = "pushedSync" /\ Plain(Head(stack))
    BY DEF PushedSync, Running, Plain, HoldingCalls
  <1>2. this \in Readables /\ readable \in ReadablesOver(Full(setting, pool))
    BY <1>1, TopCall DEF ReadableCalls, IInv, TypesInv
  <1>3. /\ readable' \in ReadablesOver(Full(setting, pool))
        /\ \A x \in Readables : readable'[x].queue = readable[x].queue
    BY <1>2, ReadableBecomes DEF PushedSync, ReadableStates
  <1>4. Call(<<>>) /\ <<>> \in Seq(HarmlessFrames)
    BY DEF PushedSync, Return
  <1> QED BY <1>1, <1>3, <1>4, OnlyReadables DEF PushedSync, others

LEMMA PushedAsyncKeeps == IInv /\ PushedAsync => IInv'
  <1> SUFFICES ASSUME IInv, PushedAsync PROVE IInv'
    OBVIOUS
  <1>1. stack # <<>> /\ Head(stack).call = "pushedAsync" /\ Plain(Head(stack))
    BY DEF PushedAsync, Running, Plain, HoldingCalls
  <1>2. this \in Readables /\ readable \in ReadablesOver(Full(setting, pool))
    BY <1>1, TopCall DEF ReadableCalls, IInv, TypesInv
  <1>5. readable[this].state \in ReadableStates
    BY <1>2 DEF ReadablesOver
  <1>3. /\ readable' \in ReadablesOver(Full(setting, pool))
        /\ \A x \in Readables : readable'[x].queue = readable[x].queue
    BY <1>2, <1>5, ReadableBecomes DEF PushedAsync, ReadableStates, It
  <1>4. Call(<<>>) /\ <<>> \in Seq(HarmlessFrames)
    BY DEF PushedAsync, Return
  <1> QED BY <1>1, <1>3, <1>4, OnlyReadables DEF PushedAsync, others

LEMMA ReactivateKeeps == IInv /\ Reactivate => IInv'
  <1> SUFFICES ASSUME IInv, Reactivate PROVE IInv'
    OBVIOUS
  <1>1. stack # <<>> /\ Head(stack).call = "reactivate" /\ Plain(Head(stack))
    BY DEF Reactivate, Running, Plain, HoldingCalls
  <1>2. /\ this \in UsedReadables(setting) /\ setting \in Settings
        /\ this \in Readables /\ readable \in ReadablesOver(Full(setting, pool))
    BY <1>1, TopCall DEF ReadableCalls, IInv, TypesInv
  <1>3. /\ readable' \in ReadablesOver(Full(setting, pool))
        /\ \A x \in Readables : readable'[x].queue = readable[x].queue
    BY <1>2, ReadableBecomes DEF Reactivate, ReadableStates
  <1>4. Do("executeRead") \in HarmlessFrames
    BY <1>1, <1>2, ReadablesCalled DEF Do, ReadableCalls, BufferCalls, SourceCalls, WriteCalls
  <1>5. <<Error(this, "reactivateInWrongState")>> \in Seq(HarmlessFrames)
    BY <1>2, Errors DEF ErrorMessages, Assertions
  <1>7. /\ <<>> \in Seq(HarmlessFrames)
        /\ <<Do("executeRead")>> \in Seq(HarmlessFrames)
        /\ <<Error(this, "reactivateInWrongState")>> \in Seq(HarmlessFrames)
    BY <1>4, <1>5
  <1>6. \E F \in Seq(HarmlessFrames) : Call(F)
    BY <1>7 DEF Reactivate, Return
  <1> QED BY <1>1, <1>3, <1>6, OnlyReadables DEF Reactivate, others

LEMMA PauseKeeps == IInv /\ Pause => IInv'
  <1> SUFFICES ASSUME IInv, Pause PROVE IInv'
    OBVIOUS
  <1>1. stack # <<>> /\ Head(stack).call = "pause" /\ Plain(Head(stack))
    BY DEF Pause, Running, Plain, HoldingCalls
  <1>2. this \in Readables /\ readable \in ReadablesOver(Full(setting, pool))
    BY <1>1, TopCall DEF ReadableCalls, IInv, TypesInv
  <1>3. /\ readable' \in ReadablesOver(Full(setting, pool))
        /\ \A x \in Readables : readable'[x].queue = readable[x].queue
    BY <1>2, ReadableBecomes DEF Pause, ReadableStates
  <1>5. <<Error(this, "pauseInWrongState")>> \in Seq(HarmlessFrames)
    BY <1>2, Errors DEF ErrorMessages, Assertions
  <1>7. /\ <<>> \in Seq(HarmlessFrames)
        /\ <<Error(this, "pauseInWrongState")>> \in Seq(HarmlessFrames)
    BY <1>5
  <1>6. \E F \in Seq(HarmlessFrames) : Call(F)
    BY <1>7 DEF Pause, Return
  <1> QED BY <1>1, <1>3, <1>6, OnlyReadables DEF Pause, others

LEMMA ResumeReadingKeeps == IInv /\ ResumeReading => IInv'
  <1> SUFFICES ASSUME IInv, ResumeReading PROVE IInv'
    OBVIOUS
  <1>1. stack # <<>> /\ Head(stack).call = "resumeReading" /\ Plain(Head(stack))
    BY DEF ResumeReading, Running, Plain, HoldingCalls
  <1>2. this \in UsedReadables(setting) /\ setting \in Settings /\ this \in Readables
    BY <1>1, TopCall DEF ReadableCalls, IInv, TypesInv
  <1>3. Do("executeRead") \in HarmlessFrames /\ Do("emitOnData") \in HarmlessFrames
    BY <1>1, <1>2, ReadablesCalled DEF Do, ReadableCalls, BufferCalls, SourceCalls, WriteCalls
  <1>5. <<Error(this, "resumeInWrongState")>> \in Seq(HarmlessFrames)
    BY <1>2, Errors DEF ErrorMessages, Assertions
  <1>7. /\ <<>> \in Seq(HarmlessFrames)
        /\ <<Do("executeRead")>> \in Seq(HarmlessFrames)
        /\ <<Do("emitOnData")>> \in Seq(HarmlessFrames)
        /\ <<Error(this, "resumeInWrongState")>> \in Seq(HarmlessFrames)
    BY <1>3, <1>5
  <1>6. \E F \in Seq(HarmlessFrames) : Call(F)
    BY <1>7 DEF ResumeReading
  <1> QED BY <1>1, <1>6, OnlyCalls DEF ResumeReading, others

LEMMA ExecuteReadKeeps == IInv /\ ExecuteRead => IInv'
  <1> SUFFICES ASSUME IInv, ExecuteRead PROVE IInv'
    OBVIOUS
  <1>1. stack # <<>> /\ Head(stack).call = "executeRead" /\ Plain(Head(stack))
    BY DEF ExecuteRead, Running, Plain, HoldingCalls
  <1>2. /\ this \in UsedReadables(setting) /\ setting \in Settings
        /\ this \in Readables /\ readable \in ReadablesOver(Full(setting, pool))
    BY <1>1, TopCall DEF ReadableCalls, IInv, TypesInv
  <1>3. /\ readable' \in ReadablesOver(Full(setting, pool))
        /\ \A x \in Readables : readable'[x].queue = readable[x].queue
    BY <1>2, ReadableBecomes DEF ExecuteRead, ReadableStates
  <1>4. Do("emitOnData") \in HarmlessFrames /\ Do("readLoop") \in HarmlessFrames
    BY <1>1, <1>2, ReadablesCalled DEF Do, ReadableCalls, BufferCalls, SourceCalls, WriteCalls
  <1>5. /\ <<>> \in Seq(HarmlessFrames) /\ <<Do("emitOnData")>> \in Seq(HarmlessFrames)
        /\ <<Do("readLoop")>> \in Seq(HarmlessFrames)
    BY <1>4
  <1>6. \E F \in Seq(HarmlessFrames) : Call(F)
    <2>1. (IF It.queue = <<>> THEN <<>> ELSE <<Do("emitOnData")>>) \o <<Do("readLoop")>>
          \in Seq(HarmlessFrames)
      BY <1>5, ConcatProperties
    <2> QED BY <2>1 DEF ExecuteRead
  <1> QED BY <1>1, <1>3, <1>6, OnlyReadables DEF ExecuteRead, others

LEMMA ReadLoopKeeps == IInv /\ ReadLoop => IInv'
  <1> SUFFICES ASSUME IInv, ReadLoop PROVE IInv'
    OBVIOUS
  <1>1. stack # <<>> /\ Head(stack).call = "readLoop" /\ Plain(Head(stack))
    BY DEF ReadLoop, Running, Plain, HoldingCalls
  <1>2. this \in UsedReadables(setting) /\ setting \in Settings
    BY <1>1, TopCall DEF ReadableCalls, IInv, TypesInv
  <1>3. Do("asyncRead") \in HarmlessFrames /\ Do("afterAsyncRead") \in HarmlessFrames
    BY <1>1, <1>2, ReadablesCalled DEF Do, ReadableCalls, BufferCalls, SourceCalls, WriteCalls
  <1>7. /\ <<>> \in Seq(HarmlessFrames)
        /\ <<Do("asyncRead"), Do("afterAsyncRead")>> \in Seq(HarmlessFrames)
    BY <1>3
  <1>4. \E F \in Seq(HarmlessFrames) : Call(F)
    BY <1>7 DEF ReadLoop, Return
  <1> QED BY <1>1, <1>4, OnlyCalls DEF ReadLoop, others

LEMMA AfterAsyncReadKeeps == IInv /\ AfterAsyncRead => IInv'
  <1> SUFFICES ASSUME IInv, AfterAsyncRead PROVE IInv'
    OBVIOUS
  <1>1. stack # <<>> /\ Head(stack).call = "afterAsyncRead" /\ Plain(Head(stack))
    BY DEF AfterAsyncRead, Running, Plain, HoldingCalls
  <1>2. /\ this \in UsedReadables(setting) /\ setting \in Settings
        /\ this \in Readables /\ readable \in ReadablesOver(Full(setting, pool))
    BY <1>1, TopCall DEF ReadableCalls, IInv, TypesInv
  <1>3. /\ readable' \in ReadablesOver(Full(setting, pool))
        /\ \A x \in Readables : readable'[x].queue = readable[x].queue
    BY <1>2, ReadableBecomes DEF AfterAsyncRead, ReadableStates
  <1>4. Do("readLoop") \in HarmlessFrames
    BY <1>1, <1>2, ReadablesCalled DEF Do, ReadableCalls, BufferCalls, SourceCalls, WriteCalls
  <1>5. <<Error(this, "forgotToReactivate")>> \in Seq(HarmlessFrames)
    BY <1>2, Errors DEF ErrorMessages, Assertions
  <1>7. /\ <<>> \in Seq(HarmlessFrames)
        /\ <<Do("readLoop")>> \in Seq(HarmlessFrames)
        /\ <<Error(this, "forgotToReactivate")>> \in Seq(HarmlessFrames)
    BY <1>4, <1>5
  <1>6. \E F \in Seq(HarmlessFrames) : Call(F)
    BY <1>7 DEF AfterAsyncRead, Return
  <1> QED BY <1>1, <1>3, <1>6, OnlyReadables DEF AfterAsyncRead, others

LEMMA PushEndKeeps == IInv /\ PushEnd => IInv'
  <1> SUFFICES ASSUME IInv, PushEnd PROVE IInv'
    OBVIOUS
  <1>1. stack # <<>> /\ Head(stack).call = "pushEnd" /\ Plain(Head(stack))
    BY DEF PushEnd, Running, Plain, HoldingCalls
  <1>2. /\ this \in UsedReadables(setting) /\ setting \in Settings
        /\ this \in Readables /\ readable \in ReadablesOver(Full(setting, pool))
    BY <1>1, TopCall DEF ReadableCalls, IInv, TypesInv
  <1>3. /\ readable' \in ReadablesOver(Full(setting, pool))
        /\ \A x \in Readables : readable'[x].queue = readable[x].queue
    BY <1>2, ReadableBecomes DEF PushEnd, ReadableStates
  <1>4. Do("eventEnd") \in HarmlessFrames /\ Do("maybeDestroyEnded") \in HarmlessFrames
    BY <1>1, <1>2, ReadablesCalled DEF Do, ReadableCalls, BufferCalls, SourceCalls, WriteCalls
  <1>5. <<Error(this, "pushEndInWrongState")>> \in Seq(HarmlessFrames)
    BY <1>2, Errors DEF ErrorMessages, Assertions
  <1>7. /\ <<>> \in Seq(HarmlessFrames)
        /\ <<Error(this, "pushEndInWrongState")>> \in Seq(HarmlessFrames)
        /\ <<Do("eventEnd"), Do("maybeDestroyEnded")>> \in Seq(HarmlessFrames)
    BY <1>4, <1>5
  <1>6. \E F \in Seq(HarmlessFrames) : Call(F)
    BY <1>7 DEF PushEnd, Return
  <1> QED BY <1>1, <1>3, <1>6, OnlyReadables DEF PushEnd, others

LEMMA FinishedDestroyingReadableKeeps == IInv /\ FinishedDestroyingReadable => IInv'
  <1> SUFFICES ASSUME IInv, FinishedDestroyingReadable PROVE IInv'
    OBVIOUS
  <1>1. /\ stack # <<>> /\ Head(stack).call = "finishedDestroyingReadable" /\ Plain(Head(stack))
    BY DEF FinishedDestroyingReadable, Running, Plain, HoldingCalls
  <1>2. /\ this \in UsedReadables(setting) /\ setting \in Settings
        /\ this \in Readables /\ readable \in ReadablesOver(Full(setting, pool))
    BY <1>1, TopCall DEF ReadableCalls, IInv, TypesInv
  <1>3. /\ readable' \in ReadablesOver(Full(setting, pool))
        /\ \A x \in Readables : readable'[x].queue = readable[x].queue
    BY <1>2 DEF FinishedDestroyingReadable, ReadablesOver, ReadableStates
  <1>4. Do("eventCloseReadable") \in HarmlessFrames
    BY <1>1, <1>2, ReadablesCalled DEF Do, ReadableCalls, BufferCalls, SourceCalls, WriteCalls
  <1>7. /\ <<>> \in Seq(HarmlessFrames)
        /\ <<Do("eventCloseReadable")>> \in Seq(HarmlessFrames)
    BY <1>4
  <1>6. \E F \in Seq(HarmlessFrames) : Call(F)
    BY <1>7 DEF FinishedDestroyingReadable, Return
  <1> QED BY <1>1, <1>3, <1>6, OnlyReadables DEF FinishedDestroyingReadable, others

-----------------------------------------------------------------------------
(* The steps of writable streams that hand over no buffer                  *)

LEMMA EndQuietlyKeeps == IInv /\ EndQuietly => IInv'
  <1> SUFFICES ASSUME IInv, EndQuietly PROVE IInv'
    OBVIOUS
  <1>1. stack # <<>> /\ Head(stack).call = "endQuietly" /\ Plain(Head(stack))
    BY DEF EndQuietly, Running, Plain, HoldingCalls
  <1>2. this \in UsedWritables(setting) /\ setting \in Settings /\ this \in Writables
    BY <1>1, TopCall DEF WritableCalls, IInv, TypesInv
  <1>3. /\ writable' \in WritablesOver(Full(setting, pool))
        /\ \A x \in Writables : writable'[x].queue = writable[x].queue
    BY <1>2, WritableTurns DEF EndQuietly, W, WritableStates, IInv, TypesInv
  <1>4. /\ Do("destroyWritable") \in HarmlessFrames
    BY <1>1, <1>2, WritablesCalled DEF Do, NoBuffer, WritableCalls, BufferCalls, WriteCalls
  <1>5. /\ <<>> \in Seq(HarmlessFrames)
        /\ <<Do("destroyWritable")>> \in Seq(HarmlessFrames)
    BY <1>4
  <1>6. \E F \in Seq(HarmlessFrames) : Call(F)
    BY <1>5 DEF EndQuietly, Return
  <1> QED BY <1>1, <1>3, <1>6, OnlyWritables DEF EndQuietly, rest

LEMMA EndIfPossibleKeeps == IInv /\ EndIfPossible => IInv'
  <1> SUFFICES ASSUME IInv, EndIfPossible PROVE IInv'
    OBVIOUS
  <1>1. stack # <<>> /\ Head(stack).call = "endIfPossible" /\ Plain(Head(stack))
    BY DEF EndIfPossible, Running, Plain, HoldingCalls
  <1>2. this \in UsedWritables(setting) /\ setting \in Settings /\ this \in Writables
    BY <1>1, TopCall DEF WritableCalls, IInv, TypesInv
  <1>3. /\ writable' \in WritablesOver(Full(setting, pool))
        /\ \A x \in Writables : writable'[x].queue = writable[x].queue
    <2>1. (IF CanEnd(this) THEN "Ended" ELSE writable[this].state) \in WritableStates
      BY <1>2 DEF IInv, TypesInv, WritablesOver, WritableStates
    <2> QED BY <1>2, <2>1, WritableTurns DEF EndIfPossible, W
  <1>5. /\ <<>> \in Seq(HarmlessFrames)
    OBVIOUS
  <1>6. \E F \in Seq(HarmlessFrames) : Call(F)
    BY <1>5 DEF EndIfPossible, Return
  <1> QED BY <1>1, <1>3, <1>6, OnlyWritables DEF EndIfPossible, rest

LEMMA AfterCallbackKeeps == IInv /\ AfterCallback => IInv'
  <1> SUFFICES ASSUME IInv, AfterCallback PROVE IInv'
    OBVIOUS
  <1>1. stack # <<>> /\ Head(stack).call = "afterCallback" /\ Plain(Head(stack))
    BY DEF AfterCallback, Running, Plain, HoldingCalls
  <1>2. this \in UsedWritables(setting) /\ setting \in Settings /\ this \in Writables
    BY <1>1, TopCall DEF WritableCalls, IInv, TypesInv
  <1>4. /\ Do("destroyWritable") \in HarmlessFrames
        /\ Do("eventFinish") \in HarmlessFrames
    BY <1>1, <1>2, WritablesCalled DEF Do, NoBuffer, WritableCalls, BufferCalls, WriteCalls
  <1>5. /\ <<>> \in Seq(HarmlessFrames)
        /\ <<Do("eventFinish"), Do("destroyWritable")>> \in Seq(HarmlessFrames)
    BY <1>4
  <1>6. \E F \in Seq(HarmlessFrames) : Call(F)
    BY <1>5 DEF AfterCallback, Return
  <1> QED BY <1>1, <1>6, OnlyCalls DEF AfterCallback, rest

LEMMA EndKeeps == IInv /\ End => IInv'
  <1> SUFFICES ASSUME IInv, End PROVE IInv'
    OBVIOUS
  <1>1. stack # <<>> /\ Head(stack).call = "end" /\ Plain(Head(stack))
    BY DEF End, Running, Plain, HoldingCalls
  <1>2. this \in UsedWritables(setting) /\ setting \in Settings /\ this \in Writables
    BY <1>1, TopCall DEF WritableCalls, IInv, TypesInv
  <1>3. /\ writable' \in WritablesOver(Full(setting, pool))
        /\ \A x \in Writables : writable'[x].queue = writable[x].queue
    BY <1>2, WritableTurns DEF End, W, WritableStates, IInv, TypesInv
  <1>4. /\ Do("canEndWritable") \in HarmlessFrames
        /\ Do("endNow") \in HarmlessFrames
    BY <1>1, <1>2, WritablesCalled DEF Do, NoBuffer, WritableCalls, BufferCalls, WriteCalls
  <1>5. /\ <<>> \in Seq(HarmlessFrames)
        /\ <<Do("canEndWritable"), Do("endNow")>> \in Seq(HarmlessFrames)
        /\ <<Error(this, "endAlreadyCalled")>> \in Seq(HarmlessFrames)
    BY <1>4, <1>2, Errors DEF ErrorMessages, Assertions
  <1>6. \E F \in Seq(HarmlessFrames) : Call(F)
    BY <1>5 DEF End, Return
  <1> QED BY <1>1, <1>3, <1>6, OnlyWritables DEF End, rest

LEMMA EndNowKeeps == IInv /\ EndNow => IInv'
  <1> SUFFICES ASSUME IInv, EndNow PROVE IInv'
    OBVIOUS
  <1>1. stack # <<>> /\ Head(stack).call = "endNow" /\ Plain(Head(stack))
    BY DEF EndNow, Running, Plain, HoldingCalls
  <1>2. this \in UsedWritables(setting) /\ setting \in Settings /\ this \in Writables
    BY <1>1, TopCall DEF WritableCalls, IInv, TypesInv
  <1>3. /\ writable' \in WritablesOver(Full(setting, pool))
        /\ \A x \in Writables : writable'[x].queue = writable[x].queue
    BY <1>2, WritableTurns DEF EndNow, W, WritableStates, IInv, TypesInv
  <1>4. /\ Do("destroyWritable") \in HarmlessFrames
        /\ Do("eventFinish") \in HarmlessFrames
    BY <1>1, <1>2, WritablesCalled DEF Do, NoBuffer, WritableCalls, BufferCalls, WriteCalls
  <1>5. /\ <<>> \in Seq(HarmlessFrames)
        /\ <<Do("eventFinish"), Do("destroyWritable")>> \in Seq(HarmlessFrames)
    BY <1>4
  <1>6. \E F \in Seq(HarmlessFrames) : Call(F)
    BY <1>5 DEF EndNow, Return
  <1> QED BY <1>1, <1>3, <1>6, OnlyWritables DEF EndNow, rest

LEMMA FinishedDestroyingWritableKeeps == IInv /\ FinishedDestroyingWritable => IInv'
  <1> SUFFICES ASSUME IInv, FinishedDestroyingWritable PROVE IInv'
    OBVIOUS
  <1>1. stack # <<>> /\ Head(stack).call = "finishedDestroyingWritable" /\ Plain(Head(stack))
    BY DEF FinishedDestroyingWritable, Running, Plain, HoldingCalls
  <1>2. this \in UsedWritables(setting) /\ setting \in Settings /\ this \in Writables
    BY <1>1, TopCall DEF WritableCalls, IInv, TypesInv
  <1>3. /\ writable' \in WritablesOver(Full(setting, pool))
        /\ \A x \in Writables : writable'[x].queue = writable[x].queue
    BY <1>2 DEF FinishedDestroyingWritable, WritablesOver, WritableStates, IInv, TypesInv
  <1>4. /\ Do("eventCloseWritable") \in HarmlessFrames
    BY <1>1, <1>2, WritablesCalled DEF Do, NoBuffer, WritableCalls, BufferCalls, WriteCalls
  <1>5. /\ <<>> \in Seq(HarmlessFrames)
        /\ <<Do("eventCloseWritable")>> \in Seq(HarmlessFrames)
    BY <1>4
  <1>6. \E F \in Seq(HarmlessFrames) : Call(F)
    BY <1>5 DEF FinishedDestroyingWritable, Return
  <1> QED BY <1>1, <1>3, <1>6, OnlyWritables DEF FinishedDestroyingWritable, rest

LEMMA CanEndSinkKeeps == IInv /\ CanEndSink => IInv'
  <1> SUFFICES ASSUME IInv, CanEndSink PROVE IInv'
    OBVIOUS
  <1>1. stack # <<>> /\ Head(stack).call = "canEndWritable" /\ Plain(Head(stack))
    BY DEF CanEndSink, Running, Plain, HoldingCalls
  <1>2. this \in UsedWritables(setting) /\ setting \in Settings /\ this \in Writables
    BY <1>1, TopCall DEF WritableCalls, IInv, TypesInv
  <1>5. /\ <<>> \in Seq(HarmlessFrames)
    OBVIOUS
  <1>6. \E F \in Seq(HarmlessFrames) : Call(F)
    BY <1>5 DEF CanEndSink, Return
  <1> QED BY <1>1, <1>6, OnlyCalls DEF CanEndSink

-----------------------------------------------------------------------------
(* The steps of the pipeline and of duplex streams that hand over no buffer *)

LEMMA PipeCalls ==
    ASSUME setting \in Settings, Head(stack).call \notin WriteCalls
    PROVE  /\ \A t \in UsedTransforms(setting) :
                  Frame("resumeTransform", t, NoBuffer) \in HarmlessFrames
           /\ Frame("resumeSource", Source, NoBuffer) \in HarmlessFrames
           /\ Frame("resumeReading", Source, NoBuffer) \in HarmlessFrames
           /\ \A x \in Readables \cup Writables :
                  /\ Frame("endPipes", x, NoBuffer) \in HarmlessFrames
                  /\ Frame("unpipe", x, NoBuffer) \in HarmlessFrames
  <1>1. NoBuffer \in Nat
    BY DEF NoBuffer
  <1>2. UsedTransforms(setting) \subseteq Readables \cup Writables
    BY SettingIs DEF Readables
  <1>3. Source \in Readables /\ Source \in UsedReadables(setting)
    BY DEF Readables, UsedReadables
  <1>4. ASSUME NEW t \in UsedTransforms(setting)
        PROVE  Frame("resumeTransform", t, NoBuffer) \in HarmlessFrames
    <2>1. /\ "resumeTransform" \in CallNames /\ Quiet("resumeTransform")
          /\ "resumeTransform" \notin ReadableCalls \cup WritableCalls \cup SourceCalls
      BY DEF CallNames, Quiet, ReadableCalls, WritableCalls, TransformCalls, SourceCalls, BufferCalls
    <2> QED BY <1>1, <1>2, <1>4, <2>1, Harms
  <1>5. Frame("resumeSource", Source, NoBuffer) \in HarmlessFrames
    <2>1. /\ "resumeSource" \in CallNames /\ Quiet("resumeSource")
          /\ "resumeSource" \notin ReadableCalls \cup WritableCalls \cup TransformCalls
      BY DEF CallNames, Quiet, ReadableCalls, WritableCalls, TransformCalls, SourceCalls, BufferCalls
    <2> QED BY <1>1, <1>3, <2>1, Harms
  <1>6. Frame("resumeReading", Source, NoBuffer) \in HarmlessFrames
    BY <1>3, ReadablesCalled DEF ReadableCalls, BufferCalls, SourceCalls
  <1>7. ASSUME NEW x \in Readables \cup Writables, NEW c \in {"endPipes", "unpipe"}
        PROVE  Frame(c, x, NoBuffer) \in HarmlessFrames
    <2>1. /\ c \in CallNames /\ Quiet(c)
          /\ c \notin ReadableCalls \cup WritableCalls \cup TransformCalls \cup SourceCalls
      BY DEF CallNames, Quiet, ReadableCalls, WritableCalls, TransformCalls, SourceCalls, BufferCalls
    <2> QED BY <1>1, <2>1, Harms
  <1> QED BY <1>4, <1>5, <1>6, <1>7

LEMMA PipeTypes ==
    ASSUME IInv, NEW ended \in BOOLEAN, NEW ending \in BOOLEAN, NEW piped \in BOOLEAN,
           NEW S \in SUBSET Sinks
    PROVE  /\ [pipe EXCEPT !.shouldEndWhenDrained = ended] \in Pipes(setting, Full(setting, pool))
           /\ [pipe EXCEPT !.endingPipes = ending, !.finishing = S]
                  \in Pipes(setting, Full(setting, pool))
           /\ [pipe EXCEPT !.finishing = S] \in Pipes(setting, Full(setting, pool))
           /\ [pipe EXCEPT !.shouldEndWhenDrained = ended].pending = pipe.pending
           /\ [pipe EXCEPT !.endingPipes = ending, !.finishing = S].pending = pipe.pending
           /\ [pipe EXCEPT !.finishing = S].pending = pipe.pending
  BY DEF IInv, TypesInv, Pipes

LEMMA LogTypes ==
    ASSUME log \in Logs(setting), NEW n \in Nat
    PROVE  /\ \A x \in Readables \cup Sinks : [log EXCEPT !.closed[x] = @ + 1] \in Logs(setting)
           /\ \A k \in Sinks : [log EXCEPT !.written[k] = Append(@, n)] \in Logs(setting)
           /\ \A usage \in setting.usage :
                  [log EXCEPT !.asked = @ \cup {usage}] \in Logs(setting)
           /\ [log EXCEPT !.read = @ + 1] \in Logs(setting)
  <1>1. /\ log.closed \in [Readables \cup Sinks -> Nat] /\ log.written \in [Sinks -> Seq(Nat)]
        /\ log.read \in Nat /\ log.asked \in SUBSET setting.usage
    BY DEF Logs
  <1>2. ASSUME NEW x \in Readables \cup Sinks
        PROVE  [log EXCEPT !.closed[x] = @ + 1] \in Logs(setting)
    <2>1. [log.closed EXCEPT ![x] = @ + 1] \in [Readables \cup Sinks -> Nat]
      BY <1>1
    <2>2. [log EXCEPT !.closed[x] = @ + 1]
          = [log EXCEPT !.closed = [log.closed EXCEPT ![x] = @ + 1]]
      BY DEF Logs
    <2> QED BY <2>1, <2>2 DEF Logs
  <1>3. ASSUME NEW k \in Sinks
        PROVE  [log EXCEPT !.written[k] = Append(@, n)] \in Logs(setting)
    <2>1. [log.written EXCEPT ![k] = Append(@, n)] \in [Sinks -> Seq(Nat)]
      BY <1>1
    <2>2. [log EXCEPT !.written[k] = Append(@, n)]
          = [log EXCEPT !.written = [log.written EXCEPT ![k] = Append(@, n)]]
      BY DEF Logs
    <2> QED BY <2>1, <2>2 DEF Logs
  <1>4. ASSUME NEW usage \in setting.usage
        PROVE  [log EXCEPT !.asked = @ \cup {usage}] \in Logs(setting)
    <2>1. log.asked \cup {usage} \in SUBSET setting.usage
      BY <1>1
    <2> QED BY <2>1 DEF Logs
  <1>5. [log EXCEPT !.read = @ + 1] \in Logs(setting)
    <2>1. log.read + 1 \in Nat
      BY <1>1
    <2> QED BY <2>1 DEF Logs
  <1> QED BY <1>2, <1>3, <1>4, <1>5

LEMMA DuplexCallsKeeps == IInv /\ DuplexCalls => IInv'
  <1> SUFFICES ASSUME IInv, DuplexCalls PROVE IInv'
    OBVIOUS
  <1>1. /\ stack # <<>> /\ Plain(Head(stack)) /\ setting \in Settings
        /\ Head(stack).call \in {"asyncRead", "asyncDestroyReadable", "asyncDestroyWritable"}
    BY DEF DuplexCalls, Running, Plain, HoldingCalls, IInv, TypesInv
  <1>2. \E F \in Seq(HarmlessFrames) : Call(F)
    <2>1. CASE Head(stack).call = "asyncRead"
      <3>1. Call(<<>>) /\ <<>> \in Seq(HarmlessFrames)
        BY <2>1 DEF DuplexCalls, Running, Return
      <3> QED BY <3>1
    <2>2. CASE Head(stack).call = "asyncDestroyReadable"
      <3>1. this \in UsedReadables(setting)
        BY <1>1, <2>2, TopCall DEF ReadableCalls
      <3>2. Do("finishedDestroyingReadable") \in HarmlessFrames
        BY <1>1, <2>2, <3>1, ReadablesCalled
           DEF Do, ReadableCalls, BufferCalls, SourceCalls, WriteCalls
      <3>3. Call(<<Do("finishedDestroyingReadable")>>)
        BY <2>2 DEF DuplexCalls, Running
      <3>4. <<Do("finishedDestroyingReadable")>> \in Seq(HarmlessFrames)
        BY <3>2
      <3> QED BY <3>3, <3>4
    <2>3. CASE Head(stack).call = "asyncDestroyWritable"
      <3>1. this \in UsedWritables(setting)
        BY <1>1, <2>3, TopCall DEF WritableCalls
      <3>2. Do("finishedDestroyingWritable") \in HarmlessFrames
        BY <1>1, <2>3, <3>1, WritablesCalled DEF Do, NoBuffer, WritableCalls, BufferCalls, WriteCalls
      <3>3. Call(<<Do("finishedDestroyingWritable")>>)
        BY <2>3 DEF DuplexCalls, Running
      <3>4. <<Do("finishedDestroyingWritable")>> \in Seq(HarmlessFrames)
        BY <3>2
      <3> QED BY <3>3, <3>4
    <2> QED BY <1>1, <2>1, <2>2, <2>3
  <1> QED BY <1>1, <1>2, OnlyCalls DEF DuplexCalls, data

LEMMA AfterRetryKeeps == IInv /\ AfterRetry => IInv'
  <1> SUFFICES ASSUME IInv, AfterRetry PROVE IInv'
    OBVIOUS
  <1>1. /\ stack # <<>> /\ Head(stack).call = "afterRetry" /\ Plain(Head(stack))
        /\ setting \in Settings /\ Head(stack).call \notin WriteCalls
    BY DEF AfterRetry, Running, Plain, HoldingCalls, IInv, TypesInv, WriteCalls
  <1>2. /\ pipe' \in Pipes(setting, Full(setting, pool)) /\ pipe'.pending = pipe.pending
    BY PipeTypes DEF AfterRetry, IInv, TypesInv
  <1> DEFINE F == [i \in 1 .. ChainLength |->
                       Frame("resumeTransform", setting.transforms[ChainLength + 1 - i], NoBuffer)]
             G == F \o <<Frame("resumeSource", Source, NoBuffer)>>
  <1>3. G \in Seq(HarmlessFrames)
    <2>1. ChainLength \in Nat /\ DOMAIN setting.transforms = 1 .. ChainLength
      BY <1>1, SettingIs DEF ChainLength
    <2>2. ASSUME NEW i \in 1 .. ChainLength
          PROVE  Frame("resumeTransform", setting.transforms[ChainLength + 1 - i], NoBuffer)
                     \in HarmlessFrames
      <3>1. ChainLength + 1 - i \in 1 .. ChainLength
        BY <2>1
      <3>2. setting.transforms[ChainLength + 1 - i] \in UsedTransforms(setting)
        BY <1>1, <2>1, <3>1, SettingIs
      <3> QED BY <1>1, <3>2, PipeCalls
    <2>5. /\ \A i \in 1 .. ChainLength : F[i] \in HarmlessFrames
          /\ F = [i \in 1 .. ChainLength |-> F[i]]
      BY <2>2
    <2>3. F \in Seq(HarmlessFrames)
      <3> HIDE DEF F
      <3> QED BY <2>1, <2>5
    <2>4. <<Frame("resumeSource", Source, NoBuffer)>> \in Seq(HarmlessFrames)
      BY <1>1, PipeCalls
    <2> QED BY <2>3, <2>4, ConcatProperties
  <1>4. Source \in Readables \cup Writables
    BY DEF Readables
  <1>5. /\ <<>> \in Seq(HarmlessFrames)
        /\ <<Frame("resumeReading", Source, NoBuffer)>> \in Seq(HarmlessFrames)
        /\ <<Frame("endPipes", Source, NoBuffer)>> \in Seq(HarmlessFrames)
    BY <1>1, <1>4, PipeCalls
  <1> HIDE DEF F
  <1>7. Call(<<>>) \/ Call(<<Frame("resumeReading", Source, NoBuffer)>>)
        \/ Call(<<Frame("endPipes", Source, NoBuffer)>>) \/ Call(G)
    BY DEF AfterRetry, Return, F
  <1> HIDE DEF G
  <1>6. \E H \in Seq(HarmlessFrames) : Call(H)
    BY <1>3, <1>5, <1>7
  <1> QED BY <1>1, <1>2, <1>6, OnlyPipe DEF AfterRetry, streams

LEMMA ResumeTransformKeeps == IInv /\ ResumeTransform => IInv'
  <1> SUFFICES ASSUME IInv, ResumeTransform PROVE IInv'
    OBVIOUS
  <1>1. /\ stack # <<>> /\ Head(stack).call = "resumeTransform" /\ Plain(Head(stack))
        /\ setting \in Settings
    BY DEF ResumeTransform, Running, Plain, HoldingCalls, IInv, TypesInv
  <1>2. this \in UsedReadables(setting) /\ this \in UsedWritables(setting)
    BY <1>1, TopCall DEF TransformCalls, UsedReadables, UsedWritables
  <1>3. Do("resumeReading") \in HarmlessFrames
    BY <1>1, <1>2, ReadablesCalled DEF Do, ReadableCalls, BufferCalls, SourceCalls, WriteCalls
  <1>4. Do("resumeWriting") \in HarmlessFrames
    BY <1>1, <1>2, WritablesCalled DEF Do, NoBuffer, WritableCalls, BufferCalls, WriteCalls
  <1>5. /\ <<>> \in Seq(HarmlessFrames)
        /\ <<Do("resumeWriting"), Do("resumeReading")>> \in Seq(HarmlessFrames)
    BY <1>3, <1>4
  <1>6. \E F \in Seq(HarmlessFrames) : Call(F)
    BY <1>5 DEF ResumeTransform
  <1> QED BY <1>1, <1>6, OnlyCalls DEF ResumeTransform, streams

LEMMA ResumeSourceKeeps == IInv /\ ResumeSource => IInv'
  <1> SUFFICES ASSUME IInv, ResumeSource PROVE IInv'
    OBVIOUS
  <1>1. /\ stack # <<>> /\ Head(stack).call = "resumeSource" /\ Plain(Head(stack))
        /\ setting \in Settings
    BY DEF ResumeSource, Running, Plain, HoldingCalls, IInv, TypesInv
  <1>2. this \in UsedReadables(setting) /\ this \in Readables
    BY <1>1, TopCall DEF SourceCalls, UsedReadables, Readables
  <1>3. Do("resumeReading") \in HarmlessFrames
    BY <1>1, <1>2, ReadablesCalled DEF Do, ReadableCalls, BufferCalls, SourceCalls, WriteCalls
  <1>4. "sourceIsNull" \in Assertions /\ "readFailed" \in ErrorMessages
    BY DEF Assertions, ErrorMessages
  <1>5. /\ <<Abort("sourceIsNull")>> \in Seq(HarmlessFrames)
        /\ <<Do("resumeReading")>> \in Seq(HarmlessFrames)
    BY <1>2, <1>3, <1>4, Errors
  <1>7. Call(<<Abort("sourceIsNull")>>) \/ Call(<<Do("resumeReading")>>)
    BY DEF ResumeSource
  <1>6. \E F \in Seq(HarmlessFrames) : Call(F)
    BY <1>5, <1>7
  <1> QED BY <1>1, <1>6, OnlyCalls DEF ResumeSource, streams

LEMMA EventEndKeeps == IInv /\ EventEnd => IInv'
  <1> SUFFICES ASSUME IInv, EventEnd PROVE IInv'
    OBVIOUS
  <1>1. /\ stack # <<>> /\ Head(stack).call = "eventEnd" /\ Plain(Head(stack))
        /\ setting \in Settings /\ Head(stack).call \notin WriteCalls
    BY DEF EventEnd, Running, Plain, HoldingCalls, IInv, TypesInv, WriteCalls
  <1>3. Do("endPipes") \in HarmlessFrames
    BY <1>1, TopCall, PipeCalls DEF Do
  <1>5. /\ <<>> \in Seq(HarmlessFrames)
        /\ <<Do("endPipes")>> \in Seq(HarmlessFrames)
    BY <1>3
  <1>6. \E F \in Seq(HarmlessFrames) : Call(F)
    BY <1>5 DEF EventEnd
  <1> QED BY <1>1, <1>6, OnlyCalls DEF EventEnd, streams

LEMMA EventCloseReadableKeeps == IInv /\ EventCloseReadable => IInv'
  <1> SUFFICES ASSUME IInv, EventCloseReadable PROVE IInv'
    OBVIOUS
  <1>1. /\ stack # <<>> /\ Head(stack).call = "eventCloseReadable" /\ Plain(Head(stack))
        /\ setting \in Settings /\ Head(stack).call \notin WriteCalls
    BY DEF EventCloseReadable, Running, Plain, HoldingCalls, IInv, TypesInv, WriteCalls
  <1>2. this \in UsedReadables(setting) /\ this \in Readables
    BY <1>1, TopCall DEF ReadableCalls
  <1>3. Do("endPipes") \in HarmlessFrames
    BY <1>1, <1>2, PipeCalls DEF Do
  <1>4. this # DispatchReadable => Frame("end", Following(this), NoBuffer) \in HarmlessFrames
    <2>1. this # DispatchReadable => Following(this) \in UsedWritables(setting)
      BY <1>1, <1>2, Neighbours DEF UsedWritables
    <2>2. "end" \in WritableCalls \ (BufferCalls \cup {"clearPendingWrite"}) /\ NoBuffer \in Nat
      BY DEF WritableCalls, BufferCalls, NoBuffer
    <2> QED BY <1>1, <2>1, <2>2, WritablesCalled
  <1>5. /\ <<>> \in Seq(HarmlessFrames)
        /\ <<Do("endPipes")>> \in Seq(HarmlessFrames)
        /\ this # DispatchReadable => <<Frame("end", Following(this), NoBuffer)>> \in Seq(HarmlessFrames)
    BY <1>3, <1>4
  <1>6. \E F \in Seq(HarmlessFrames) : Call(F)
    BY <1>5 DEF EventCloseReadable
  <1>7. log' \in Logs(setting)
    <2>1. log \in Logs(setting) /\ log' = [log EXCEPT !.closed[this] = @ + 1]
      BY DEF EventCloseReadable, IInv, TypesInv
    <2> QED BY <1>2, <2>1, LogTypes
  <1> QED BY <1>1, <1>6, <1>7, OnlyLog DEF EventCloseReadable, streams

LEMMA EventCloseWritableKeeps == IInv /\ EventCloseWritable => IInv'
  <1> SUFFICES ASSUME IInv, EventCloseWritable PROVE IInv'
    OBVIOUS
  <1>1. stack # <<>> /\ Head(stack).call = "eventCloseWritable" /\ Plain(Head(stack))
    BY DEF EventCloseWritable, Running, Plain, HoldingCalls
  <1>2. Call(<<>>) /\ <<>> \in Seq(HarmlessFrames)
    BY DEF EventCloseWritable, Return
  <1>3. log' \in Logs(setting)
    <2>1. /\ log \in Logs(setting)
          /\ \/ log' = log
             \/ this \in Sinks /\ log' = [log EXCEPT !.closed[this] = @ + 1]
      BY DEF EventCloseWritable, IInv, TypesInv
    <2> QED BY <2>1, LogTypes
  <1> QED BY <1>1, <1>2, <1>3, OnlyLog DEF EventCloseWritable, streams

LEMMA EndPipesKeeps == IInv /\ EndPipes => IInv'
  <1> SUFFICES ASSUME IInv, EndPipes PROVE IInv'
    OBVIOUS
  <1>1. /\ stack # <<>> /\ Head(stack).call = "endPipes" /\ Plain(Head(stack))
        /\ setting \in Settings /\ Head(stack).call \notin WriteCalls
    BY DEF EndPipes, Running, Plain, HoldingCalls, IInv, TypesInv, WriteCalls
  <1> DEFINE busy == {k \in UsedSinks : IsStillWriting(k)}
             F == [i \in DOMAIN setting.sinks |-> Frame("end", setting.sinks[i], NoBuffer)]
             G == IF busy = {} THEN <<Do("unpipe")>> ELSE <<>>
             H == F \o G
  <1>2. pipe.finishing \cup busy \in SUBSET Sinks
    <2>1. UsedSinks \subseteq Sinks
      BY <1>1, SettingIs DEF UsedSinks, ToSet
    <2> QED BY <2>1 DEF IInv, TypesInv, Pipes
  <1>3. /\ pipe' \in Pipes(setting, Full(setting, pool)) /\ pipe'.pending = pipe.pending
    <2> HIDE DEF busy
    <2>1. CASE pipe' = pipe
      BY <2>1 DEF IInv, TypesInv
    <2>2. CASE pipe' = [pipe EXCEPT !.shouldEndWhenDrained = TRUE]
      BY <2>2, <1>2, PipeTypes
    <2>3. CASE pipe' = [pipe EXCEPT !.endingPipes = TRUE, !.finishing = pipe.finishing \cup busy]
      BY <2>3, <1>2, PipeTypes
    <2> QED BY <2>1, <2>2, <2>3 DEF EndPipes, busy
  <1>4. F \in Seq(HarmlessFrames)
    <2>1. /\ Len(setting.sinks) \in Nat /\ DOMAIN setting.sinks = 1 .. Len(setting.sinks)
      BY <1>1, SettingIs
    <2>2. "end" \in WritableCalls \ (BufferCalls \cup {"clearPendingWrite"}) /\ NoBuffer \in Nat
      BY DEF WritableCalls, BufferCalls, NoBuffer
    <2>3. \A i \in DOMAIN setting.sinks :
              Frame("end", setting.sinks[i], NoBuffer) \in HarmlessFrames
      BY <1>1, <2>2, WritablesCalled, Neighbours
    <2> QED BY <2>1, <2>3
  <1>5. G \in Seq(HarmlessFrames)
    <2>1. Do("unpipe") \in HarmlessFrames
      BY <1>1, TopCall, PipeCalls DEF Do
    <2> QED BY <2>1
  <1>6. H \in Seq(HarmlessFrames)
    BY <1>4, <1>5, ConcatProperties
  <1>7. /\ <<>> \in Seq(HarmlessFrames)
        /\ <<Frame("resumeReading", Source, NoBuffer)>> \in Seq(HarmlessFrames)
    BY <1>1, PipeCalls
  <1>8. Call(<<>>) \/ Call(<<Frame("resumeReading", Source, NoBuffer)>>) \/ Call(H)
    BY DEF EndPipes, Return
  <1> HIDE DEF H
  <1>9. \E K \in Seq(HarmlessFrames) : Call(K)
    BY <1>6, <1>7, <1>8
  <1> QED BY <1>1, <1>3, <1>9, OnlyPipe DEF EndPipes, streams

LEMMA EventFinishKeeps == IInv /\ EventFinish => IInv'
  <1> SUFFICES ASSUME IInv, EventFinish PROVE IInv'
    OBVIOUS
  <1>1. /\ stack # <<>> /\ Head(stack).call = "eventFinish" /\ Plain(Head(stack))
        /\ setting \in Settings /\ Head(stack).call \notin WriteCalls
    BY DEF EventFinish, Running, Plain, HoldingCalls, IInv, TypesInv, WriteCalls
  <1> DEFINE done == {k \in UsedSinks : ~IsStillWriting(k)}
  <1>2. pipe.finishing \ done \in SUBSET Sinks
    BY DEF IInv, TypesInv, Pipes
  <1>3. /\ pipe' \in Pipes(setting, Full(setting, pool)) /\ pipe'.pending = pipe.pending
    <2> HIDE DEF done
    <2>1. CASE pipe' = pipe
      BY <2>1 DEF IInv, TypesInv
    <2>2. CASE pipe' = [pipe EXCEPT !.finishing = pipe.finishing \ done]
      BY <2>2, <1>2, PipeTypes
    <2> QED BY <2>1, <2>2 DEF EventFinish, done
  <1>4. Do("unpipe") \in HarmlessFrames
    BY <1>1, TopCall, PipeCalls DEF Do
  <1>5. "notAListener" \in Assertions /\ "readFailed" \in ErrorMessages /\ this \in Readables \cup Writables
    BY <1>1, TopCall DEF Assertions, ErrorMessages
  <1>6. /\ <<>> \in Seq(HarmlessFrames) /\ <<Do("unpipe")>> \in Seq(HarmlessFrames)
        /\ <<Abort("notAListener")>> \in Seq(HarmlessFrames)
    BY <1>4, <1>5, Errors
  <1>7. Call(<<>>) \/ Call(<<Do("unpipe")>>) \/ Call(<<Abort("notAListener")>>)
    BY DEF EventFinish, Return
  <1>8. \E F \in Seq(HarmlessFrames) : Call(F)
    BY <1>6, <1>7
  <1> QED BY <1>1, <1>3, <1>8, OnlyPipe DEF EventFinish, streams

-----------------------------------------------------------------------------
(* Steps that hand over buffers                                            *)

\* Calls that leave alone which writes are pending and which transforms are finalized.
Ordinary(f) == f.call \notin {"afterWork", "clearPendingWrite", "finalized"}

\* What a call holds of a buffer.
Owed(f, b) == IF Holds(f, b) THEN 1 ELSE 0

LEMMA OwedNat == \A f, b : Owed(f, b) \in Nat /\ (Plain(f) => Owed(f, b) = 0)
  BY DEF Owed, Plain, Holds

LEMMA FewFrames ==
    ASSUME NEW b
    PROVE  /\ HeldByFrames(<<>>, b) = 0
           /\ \A f \in Frames : HeldByFrames(<<f>>, b) = Owed(f, b)
           /\ \A f, g \in Frames : HeldByFrames(<<f, g>>, b) = Owed(f, b) + Owed(g, b)
           /\ \A f, g, h \in Frames :
                  HeldByFrames(<<f, g, h>>, b) = Owed(f, b) + Owed(g, b) + Owed(h, b)
           /\ \A f, g, h, k \in Frames :
                  HeldByFrames(<<f, g, h, k>>, b) = Owed(f, b) + Owed(g, b) + Owed(h, b) + Owed(k, b)
  <1> DEFINE S == {x \in Frames : Holds(x, b)}
  <1>1. \A x \in Frames : Owed(x, b) = (IF x \in S THEN 1 ELSE 0) /\ Owed(x, b) \in Nat
    BY DEF Owed
  <1>2. \A st \in Seq(Frames) : HeldByFrames(st, b) = HowMany(st, S)
    BY FramesCount
  <1> HIDE DEF S
  <1>3. ASSUME NEW st \in Seq(Frames), st # <<>>
        PROVE  HeldByFrames(st, b) = HeldByFrames(Tail(st), b) + Owed(Head(st), b)
    <2>1. Head(st) \in Frames /\ Tail(st) \in Seq(Frames)
      BY <1>3, ConsOfTail
    <2>2. HowMany(st, S) = HowMany(Tail(st), S) + (IF Head(st) \in S THEN 1 ELSE 0)
      BY <1>3, HowManyTail
    <2> QED BY <1>1, <1>2, <2>1, <2>2
  <1>4. HeldByFrames(<<>>, b) = 0
    <2>1. {i \in DOMAIN <<>> : <<>>[i].call \in HoldingCalls /\ <<>>[i].arg = b} = {}
      OBVIOUS
    <2> QED BY <2>1, FS_EmptySet DEF HeldByFrames
  <1>5. ASSUME NEW x \in Frames PROVE HeldByFrames(<<x>>, b) = Owed(x, b)
    <2>1. <<x>> \in Seq(Frames) /\ <<x>> # <<>> /\ Head(<<x>>) = x /\ Tail(<<x>>) = <<>>
      OBVIOUS
    <2>2. HeldByFrames(<<x>>, b) = HeldByFrames(<<>>, b) + Owed(x, b)
      BY <1>3, <2>1
    <2> QED BY <1>1, <1>4, <2>2
  <1>6. ASSUME NEW x \in Frames, NEW y \in Frames
        PROVE  HeldByFrames(<<x, y>>, b) = Owed(x, b) + Owed(y, b)
    <2>1. <<x, y>> \in Seq(Frames) /\ <<x, y>> # <<>> /\ Head(<<x, y>>) = x /\ Tail(<<x, y>>) = <<y>>
      OBVIOUS
    <2>2. HeldByFrames(<<x, y>>, b) = HeldByFrames(<<y>>, b) + Owed(x, b)
      BY <1>3, <2>1
    <2> QED BY <1>1, <1>5, <2>2
  <1>7. ASSUME NEW x \in Frames, NEW y \in Frames, NEW z \in Frames
        PROVE  HeldByFrames(<<x, y, z>>, b) = Owed(x, b) + Owed(y, b) + Owed(z, b)
    <2>1. /\ <<x, y, z>> \in Seq(Frames) /\ <<x, y, z>> # <<>> /\ Head(<<x, y, z>>) = x
          /\ Tail(<<x, y, z>>) = <<y, z>>
      OBVIOUS
    <2>2. HeldByFrames(<<x, y, z>>, b) = HeldByFrames(<<y, z>>, b) + Owed(x, b)
      BY <1>3, <2>1
    <2> QED BY <1>1, <1>6, <2>2
  <1>8. ASSUME NEW f \in Frames, NEW g \in Frames, NEW h \in Frames, NEW k \in Frames
        PROVE  HeldByFrames(<<f, g, h, k>>, b) = Owed(f, b) + Owed(g, b) + Owed(h, b) + Owed(k, b)
    <2>1. /\ <<f, g, h, k>> \in Seq(Frames) /\ <<f, g, h, k>> # <<>> /\ Head(<<f, g, h, k>>) = f
          /\ Tail(<<f, g, h, k>>) = <<g, h, k>>
      OBVIOUS
    <2>2. HeldByFrames(<<f, g, h, k>>, b) = HeldByFrames(<<g, h, k>>, b) + Owed(f, b)
      BY <1>3, <2>1
    <2> QED BY <1>1, <1>7, <2>2
  <1> QED BY <1>4, <1>5, <1>6, <1>7, <1>8

LEMMA OneFrame ==
    ASSUME NEW f \in Frames, NEW b
    PROVE  HeldByFrames(<<f>>, b) = Owed(f, b)
  BY FewFrames

LEMMA TwoFrames ==
    ASSUME NEW f \in Frames, NEW g \in Frames, NEW b
    PROVE  HeldByFrames(<<f, g>>, b) = Owed(f, b) + Owed(g, b)
  BY FewFrames

LEMMA FourFrames ==
    ASSUME NEW f \in Frames, NEW g \in Frames, NEW h \in Frames, NEW k \in Frames, NEW b
    PROVE  HeldByFrames(<<f, g, h, k>>, b) = Owed(f, b) + Owed(g, b) + Owed(h, b) + Owed(k, b)
  BY FewFrames

\* Frames that may hold buffers, on top of a stack.
LEMMA PushedAll ==
    ASSUME NEW s, NEW full, NEW st, StackOK(s, full, st), NoWrite(st),
           NEW F \in Seq(Frames),
           \A i \in 1 .. Len(F) : /\ FrameOK(s, full, F[i]) /\ Ordinary(F[i])
                                  /\ F[i].call \in WriteCalls \/ Clearing(st) = {}
                                  /\ F[i].call = "write" => i = 1
    PROVE  /\ StackOK(s, full, F \o st) /\ WriteOnTop(F \o st)
           /\ \A b : HeldByFrames(F \o st, b) = HeldByFrames(F, b) + HeldByFrames(st, b)
           /\ Clearing(F \o st) = Clearing(st) /\ Finalizers(F \o st) = Finalizers(st)
           /\ F \o st # <<>> /\ Head(F \o st).call = "write" => F # <<>> /\ Head(F \o st) = F[1]
  <1> DEFINE t == F \o st
             n == Len(st)
             m == Len(F)
  <1>1. /\ st \in Seq(Frames) /\ n \in Nat /\ DOMAIN st = 1 .. n
        /\ m \in Nat /\ DOMAIN F = 1 .. m
        /\ t \in Seq(Frames) /\ Len(t) = m + n /\ DOMAIN t = 1 .. m + n
        /\ \A i \in 1 .. m : t[i] = F[i]
        /\ \A i \in 1 .. n : i + m \in 1 .. m + n /\ t[i + m] = st[i]
        /\ \A i \in 1 .. m + n : i > m => i - m \in 1 .. n /\ t[i] = st[i - m]
    <2>1. st \in Seq(Frames)
      BY DEF StackOK
    <2>2. n \in Nat /\ DOMAIN st = 1 .. n /\ m \in Nat /\ DOMAIN F = 1 .. m
      BY <2>1, LenProperties
    <2>4. /\ t \in Seq(Frames) /\ Len(t) = m + n
          /\ \A i \in 1 .. m + n : t[i] = IF i <= m THEN F[i] ELSE st[i - m]
      BY <2>1, ConcatProperties
    <2>5. DOMAIN t = 1 .. m + n
      BY <2>2, <2>4, LenProperties
    <2> HIDE DEF t, n, m
    <2>6. /\ \A i \in 1 .. m : t[i] = F[i]
          /\ \A i \in 1 .. m + n : i > m => i - m \in 1 .. n /\ t[i] = st[i - m]
      BY <2>2, <2>4
    <2>7. ASSUME NEW i \in 1 .. n PROVE i + m \in 1 .. m + n /\ t[i + m] = st[i]
      <3>1. i + m \in 1 .. m + n /\ ~(i + m <= m) /\ (i + m) - m = i
        BY <2>2
      <3> QED BY <2>4, <3>1
    <2> QED BY <2>1, <2>2, <2>4, <2>5, <2>6, <2>7
  <1>2. ASSUME NEW b PROVE HeldByFrames(t, b) = HeldByFrames(F, b) + HeldByFrames(st, b)
    <2>2. HowMany(F \o st, {g \in Frames : Holds(g, b)})
          = HowMany(F, {g \in Frames : Holds(g, b)}) + HowMany(st, {g \in Frames : Holds(g, b)})
      BY <1>1, HowManyConcat
    <2> QED BY <1>1, <2>2, FramesCount DEF t
  <1> HIDE DEF t, n, m
  <1>3. \A i \in DOMAIN t :
            \/ /\ i \in 1 .. m /\ FrameOK(s, full, t[i]) /\ Ordinary(t[i])
               /\ t[i].call \in WriteCalls \/ Clearing(st) = {}
               /\ t[i].call = "write" => i = 1
            \/ i > m /\ i - m \in DOMAIN st /\ t[i] = st[i - m]
    BY <1>1 DEF m
  <1>4. ASSUME NEW i \in DOMAIN t
        PROVE  /\ FrameOK(s, full, t[i])
               /\ t[i].call = "afterWork" => i = Len(t)
               /\ t[i].call = "clearPendingWrite" => \A j \in 1 .. i - 1 : t[j].call \in WriteCalls
               /\ t[i].call = "write" => i = 1 /\ m # 0
    <2>1. CASE i \in 1 .. m /\ FrameOK(s, full, t[i]) /\ Ordinary(t[i])
      BY <1>1, <1>3, <2>1 DEF Ordinary
    <2>2. CASE i > m /\ i - m \in DOMAIN st /\ t[i] = st[i - m]
      <3>2. /\ FrameOK(s, full, st[i - m])
            /\ st[i - m].call = "afterWork" => i - m = Len(st)
            /\ st[i - m].call = "clearPendingWrite" =>
                   \A j \in 1 .. (i - m) - 1 : st[j].call \in WriteCalls
            /\ st[i - m].call # "write"
        BY <2>2 DEF StackOK, NoWrite
      <3>3. ASSUME t[i].call = "clearPendingWrite", NEW j \in 1 .. i - 1
            PROVE  t[j].call \in WriteCalls
        <4>1. Clearing(st) # {}
          BY <2>2, <3>3 DEF Clearing
        <4>2. j \in DOMAIN t
          BY <1>1
        <4>3. CASE j \in 1 .. m
          BY <1>1, <1>3, <4>1, <4>2, <4>3
        <4>4. CASE j > m /\ j - m \in DOMAIN st /\ t[j] = st[j - m]
          <5>1. j - m \in 1 .. (i - m) - 1
            BY <1>1, <2>2, <4>4
          <5> QED BY <2>2, <3>2, <3>3, <4>4, <5>1
        <4> QED BY <1>3, <4>2, <4>3, <4>4
      <3>4. t[i].call = "afterWork" => i = Len(t)
        <4>1. t[i].call = "afterWork" => i - m = n
          BY <2>2, <3>2 DEF n
        <4> QED BY <1>1, <4>1
      <3> QED BY <2>2, <3>2, <3>3, <3>4
    <2> QED BY <1>3, <2>1, <2>2
  <1>5. StackOK(s, full, t) /\ WriteOnTop(t)
    BY <1>1, <1>4 DEF StackOK, WriteOnTop
  <1>6. \A i \in DOMAIN t : Ordinary(t[i]) \/ \E k \in DOMAIN st : t[i] = st[k]
    BY <1>3
  <1>7. \A k \in DOMAIN st : \E i \in DOMAIN t : t[i] = st[k]
    BY <1>1
  <1>8. Clearing(t) = Clearing(st)
    BY <1>6, <1>7 DEF Clearing, Ordinary
  <1>9. Finalizers(t) = Finalizers(st)
    BY <1>6, <1>7 DEF Finalizers, Ordinary
  <1>10. ASSUME t # <<>>, Head(t).call = "write"
         PROVE  F # <<>> /\ Head(t) = F[1]
    <2>1. 1 \in DOMAIN t /\ Head(t) = t[1]
      BY <1>1, <1>10, EmptySeq
    <2>2. m # 0
      BY <1>4, <1>10, <2>1
    <2> QED BY <1>1, <2>1, <2>2 DEF m
  <1> QED BY <1>2, <1>5, <1>8, <1>9, <1>10 DEF t

\* What the invariant says of the types, with its abbreviation expanded.
LEMMA Typed ==
    ASSUME IInv
    PROVE  /\ setting \in Settings /\ pool \in Pools(setting)
           /\ readable \in ReadablesOver(Full(setting, pool))
           /\ writable \in WritablesOver(Full(setting, pool))
           /\ WithinQueues(setting, readable, writable)
           /\ request \in Requests(setting) /\ RequestsReady(setting, Full(setting, pool), request)
           /\ transform \in TransformsOver(setting)
           /\ TransformsReady(setting, Full(setting, pool), transform)
           /\ pipe \in Pipes(setting, Full(setting, pool))
           /\ log \in Logs(setting)
           /\ StackOK(setting, Full(setting, pool), stack) /\ stack \in Seq(Frames)
           /\ Full(setting, pool) \subseteq BuffersOf(setting)
  BY DEF IInv, TypesInv, StackInv, StackOK, Full

LEMMA TypesKept ==
    ASSUME IInv, setting' = setting, pool' \in Pools(setting),
           Full(setting, pool) \subseteq Full(setting, pool'),
           readable' \in ReadablesOver(Full(setting, pool)),
           writable' \in WritablesOver(Full(setting, pool)),
           WithinQueues(setting, readable', writable'),
           request' \in Requests(setting), RequestsReady(setting, Full(setting, pool), request'),
           transform' \in TransformsOver(setting),
           TransformsReady(setting, Full(setting, pool), transform'),
           pipe' \in Pipes(setting, Full(setting, pool)), log' \in Logs(setting)
    PROVE  TypesInv'
  <1>1. /\ readable' \in ReadablesOver(Full(setting, pool'))
        /\ writable' \in WritablesOver(Full(setting, pool'))
    BY Wider
  <1>2. pipe' \in Pipes(setting, Full(setting, pool'))
    BY WiderPipe
  <1>3. RequestsReady(setting, Full(setting, pool'), request')
    BY DEF RequestsReady
  <1>4. TransformsReady(setting, Full(setting, pool'), transform')
    BY DEF TransformsReady
  <1>5. setting \in Settings
    BY Typed
  <1> QED BY <1>1, <1>2, <1>3, <1>4, <1>5 DEF TypesInv

\* The holders of a buffer that are not calls.
ByQueues(r, w, b) == InQueues(r, b) + 2 * InQueues(w, b)
ByRequests(q, b) == Is(q[Source].buffer, b) + 2 * HeldBySinks(q, b)
ByTransforms(t, fin, b) == HeldAsInput(t, b) + HeldAsOutput(t, fin, b)
Kept(r, w, q, t, slots, clearing, fin, b) ==
    ByQueues(r, w, b) + ByRequests(q, b) + ByTransforms(t, fin, b) + HeldByPending(slots, clearing, b)

KeptOf(b) ==
    Kept(readable, writable, request, transform, pipe.pending, Clearing(stack), Finalizers(stack), b)

LEMMA PartsNat ==
    ASSUME NEW full, NEW r \in ReadablesOver(full), NEW w \in WritablesOver(full), NEW q, NEW t,
           NEW Y, NEW slots \in Seq(Y), NEW clearing, NEW fin, NEW b
    PROVE  /\ ByQueues(r, w, b) \in Nat /\ ByRequests(q, b) \in Nat /\ ByTransforms(t, fin, b) \in Nat
           /\ HeldByPending(slots, clearing, b) \in Nat
           /\ InQueues(r, b) \in Nat /\ InQueues(w, b) \in Nat
           /\ HeldBySinks(q, b) \in Nat /\ HeldAsInput(t, b) \in Nat
           /\ HeldAsOutput(t, fin, b) \in Nat /\ Is(q[Source].buffer, b) \in Nat
  <1>1. <<>> \in Seq(Frames)
    OBVIOUS
  <1>2. /\ InQueues(r, b) \in Nat /\ InQueues(w, b) \in Nat
        /\ HeldByPending(slots, clearing, b) \in Nat
        /\ HeldBySinks(q, b) \in Nat /\ HeldAsInput(t, b) \in Nat
        /\ HeldAsOutput(t, fin, b) \in Nat
    BY <1>1, HeldNat
  <1>3. Is(q[Source].buffer, b) \in Nat
    BY DEF Is
  <1>4. ByQueues(r, w, b) \in Nat
    BY <1>2 DEF ByQueues
  <1>5. ByRequests(q, b) \in Nat
    BY <1>2, <1>3 DEF ByRequests
  <1>6. ByTransforms(t, fin, b) \in Nat
    BY <1>2 DEF ByTransforms
  <1> QED BY <1>2, <1>3, <1>4, <1>5, <1>6

LEMMA KeptNat ==
    ASSUME NEW full, NEW r \in ReadablesOver(full), NEW w \in WritablesOver(full), NEW q, NEW t,
           NEW Y, NEW slots \in Seq(Y), NEW clearing, NEW fin, NEW b
    PROVE  Kept(r, w, q, t, slots, clearing, fin, b) \in Nat
  <1>1. /\ ByQueues(r, w, b) \in Nat /\ ByRequests(q, b) \in Nat /\ ByTransforms(t, fin, b) \in Nat
        /\ HeldByPending(slots, clearing, b) \in Nat
    BY PartsNat
  <1> QED BY <1>1 DEF Kept

LEMMA HeldIsKept ==
    ASSUME NEW r, NEW w, NEW q, NEW t, NEW slots, NEW st, NEW b
    PROVE  Held(r, w, q, t, slots, st, b)
           = Kept(r, w, q, t, slots, Clearing(st), Finalizers(st), b) + HeldByFrames(st, b)
  BY DEF Held, Kept, ByQueues, ByRequests, ByTransforms

\* A step keeps the references at least as many as the holders when each new holder has a
\* new reference.
LEMMA Rebalanced ==
    ASSUME IInv, setting' = setting, TypesInv', StackInv',
           \A b \in BuffersOf(setting) :
               pool'.refs[b] + KeptOf(b) + HeldByFrames(stack, b)
               >= pool.refs[b] + KeptOf(b)' + HeldByFrames(stack', b)
    PROVE  IInv'
  <1>1. TypesInv /\ stack \in Seq(Frames) /\ RefsInv /\ stack' \in Seq(Frames)
    BY DEF IInv, StackInv, StackOK
  <1>4. /\ readable \in ReadablesOver(Full(setting, pool))
        /\ writable \in WritablesOver(Full(setting, pool))
        /\ pipe.pending \in Seq(Slots(setting, Full(setting, pool)))
        /\ readable' \in ReadablesOver(Full(setting, pool'))
        /\ writable' \in WritablesOver(Full(setting, pool'))
        /\ pipe'.pending \in Seq(Slots(setting, Full(setting, pool')))
        /\ pool \in Pools(setting) /\ pool' \in Pools(setting)
    BY <1>1 DEF TypesInv, Pipes
  <1>2. ASSUME NEW b \in BuffersOf(setting)
        PROVE  pool'.refs[b] >= Held(readable, writable, request, transform, pipe.pending, stack, b)'
    <2>1. /\ Held(readable, writable, request, transform, pipe.pending, stack, b)
             = KeptOf(b) + HeldByFrames(stack, b)
          /\ Held(readable, writable, request, transform, pipe.pending, stack, b)'
             = KeptOf(b)' + HeldByFrames(stack', b)
      BY HeldIsKept DEF KeptOf
    <2>2. KeptOf(b) \in Nat /\ KeptOf(b)' \in Nat
      BY <1>4, KeptNat DEF KeptOf
    <2>6. HeldByFrames(stack, b) \in Nat /\ HeldByFrames(stack', b) \in Nat
      BY <1>1, FramesCount
    <2>3. pool.refs[b] \in Int /\ pool'.refs[b] \in Int
      BY <1>4 DEF Pools
    <2>4. pool.refs[b] >= KeptOf(b) + HeldByFrames(stack, b)
      BY <1>1, <2>1 DEF RefsInv
    <2>7. /\ pool'.refs[b] + KeptOf(b) + HeldByFrames(stack, b)
             >= pool.refs[b] + KeptOf(b)' + HeldByFrames(stack', b)
      OBVIOUS
    <2> HIDE DEF KeptOf
    <2>5. pool'.refs[b] >= KeptOf(b)' + HeldByFrames(stack', b)
      BY <2>2, <2>3, <2>4, <2>6, <2>7
    <2> QED BY <2>1, <2>5
  <1>3. RefsInv'
    BY <1>2 DEF RefsInv
  <1> QED BY <1>3 DEF IInv

\* Frames that may take the place of the call on top, with buffers of a pool.
Handed(p) ==
    {f \in Frames : /\ FrameOK(setting, Full(setting, p), f) /\ Ordinary(f)
                    /\ f.call \in WriteCalls \/ Head(stack).call \notin WriteCalls}

LEMMA Hands ==
    ASSUME NEW p, Full(setting, pool) \subseteq Full(setting, p)
    PROVE  HarmlessFrames \subseteq Handed(p)
  <1>1. ASSUME NEW f, FrameOK(setting, Full(setting, pool), f)
        PROVE  FrameOK(setting, Full(setting, p), f)
    BY <1>1 DEF FrameOK
  <1> QED BY <1>1 DEF HarmlessFrames, Handed, Harmless, Plain, Ordinary

\* Each new holder has a new reference, counting what the frames F hold that take the
\* place of the call on top.
Covers(F) ==
    \A b \in BuffersOf(setting) :
        pool'.refs[b] + KeptOf(b) + Owed(Head(stack), b)
        >= pool.refs[b] + Kept(readable', writable', request', transform', pipe'.pending,
                               Clearing(stack), Finalizers(stack), b)
           + HeldByFrames(F, b)

LEMMA Transferred ==
    ASSUME NEW r \in Int, NEW r2 \in Int, NEW k \in Nat, NEW k2 \in Nat, NEW owed \in Nat,
           NEW f \in Nat, NEW below \in Nat, NEW st, NEW st2,
           r2 + k + owed >= r + k2 + f, st = below + owed, st2 = f + below
    PROVE  r2 + k + st >= r + k2 + st2
  OBVIOUS

LEMMA Moves ==
    ASSUME IInv, stack # <<>>, Head(stack).call \notin {"clearPendingWrite", "finalized"},
           setting' = setting, TypesInv', Full(setting, pool) \subseteq Full(setting, pool'),
           NEW F \in Seq(Handed(pool')), Call(F),
           \A i \in 1 .. Len(F) : F[i].call = "write" => i = 1 /\ CanAcceptWrite(F[1].of)',
           Covers(F)
    PROVE  IInv'
  <1>1. /\ StackOK(setting, Full(setting, pool), stack) /\ WriteOnTop(stack) /\ stack \in Seq(Frames)
    BY DEF IInv, StackInv, StackOK
  <1>2. /\ StackOK(setting, Full(setting, pool), Tail(stack)) /\ NoWrite(Tail(stack))
        /\ Head(stack).call \notin WriteCalls => Clearing(Tail(stack)) = {}
        /\ \A b : HeldByFrames(stack, b) = HeldByFrames(Tail(stack), b) + Owed(Head(stack), b)
        /\ Clearing(stack) = Clearing(Tail(stack))
        /\ Finalizers(stack) = Finalizers(Tail(stack))
    BY <1>1, Popped DEF Owed
  <1>3. StackOK(setting, Full(setting, pool'), Tail(stack))
    BY <1>2, FullGrows
  <1>4. F \in Seq(Frames) /\ \A i \in 1 .. Len(F) : F[i] \in Handed(pool')
    <2>1. \A i \in 1 .. Len(F) : F[i] \in Handed(pool')
      BY ElementOfSeq
    <2>2. Handed(pool') \subseteq Frames
      BY DEF Handed
    <2> HIDE DEF Handed
    <2> QED BY <2>1, <2>2
  <1>5. \A i \in 1 .. Len(F) : /\ FrameOK(setting, Full(setting, pool'), F[i]) /\ Ordinary(F[i])
                               /\ F[i].call \in WriteCalls \/ Clearing(Tail(stack)) = {}
                               /\ F[i].call = "write" => i = 1
    BY <1>2, <1>4 DEF Handed
  <1>6. stack' = F \o Tail(stack)
    BY DEF Call
  <1>7. /\ StackOK(setting, Full(setting, pool'), stack') /\ WriteOnTop(stack')
        /\ \A b : HeldByFrames(stack', b) = HeldByFrames(F, b) + HeldByFrames(Tail(stack), b)
        /\ Clearing(stack') = Clearing(stack) /\ Finalizers(stack') = Finalizers(stack)
        /\ stack' # <<>> /\ Head(stack').call = "write" => F # <<>> /\ Head(stack') = F[1]
    <2> DEFINE st == Tail(stack)
               full == Full(setting, pool')
    <2>1. StackOK(setting, full, st) /\ NoWrite(st) /\ F \in Seq(Frames) /\ stack' = F \o st
      BY <1>2, <1>3, <1>4, <1>6
    <2>2. \A i \in 1 .. Len(F) : /\ FrameOK(setting, full, F[i]) /\ Ordinary(F[i])
                                 /\ F[i].call \in WriteCalls \/ Clearing(st) = {}
                                 /\ F[i].call = "write" => i = 1
      BY <1>5
    <2>3. Clearing(stack) = Clearing(st) /\ Finalizers(stack) = Finalizers(st)
      BY <1>2
    <2> HIDE DEF st, full
    <2>4. /\ StackOK(setting, full, stack') /\ WriteOnTop(stack')
          /\ \A b : HeldByFrames(stack', b) = HeldByFrames(F, b) + HeldByFrames(st, b)
          /\ Clearing(stack') = Clearing(st) /\ Finalizers(stack') = Finalizers(st)
          /\ stack' # <<>> /\ Head(stack').call = "write" => F # <<>> /\ Head(stack') = F[1]
      BY <2>1, <2>2, PushedAll
    <2> QED BY <2>3, <2>4 DEF st, full
  <1>8. StackInv'
    <2>1. ASSUME F # <<>> PROVE 1 \in 1 .. Len(F)
      BY <1>4, <2>1, EmptySeq, LenProperties
    <2>2. ASSUME Running("write")' PROVE CanAcceptWrite(this)'
      <3>1. F # <<>> /\ Head(stack') = F[1] /\ F[1].call = "write"
        BY <1>7, <2>2 DEF Running
      <3>2. CanAcceptWrite(F[1].of)'
        BY <2>1, <3>1
      <3> QED BY <3>1, <3>2 DEF this
    <2> QED BY <1>7, <2>2 DEF StackInv
  <1>9. ASSUME NEW b \in BuffersOf(setting)
        PROVE  pool'.refs[b] + KeptOf(b) + HeldByFrames(stack, b)
               >= pool.refs[b] + KeptOf(b)' + HeldByFrames(stack', b)
    <2>1. KeptOf(b)' = Kept(readable', writable', request', transform', pipe'.pending,
                            Clearing(stack), Finalizers(stack), b)
      BY <1>7 DEF KeptOf
    <2>2. pool'.refs[b] + KeptOf(b) + Owed(Head(stack), b)
          >= pool.refs[b] + KeptOf(b)' + HeldByFrames(F, b)
      BY <2>1 DEF Covers
    <2>3. /\ KeptOf(b) \in Nat /\ KeptOf(b)' \in Nat
      <3>1. /\ readable \in ReadablesOver(Full(setting, pool))
            /\ writable \in WritablesOver(Full(setting, pool))
            /\ pipe.pending \in Seq(Slots(setting, Full(setting, pool)))
            /\ readable' \in ReadablesOver(Full(setting, pool)')
            /\ writable' \in WritablesOver(Full(setting, pool)')
            /\ pipe'.pending \in Seq(Slots(setting, Full(setting, pool)'))
        BY DEF IInv, TypesInv, Pipes
      <3> QED BY <3>1, KeptNat DEF KeptOf
    <2>4. /\ HeldByFrames(stack, b) = HeldByFrames(Tail(stack), b) + Owed(Head(stack), b)
          /\ HeldByFrames(stack', b) = HeldByFrames(F, b) + HeldByFrames(Tail(stack), b)
          /\ HeldByFrames(F, b) \in Nat /\ HeldByFrames(Tail(stack), b) \in Nat
          /\ Owed(Head(stack), b) \in Nat
      BY <1>2, <1>4, <1>7, FramesCount, OwedNat DEF StackOK
    <2>5. pool.refs[b] \in Int /\ pool'.refs[b] \in Int
      BY DEF IInv, TypesInv, Pools
    <2> HIDE DEF KeptOf
    <2> QED BY <2>2, <2>3, <2>4, <2>5, Transferred
  <1> QED BY <1>8, <1>9, Rebalanced

\* The same for frames that hold nothing.
LEMMA HarmlessCount ==
    ASSUME NEW F \in Seq(HarmlessFrames), NEW b
    PROVE  HeldByFrames(F, b) = 0
  <1>1. \A i \in DOMAIN F : F[i] \in HarmlessFrames
    BY ElementOfSeq, LenProperties
  <1>2. {i \in DOMAIN F : F[i].call \in HoldingCalls /\ F[i].arg = b} = {}
    BY <1>1 DEF HarmlessFrames, Harmless, Plain
  <1> QED BY <1>2, FS_EmptySet DEF HeldByFrames

LEMMA Settles ==
    ASSUME IInv, stack # <<>>, Head(stack).call \notin {"clearPendingWrite", "finalized"},
           setting' = setting, TypesInv', Full(setting, pool) \subseteq Full(setting, pool'),
           NEW F \in Seq(HarmlessFrames), Call(F),
           \A b \in BuffersOf(setting) :
               pool'.refs[b] + KeptOf(b) + Owed(Head(stack), b)
               >= pool.refs[b] + Kept(readable', writable', request', transform', pipe'.pending,
                                      Clearing(stack), Finalizers(stack), b)
    PROVE  IInv'
  <1>1. F \in Seq(Handed(pool'))
    BY Hands
  <1>2. Covers(F)
    <2>1. ASSUME NEW b \in BuffersOf(setting)
          PROVE  pool'.refs[b] + KeptOf(b) + Owed(Head(stack), b)
                 >= pool.refs[b] + Kept(readable', writable', request', transform', pipe'.pending,
                                        Clearing(stack), Finalizers(stack), b)
                    + HeldByFrames(F, b)
      <3>1. HeldByFrames(F, b) = 0
        BY HarmlessCount
      <3>2. Kept(readable', writable', request', transform', pipe'.pending,
                 Clearing(stack), Finalizers(stack), b) \in Int
            /\ pool.refs[b] \in Int
        <4>1. /\ readable' \in ReadablesOver(Full(setting, pool)')
              /\ writable' \in WritablesOver(Full(setting, pool)')
              /\ pipe'.pending \in Seq(Slots(setting, Full(setting, pool)'))
          BY DEF TypesInv, Pipes
        <4>2. stack \in Seq(Frames) /\ pool.refs[b] \in Int
          BY DEF IInv, TypesInv, StackInv, StackOK, Pools
        <4> QED BY <4>1, <4>2, KeptNat
      <3> HIDE DEF KeptOf, Kept
      <3> QED BY <3>1, <3>2
    <2> QED BY <2>1 DEF Covers
  <1>3. \A i \in 1 .. Len(F) : F[i].call # "write"
    <2>1. \A i \in 1 .. Len(F) : F[i] \in HarmlessFrames
      BY ElementOfSeq
    <2> QED BY <2>1 DEF HarmlessFrames, Harmless, Plain, HoldingCalls
  <1> QED BY <1>1, <1>2, <1>3, Moves

-----------------------------------------------------------------------------
(* How the holders of a buffer change                                      *)

LEMMA Owes ==
    ASSUME NEW b
    PROVE  /\ Owed(Head(stack), b) = IF Head(stack).call \in HoldingCalls THEN Is(arg, b) ELSE 0
           /\ Owed(Head(stack), b) \in Nat
           /\ \A c, x, n : Owed(Frame(c, x, n), b) = IF c \in HoldingCalls THEN Is(n, b) ELSE 0
  BY DEF Owed, Holds, Is, arg, Frame

LEMMA IsNat == \A x, b : Is(x, b) \in Nat /\ Is(x, b) <= 1
  BY DEF Is

LEMMA KeptTyped ==
    ASSUME IInv, NEW b
    PROVE  /\ ByQueues(readable, writable, b) \in Nat /\ ByRequests(request, b) \in Nat
           /\ ByTransforms(transform, Finalizers(stack), b) \in Nat
           /\ HeldByPending(pipe.pending, Clearing(stack), b) \in Nat
           /\ InQueues(readable, b) \in Nat /\ InQueues(writable, b) \in Nat
           /\ HeldBySinks(request, b) \in Nat /\ HeldAsInput(transform, b) \in Nat
           /\ HeldAsOutput(transform, Finalizers(stack), b) \in Nat
           /\ Is(request[Source].buffer, b) \in Nat /\ KeptOf(b) \in Nat
  <1>1. /\ readable \in ReadablesOver(Full(setting, pool))
        /\ writable \in WritablesOver(Full(setting, pool))
        /\ pipe.pending \in Seq(Slots(setting, Full(setting, pool)))
    BY Typed DEF Pipes
  <1>3. KeptOf(b) \in Nat
    BY <1>1, KeptNat DEF KeptOf
  <1> QED BY <1>1, <1>3, PartsNat

\* All queues but one are what they were.
QueuesBut(D, f, g, x) == \A y \in D \ {x} : g[y].queue = f[y].queue

LEMMA KeptReadable ==
    ASSUME IInv, NEW full, NEW r \in ReadablesOver(full), NEW x \in Readables,
           QueuesBut(Readables, readable, r, x), NEW b
    PROVE  /\ Kept(r, writable, request, transform, pipe.pending, Clearing(stack), Finalizers(stack), b)
              = KeptOf(b) - Count(readable[x].queue, b) + Count(r[x].queue, b)
           /\ Count(readable[x].queue, b) \in Nat /\ Count(r[x].queue, b) \in Nat
  <1>1. readable \in ReadablesOver(Full(setting, pool))
    BY Typed
  <1>2. Count(readable[x].queue, b) \in Nat /\ Count(r[x].queue, b) \in Nat
    <2>1. readable[x].queue \in Seq(Full(setting, pool)) /\ r[x].queue \in Seq(full)
      BY <1>1 DEF ReadablesOver
    <2> QED BY <2>1, CountIsHowMany
  <1>3. /\ InQueues(r, b) \in Nat
        /\ InQueues(r, b) = InQueues(readable, b) - Count(readable[x].queue, b) + Count(r[x].queue, b)
    BY <1>1, ReadQueue DEF QueuesBut
  <1>4. ByQueues(r, writable, b)
        = ByQueues(readable, writable, b) - Count(readable[x].queue, b) + Count(r[x].queue, b)
    BY <1>2, <1>3, KeptTyped DEF ByQueues
  <1> QED BY <1>2, <1>4, KeptTyped DEF KeptOf, Kept

LEMMA KeptWritable ==
    ASSUME IInv, NEW full, NEW w \in WritablesOver(full), NEW x \in Writables,
           QueuesBut(Writables, writable, w, x), NEW b
    PROVE  /\ Kept(readable, w, request, transform, pipe.pending, Clearing(stack), Finalizers(stack), b)
              = KeptOf(b) - 2 * Count(writable[x].queue, b) + 2 * Count(w[x].queue, b)
           /\ Count(writable[x].queue, b) \in Nat /\ Count(w[x].queue, b) \in Nat
  <1>1. writable \in WritablesOver(Full(setting, pool))
    BY Typed
  <1>2. Count(writable[x].queue, b) \in Nat /\ Count(w[x].queue, b) \in Nat
    <2>1. writable[x].queue \in Seq(Full(setting, pool)) /\ w[x].queue \in Seq(full)
      BY <1>1 DEF WritablesOver
    <2> QED BY <2>1, CountIsHowMany
  <1>3. /\ InQueues(w, b) \in Nat
        /\ InQueues(w, b) = InQueues(writable, b) - Count(writable[x].queue, b) + Count(w[x].queue, b)
    BY <1>1, WriteQueue DEF QueuesBut
  <1>4. ByQueues(readable, w, b)
        = ByQueues(readable, writable, b) - 2 * Count(writable[x].queue, b) + 2 * Count(w[x].queue, b)
    BY <1>2, <1>3, KeptTyped DEF ByQueues
  <1> QED BY <1>2, <1>4, KeptTyped DEF KeptOf, Kept

LEMMA KeptSource ==
    ASSUME IInv, NEW q, \A k \in Sinks : q[k].buffer = request[k].buffer, NEW b
    PROVE  Kept(readable, writable, q, transform, pipe.pending, Clearing(stack), Finalizers(stack), b)
           = KeptOf(b) - Is(request[Source].buffer, b) + Is(q[Source].buffer, b)
  <1>1. HeldBySinks(q, b) = HeldBySinks(request, b)
    BY DEF HeldBySinks
  <1>2. Is(q[Source].buffer, b) \in Nat
    BY IsNat
  <1>3. ByRequests(q, b)
        = ByRequests(request, b) - Is(request[Source].buffer, b) + Is(q[Source].buffer, b)
    BY <1>1, <1>2, KeptTyped DEF ByRequests
  <1> QED BY <1>2, <1>3, KeptTyped DEF KeptOf, Kept

LEMMA KeptSink ==
    ASSUME IInv, NEW q, NEW k \in Sinks, q[Source].buffer = request[Source].buffer,
           SinksBut(request, q, k), NEW b
    PROVE  Kept(readable, writable, q, transform, pipe.pending, Clearing(stack), Finalizers(stack), b)
           = KeptOf(b) - 2 * Is(request[k].buffer, b) + 2 * Is(q[k].buffer, b)
  <1>1. /\ HeldBySinks(q, b) \in Nat
        /\ HeldBySinks(q, b) = HeldBySinks(request, b) - Is(request[k].buffer, b) + Is(q[k].buffer, b)
    BY OneSink
  <1>2. Is(q[k].buffer, b) \in Nat /\ Is(request[k].buffer, b) \in Nat
    BY IsNat
  <1>3. ByRequests(q, b)
        = ByRequests(request, b) - 2 * Is(request[k].buffer, b) + 2 * Is(q[k].buffer, b)
    BY <1>1, <1>2, KeptTyped DEF ByRequests
  <1> QED BY <1>2, <1>3, KeptTyped DEF KeptOf, Kept

LEMMA KeptTransform ==
    ASSUME NEW full, NEW r \in ReadablesOver(full), NEW w \in WritablesOver(full), NEW q,
           NEW Y, NEW slots \in Seq(Y), NEW clearing,
           NEW old, NEW new, NEW fin, NEW fin2, NEW x \in Transforms,
           TransformsBut(old, new, fin, fin2, x), NEW b
    PROVE  /\ Kept(r, w, q, new, slots, clearing, fin2, b)
              = Kept(r, w, q, old, slots, clearing, fin, b)
                + (Input(new, x, b) + Output(new, x, fin2, b) - Input(old, x, b) - Output(old, x, fin, b))
           /\ Input(old, x, b) \in Nat /\ Input(new, x, b) \in Nat
           /\ Output(old, x, fin, b) \in Nat /\ Output(new, x, fin2, b) \in Nat
  <1>1. /\ HeldAsInput(new, b) \in Nat /\ HeldAsOutput(new, fin2, b) \in Nat
        /\ HeldAsInput(old, b) \in Nat /\ HeldAsOutput(old, fin, b) \in Nat
        /\ HeldAsInput(new, b) = HeldAsInput(old, b) - Input(old, x, b) + Input(new, x, b)
        /\ HeldAsOutput(new, fin2, b)
           = HeldAsOutput(old, fin, b) - Output(old, x, fin, b) + Output(new, x, fin2, b)
    BY OneTransform
  <1>2. /\ Input(old, x, b) \in Nat /\ Input(new, x, b) \in Nat
        /\ Output(old, x, fin, b) \in Nat /\ Output(new, x, fin2, b) \in Nat
    BY DEF Input, Output
  <1>3. ByTransforms(new, fin2, b)
        = ByTransforms(old, fin, b)
          + (Input(new, x, b) + Output(new, x, fin2, b) - Input(old, x, b) - Output(old, x, fin, b))
    <2> DEFINE i1 == Input(old, x, b)
               i2 == Input(new, x, b)
               o1 == Output(old, x, fin, b)
               o2 == Output(new, x, fin2, b)
    <2>1. i1 \in Nat /\ i2 \in Nat /\ o1 \in Nat /\ o2 \in Nat
      BY <1>2
    <2>2. /\ HeldAsInput(new, b) = HeldAsInput(old, b) - i1 + i2
          /\ HeldAsOutput(new, fin2, b) = HeldAsOutput(old, fin, b) - o1 + o2
      BY <1>1
    <2> HIDE DEF i1, i2, o1, o2
    <2>3. HeldAsInput(new, b) + HeldAsOutput(new, fin2, b)
          = (HeldAsInput(old, b) + HeldAsOutput(old, fin, b)) + (i2 + o2 - i1 - o1)
      BY <1>1, <2>1, <2>2
    <2> QED BY <2>3 DEF ByTransforms, i1, i2, o1, o2
  <1>4. ByTransforms(old, fin, b) \in Nat
    BY <1>1 DEF ByTransforms
  <1>5. /\ ByQueues(r, w, b) \in Nat /\ ByRequests(q, b) \in Nat
        /\ HeldByPending(slots, clearing, b) \in Nat
    BY PartsNat
  <1> DEFINE more == Input(new, x, b) + Output(new, x, fin2, b) - Input(old, x, b) - Output(old, x, fin, b)
  <1>6. more \in Int
    BY <1>2
  <1>7. ByTransforms(new, fin2, b) = ByTransforms(old, fin, b) + more
    BY <1>3
  <1> HIDE DEF more
  <1>8. Kept(r, w, q, new, slots, clearing, fin2, b) = Kept(r, w, q, old, slots, clearing, fin, b) + more
    BY <1>4, <1>5, <1>6, <1>7 DEF Kept
  <1> QED BY <1>2, <1>8 DEF more

LEMMA KeptPending ==
    ASSUME IInv, NEW Y, NEW slots \in Seq(Y), NEW k, NEW clearing2,
           SlotsBut(pipe.pending, slots, Clearing(stack), clearing2, k), NEW b
    PROVE  /\ Kept(readable, writable, request, transform, slots, clearing2, Finalizers(stack), b)
              = KeptOf(b) - Slot(pipe.pending, Clearing(stack), k, b) + Slot(slots, clearing2, k, b)
           /\ Slot(pipe.pending, Clearing(stack), k, b) \in Nat
           /\ Slot(slots, clearing2, k, b) \in Nat
  <1> DEFINE X == Y \cup Slots(setting, Full(setting, pool))
  <1>1. pipe.pending \in Seq(Slots(setting, Full(setting, pool)))
    BY Typed DEF Pipes
  <1>2. pipe.pending \in Seq(X) /\ slots \in Seq(X)
    BY <1>1
  <1> DEFINE clearing == Clearing(stack)
  <1>3. SlotsBut(pipe.pending, slots, clearing, clearing2, k)
    OBVIOUS
  <1> HIDE DEF X, clearing
  <1>4. /\ HeldByPending(slots, clearing2, b) \in Nat
        /\ HeldByPending(slots, clearing2, b)
           = HeldByPending(pipe.pending, clearing, b) - Slot(pipe.pending, clearing, k, b)
                                                      + Slot(slots, clearing2, k, b)
    BY <1>2, <1>3, OneSlot
  <1>5. Slot(pipe.pending, clearing, k, b) \in Nat /\ Slot(slots, clearing2, k, b) \in Nat
    BY DEF Slot
  <1>6. /\ ByQueues(readable, writable, b) \in Nat /\ ByRequests(request, b) \in Nat
        /\ ByTransforms(transform, Finalizers(stack), b) \in Nat
        /\ HeldByPending(pipe.pending, clearing, b) \in Nat
    BY KeptTyped DEF clearing
  <1>7. Kept(readable, writable, request, transform, slots, clearing2, Finalizers(stack), b)
        = Kept(readable, writable, request, transform, pipe.pending, clearing, Finalizers(stack), b)
          - Slot(pipe.pending, clearing, k, b) + Slot(slots, clearing2, k, b)
    BY <1>4, <1>5, <1>6 DEF Kept
  <1> QED BY <1>5, <1>7 DEF KeptOf, clearing

\* A queue of one stream changes.
LEMMA ReadQueueTypes ==
    ASSUME IInv, NEW x \in Readables, NEW q \in Seq(Full(setting, pool)),
           Len(q) <= setting.readQueue,
           NEW r, r = [readable EXCEPT ![x].queue = q]
    PROVE  /\ r \in ReadablesOver(Full(setting, pool)) /\ WithinQueues(setting, r, writable)
           /\ r[x].queue = q /\ QueuesBut(Readables, readable, r, x)
  <1>1. readable \in ReadablesOver(Full(setting, pool)) /\ WithinQueues(setting, readable, writable)
    BY Typed
  <1>2. r \in ReadablesOver(Full(setting, pool))
    BY <1>1 DEF ReadablesOver
  <1>3. r[x].queue = q /\ \A y \in Readables \ {x} : r[y].queue = readable[y].queue
    BY <1>1 DEF ReadablesOver
  <1> QED BY <1>1, <1>2, <1>3 DEF WithinQueues, QueuesBut

LEMMA ReadQueueStateTypes ==
    ASSUME IInv, NEW x \in Readables, NEW q \in Seq(Full(setting, pool)),
           Len(q) <= setting.readQueue, NEW v \in ReadableStates,
           NEW r, r = [readable EXCEPT ![x].queue = q, ![x].state = v]
    PROVE  /\ r \in ReadablesOver(Full(setting, pool)) /\ WithinQueues(setting, r, writable)
           /\ r[x].queue = q /\ QueuesBut(Readables, readable, r, x)
  <1>1. readable \in ReadablesOver(Full(setting, pool)) /\ WithinQueues(setting, readable, writable)
    BY Typed
  <1>2. r \in ReadablesOver(Full(setting, pool))
    BY <1>1 DEF ReadablesOver
  <1>3. r[x].queue = q /\ \A y \in Readables \ {x} : r[y].queue = readable[y].queue
    BY <1>1 DEF ReadablesOver
  <1> QED BY <1>1, <1>2, <1>3 DEF WithinQueues, QueuesBut

LEMMA WriteQueueTypes ==
    ASSUME IInv, NEW x \in Writables, NEW q \in Seq(Full(setting, pool)),
           Len(q) <= setting.writeQueue,
           NEW w, w = [writable EXCEPT ![x].queue = q]
    PROVE  /\ w \in WritablesOver(Full(setting, pool)) /\ WithinQueues(setting, readable, w)
           /\ w[x].queue = q /\ QueuesBut(Writables, writable, w, x)
  <1>1. writable \in WritablesOver(Full(setting, pool)) /\ WithinQueues(setting, readable, writable)
    BY Typed
  <1>2. w \in WritablesOver(Full(setting, pool))
    BY <1>1 DEF WritablesOver
  <1>3. w[x].queue = q /\ \A y \in Writables \ {x} : w[y].queue = writable[y].queue
    BY <1>1 DEF WritablesOver
  <1> QED BY <1>1, <1>2, <1>3 DEF WithinQueues, QueuesBut

LEMMA WriteQueueStateTypes ==
    ASSUME IInv, NEW x \in Writables, NEW q \in Seq(Full(setting, pool)),
           Len(q) <= setting.writeQueue, NEW v \in WritableStates,
           NEW w, w = [writable EXCEPT ![x].queue = q, ![x].state = v]
    PROVE  /\ w \in WritablesOver(Full(setting, pool)) /\ WithinQueues(setting, readable, w)
           /\ w[x].queue = q /\ QueuesBut(Writables, writable, w, x)
  <1>1. writable \in WritablesOver(Full(setting, pool)) /\ WithinQueues(setting, readable, writable)
    BY Typed
  <1>2. w \in WritablesOver(Full(setting, pool))
    BY <1>1 DEF WritablesOver
  <1>3. w[x].queue = q /\ \A y \in Writables \ {x} : w[y].queue = writable[y].queue
    BY <1>1 DEF WritablesOver
  <1> QED BY <1>1, <1>2, <1>3 DEF WithinQueues, QueuesBut

\* The call on top gives back its reference.
LEMMA Released ==
    ASSUME IInv, stack # <<>>, Head(stack).call \in HoldingCalls, pool' = Unref(pool, arg),
           NEW F \in Seq(HarmlessFrames), Call(F), log' \in Logs(setting),
           UNCHANGED <<setting, readable, writable, request, transform, pipe>>
    PROVE  IInv'
  <1>1. /\ pool' \in Pools(setting) /\ Full(setting, pool') = Full(setting, pool)
        /\ \A c \in BuffersOf(setting) : pool'.refs[c] = pool.refs[c] - Is(arg, c)
    BY Typed, Unreffed
  <1>2. TypesInv'
    BY <1>1, Typed, TypesKept
  <1>3. Head(stack).call \notin {"clearPendingWrite", "finalized"}
    BY DEF HoldingCalls
  <1>4. ASSUME NEW b \in BuffersOf(setting)
        PROVE  pool'.refs[b] + KeptOf(b) + Owed(Head(stack), b)
               >= pool.refs[b] + Kept(readable', writable', request', transform', pipe'.pending,
                                      Clearing(stack), Finalizers(stack), b)
    <2>1. Kept(readable', writable', request', transform', pipe'.pending,
               Clearing(stack), Finalizers(stack), b) = KeptOf(b)
      BY DEF KeptOf
    <2>2. KeptOf(b) \in Nat /\ pool.refs[b] \in Int /\ Is(arg, b) \in Nat
      BY KeptTyped, Typed, IsNat DEF Pools
    <2>3. Owed(Head(stack), b) = Is(arg, b)
      BY Owes
    <2> QED BY <1>1, <2>1, <2>2, <2>3
  <1> QED BY <1>1, <1>2, <1>3, <1>4, Settles

-----------------------------------------------------------------------------
(* The steps of readable streams that hand over buffers                    *)

LEMMA Hand ==
    ASSUME NEW p, NEW c \in CallNames \ {"afterWork", "clearPendingWrite", "finalized"},
           NEW n \in Nat, c \in BufferCalls => n \in Full(setting, p),
           NEW x \in Readables \cup Writables,
           c \in ReadableCalls => x \in UsedReadables(setting),
           c \in WritableCalls => x \in UsedWritables(setting),
           c \in TransformCalls => x \in UsedTransforms(setting),
           c \in SourceCalls => x = Source,
           c \in WriteCalls \/ Head(stack).call \notin WriteCalls
    PROVE  /\ Frame(c, x, n) \in Handed(p) /\ Frame(c, x, n).call = c /\ Frame(c, x, n) \in Frames
           /\ c \notin HoldingCalls /\ p = pool => Frame(c, x, n) \in HarmlessFrames
  <1>1. Frame(c, x, n) = [call |-> c, of |-> x, arg |-> n]
    BY DEF Frame
  <1>2. Frame(c, x, n) \in Frames
    BY <1>1 DEF Frames
  <1>3. Frame(c, x, n).call = c /\ Frame(c, x, n).of = x /\ Frame(c, x, n).arg = n
    BY <1>1
  <1>4. FrameOK(setting, Full(setting, p), Frame(c, x, n))
    BY <1>3 DEF FrameOK
  <1>5. Frame(c, x, n) \in Handed(p)
    BY <1>2, <1>3, <1>4 DEF Handed, Ordinary
  <1>6. c \notin HoldingCalls /\ p = pool => Frame(c, x, n) \in HarmlessFrames
    BY <1>2, <1>3, <1>4 DEF HarmlessFrames, Harmless, Plain
  <1> QED BY <1>2, <1>3, <1>5, <1>6

\* A queue changes and the references with it.
LEMMA ReadableSettles ==
    ASSUME IInv, stack # <<>>, Plain(Head(stack)), NEW x \in Readables,
           readable' \in ReadablesOver(Full(setting, pool)),
           WithinQueues(setting, readable', writable),
           QueuesBut(Readables, readable, readable', x),
           pool' \in Pools(setting), Full(setting, pool') = Full(setting, pool),
           \A b \in BuffersOf(setting) :
               pool'.refs[b] = pool.refs[b] - Count(readable[x].queue, b) + Count(readable'[x].queue, b),
           NEW F \in Seq(HarmlessFrames), Call(F),
           UNCHANGED <<setting, writable, request, transform, pipe, log>>
    PROVE  IInv'
  <1>2. TypesInv'
    BY Typed, TypesKept
  <1>3. Head(stack).call \notin {"clearPendingWrite", "finalized"}
    BY DEF Plain
  <1>5. /\ writable' = writable /\ request' = request /\ transform' = transform /\ pipe' = pipe
        /\ setting' = setting
    OBVIOUS
  <1>4. ASSUME NEW b \in BuffersOf(setting)
        PROVE  pool'.refs[b] + KeptOf(b) + Owed(Head(stack), b)
               >= pool.refs[b] + Kept(readable', writable', request', transform', pipe'.pending,
                                      Clearing(stack), Finalizers(stack), b)
    <2>1. /\ Kept(readable', writable, request, transform, pipe.pending,
                  Clearing(stack), Finalizers(stack), b)
             = KeptOf(b) - Count(readable[x].queue, b) + Count(readable'[x].queue, b)
          /\ Count(readable[x].queue, b) \in Nat /\ Count(readable'[x].queue, b) \in Nat
      BY KeptReadable
    <2>2. KeptOf(b) \in Nat /\ pool.refs[b] \in Int /\ Owed(Head(stack), b) \in Nat
      BY KeptTyped, Typed, OwedNat DEF Pools
    <2>3. pool'.refs[b] = pool.refs[b] - Count(readable[x].queue, b) + Count(readable'[x].queue, b)
      OBVIOUS
    <2> QED BY <1>5, <2>1, <2>2, <2>3
  <1> QED BY <1>2, <1>3, <1>4, <1>5, Settles

LEMMA AfterDataKeeps == IInv /\ AfterData => IInv'
  <1> SUFFICES ASSUME IInv, AfterData PROVE IInv'
    OBVIOUS
  <1>1. stack # <<>> /\ Head(stack).call = "afterData"
    BY DEF AfterData, Running
  <1>2. this \in UsedReadables(setting) /\ setting \in Settings
    BY <1>1, TopCall, Typed DEF ReadableCalls
  <1>3. Do("maybeDestroyEnded") \in HarmlessFrames /\ Do("emitOnData") \in HarmlessFrames
    BY <1>1, <1>2, ReadablesCalled DEF Do, ReadableCalls, BufferCalls, SourceCalls, WriteCalls
  <1>4. /\ <<Do("maybeDestroyEnded")>> \in Seq(HarmlessFrames)
        /\ <<Do("emitOnData")>> \in Seq(HarmlessFrames)
    BY <1>3
  <1>5. \E F \in Seq(HarmlessFrames) : Call(F)
    BY <1>4 DEF AfterData
  <1>6. log' \in Logs(setting) /\ Head(stack).call \in HoldingCalls
    BY <1>1, Typed DEF AfterData, others, HoldingCalls
  <1> QED BY <1>1, <1>5, <1>6, Released DEF AfterData, others

LEMMA EmitOnDataKeeps == IInv /\ EmitOnData => IInv'
  <1> SUFFICES ASSUME IInv, EmitOnData PROVE IInv'
    OBVIOUS
  <1> DEFINE q == readable[this].queue
  <1>1. stack # <<>> /\ Head(stack).call = "emitOnData" /\ Plain(Head(stack))
    BY DEF EmitOnData, Running, Plain, HoldingCalls
  <1>2. /\ this \in UsedReadables(setting) /\ setting \in Settings /\ this \in Readables
        /\ this \in Readables \cup Writables
    BY <1>1, TopCall, Typed DEF ReadableCalls
  <1>3. CASE q = <<>>
    <2>1. Do("maybeDestroyEnded") \in HarmlessFrames
      BY <1>1, <1>2, ReadablesCalled DEF Do, ReadableCalls, BufferCalls, SourceCalls, WriteCalls
    <2>2. <<Do("maybeDestroyEnded")>> \in Seq(HarmlessFrames)
      BY <2>1
    <2>3. Call(<<Do("maybeDestroyEnded")>>) /\ UNCHANGED <<pool, readable, others>>
      BY <1>3 DEF EmitOnData, It
    <2> QED BY <1>1, <2>2, <2>3, OnlyCalls DEF others
  <1>4. CASE q # <<>>
    <2> DEFINE f == Frame("eventData", this, Head(q))
               g == Frame("afterData", this, Head(q))
               F == <<f, g>>
    <2>1. /\ q \in Seq(Full(setting, pool)) /\ Len(q) \in Nat
          /\ Head(q) \in Full(setting, pool) /\ Head(q) \in Nat
          /\ Tail(q) \in Seq(Full(setting, pool)) /\ Len(Tail(q)) <= setting.readQueue
      <3>1. q \in Seq(Full(setting, pool)) /\ Len(q) <= setting.readQueue
        BY <1>2, Typed DEF ReadablesOver, WithinQueues
      <3>2. setting.readQueue \in Nat /\ Full(setting, pool) \subseteq Nat
        BY <1>2, SettingIs, Typed
      <3>3. Head(q) \in Full(setting, pool) /\ Tail(q) \in Seq(Full(setting, pool))
            /\ Len(Tail(q)) = Len(q) - 1 /\ Len(q) \in Nat
        BY <1>4, <3>1, HeadTailProperties, LenProperties
      <3> QED BY <3>1, <3>2, <3>3
    <2>2. /\ readable' = [readable EXCEPT ![this].queue = Tail(q)]
          /\ Call(F) /\ UNCHANGED <<pool, others>>
      BY <1>4 DEF EmitOnData, It
    <2>3. /\ readable' \in ReadablesOver(Full(setting, pool)) /\ WithinQueues(setting, readable', writable)
          /\ readable'[this].queue = Tail(q) /\ QueuesBut(Readables, readable, readable', this)
      <3> DEFINE u == Tail(q)
      <3>1. readable' = [readable EXCEPT ![this].queue = u] /\ u \in Seq(Full(setting, pool))
            /\ Len(u) <= setting.readQueue
        BY <2>1, <2>2
      <3> HIDE DEF u, q
      <3>2. /\ readable' \in ReadablesOver(Full(setting, pool))
            /\ WithinQueues(setting, readable', writable)
            /\ readable'[this].queue = u /\ QueuesBut(Readables, readable, readable', this)
        BY <1>2, <3>1, ReadQueueTypes
      <3> QED BY <3>2 DEF u
    <2>4. TypesInv'
      BY <2>2, <2>3, Typed, TypesKept DEF others
    <2>5. /\ f \in Handed(pool) /\ f.call = "eventData" /\ f \in Frames
          /\ g \in Handed(pool) /\ g.call = "afterData" /\ g \in Frames
      <3>1. ASSUME NEW c \in {"eventData", "afterData"}
            PROVE  /\ c \in CallNames \ {"afterWork", "clearPendingWrite", "finalized"}
                   /\ c \notin WritableCalls \cup TransformCalls \cup SourceCalls
        BY DEF CallNames, ReadableCalls, WritableCalls, TransformCalls, SourceCalls
      <3>2. Head(stack).call \notin WriteCalls
        BY <1>1 DEF WriteCalls
      <3> HIDE DEF q
      <3> QED BY <1>2, <2>1, <3>1, <3>2, Hand
    <2>6. F \in Seq(Handed(pool))
      <3> HIDE DEF f, g
      <3> QED BY <2>5
    <2>7. Covers(F)
      <3>1. ASSUME NEW b \in BuffersOf(setting)
            PROVE  pool'.refs[b] + KeptOf(b) + Owed(Head(stack), b)
                   >= pool.refs[b] + Kept(readable', writable', request', transform', pipe'.pending,
                                          Clearing(stack), Finalizers(stack), b)
                      + HeldByFrames(F, b)
        <4>1. /\ Kept(readable', writable', request', transform', pipe'.pending,
                      Clearing(stack), Finalizers(stack), b)
                 = KeptOf(b) - Count(q, b) + Count(Tail(q), b)
          <5>1. /\ writable' = writable /\ request' = request /\ transform' = transform
                /\ pipe' = pipe
            BY <2>2 DEF others
          <5> QED BY <1>2, <2>3, <5>1, KeptReadable
        <4>2. /\ Count(q, b) \in Nat /\ Count(Tail(q), b) \in Nat
              /\ Count(q, b) = Count(Tail(q), b) + Is(Head(q), b)
          BY <1>4, <2>1, CountFirst
        <4>3. HeldByFrames(F, b) = Owed(f, b) + Owed(g, b)
          <5> HIDE DEF f, g
          <5> QED BY <2>5, TwoFrames
        <4>4. Owed(f, b) = 0 /\ Owed(g, b) = Is(Head(q), b)
          BY Owes DEF HoldingCalls
        <4>5. KeptOf(b) \in Nat /\ pool.refs[b] \in Int /\ Owed(Head(stack), b) \in Nat
              /\ Is(Head(q), b) \in Nat /\ pool' = pool
          BY <2>2, KeptTyped, Typed, OwedNat, IsNat DEF Pools
        <4> HIDE DEF q, f, g, F
        <4> QED BY <4>1, <4>2, <4>3, <4>4, <4>5
      <3> HIDE DEF F
      <3> QED BY <3>1 DEF Covers
    <2>8. \A i \in 1 .. Len(F) : F[i].call # "write"
      <3> HIDE DEF f, g
      <3> QED BY <2>5
    <2>9. pool' = pool /\ setting' = setting
      BY <2>2 DEF others
    <2> HIDE DEF F
    <2> QED BY <1>1, <2>2, <2>4, <2>6, <2>7, <2>8, <2>9, Moves
  <1> QED BY <1>3, <1>4

\* A buffer goes into a queue, and the queue has a reference of its own.
Longer(u, q, x) == u = Append(q, x) \/ u = <<x>> \o q

LEMMA Queued ==
    ASSUME NEW X, NEW q \in Seq(X), NEW x \in X, NEW n \in Nat, Len(q) <= n, Len(q) # n,
           NEW u, Longer(u, q, x)
    PROVE  /\ u \in Seq(X) /\ Len(u) <= n
           /\ \A b : Count(u, b) = Count(q, b) + Is(x, b)
  <1>1. \A b : /\ Count(Append(q, x), b) = Count(q, b) + Is(x, b)
               /\ Count(<<x>> \o q, b) = Count(q, b) + Is(x, b)
    BY CountQueue
  <1>2. /\ Append(q, x) \in Seq(X) /\ Len(Append(q, x)) = Len(q) + 1 /\ Len(q) \in Nat
    BY AppendProperties, LenProperties
  <1>3. <<x>> \in Seq(X) /\ Len(<<x>>) = 1
    OBVIOUS
  <1>4. /\ <<x>> \o q \in Seq(X) /\ Len(<<x>> \o q) = Len(q) + 1
    BY <1>2, <1>3, ConcatProperties
  <1>5. ASSUME u = Append(q, x)
        PROVE  /\ u \in Seq(X) /\ Len(u) = Len(q) + 1
               /\ \A b : Count(u, b) = Count(q, b) + Is(x, b)
    BY <1>1, <1>2, <1>5
  <1>6. ASSUME u = <<x>> \o q
        PROVE  /\ u \in Seq(X) /\ Len(u) = Len(q) + 1
               /\ \A b : Count(u, b) = Count(q, b) + Is(x, b)
    BY <1>1, <1>4, <1>6
  <1>7. /\ u \in Seq(X) /\ Len(u) = Len(q) + 1 /\ Len(q) \in Nat
        /\ \A b : Count(u, b) = Count(q, b) + Is(x, b)
    BY <1>2, <1>5, <1>6 DEF Longer
  <1>8. Len(q) + 1 <= n
    BY <1>2
  <1> QED BY <1>7, <1>8

LEMMA ReadableGets ==
    ASSUME IInv, stack # <<>>, Plain(Head(stack)), this \in Readables, arg \in Full(setting, pool),
           Len(readable[this].queue) # setting.readQueue,
           NEW u, Longer(u, readable[this].queue, arg),
           readable' = [readable EXCEPT ![this].queue = u], pool' = Ref(pool, arg),
           NEW F \in Seq(HarmlessFrames), Call(F),
           UNCHANGED <<setting, writable, request, transform, pipe, log>>
    PROVE  IInv'
  <1> DEFINE q == readable[this].queue
  <1>1. /\ q \in Seq(Full(setting, pool)) /\ Len(q) <= setting.readQueue /\ Len(q) # setting.readQueue
        /\ setting.readQueue \in Nat /\ Longer(u, q, arg)
    BY Typed, SettingIs DEF ReadablesOver, WithinQueues
  <1> HIDE DEF q
  <1>2. /\ u \in Seq(Full(setting, pool)) /\ Len(u) <= setting.readQueue
        /\ \A b : Count(u, b) = Count(q, b) + Is(arg, b)
    <2> DEFINE full == Full(setting, pool)
               n == setting.readQueue
               a == arg
    <2>1. /\ q \in Seq(full) /\ Len(q) <= n /\ Len(q) # n /\ n \in Nat /\ a \in full
          /\ Longer(u, q, a)
      BY <1>1
    <2> HIDE DEF full, n, a
    <2>2. /\ u \in Seq(full) /\ Len(u) <= n /\ \A b : Count(u, b) = Count(q, b) + Is(a, b)
      BY <2>1, Queued
    <2> QED BY <2>2 DEF full, n, a
  <1>3. /\ readable' \in ReadablesOver(Full(setting, pool)) /\ WithinQueues(setting, readable', writable)
        /\ readable'[this].queue = u /\ QueuesBut(Readables, readable, readable', this)
    BY <1>2, ReadQueueTypes
  <1>4. pool \in Pools(setting) /\ arg \in BuffersOf(setting)
    BY Typed
  <1>5. /\ pool' \in Pools(setting) /\ Full(setting, pool') = Full(setting, pool)
        /\ \A b \in BuffersOf(setting) : pool'.refs[b] = pool.refs[b] + Is(arg, b)
    BY <1>4, Reffed
  <1>6. ASSUME NEW b \in BuffersOf(setting)
        PROVE  pool'.refs[b] = pool.refs[b] - Count(readable[this].queue, b) + Count(readable'[this].queue, b)
    <2>1. Count(q, b) \in Nat /\ Is(arg, b) \in Nat /\ pool.refs[b] \in Int
      BY <1>1, <1>4, CountIsHowMany, IsNat DEF Pools
    <2>2. Count(readable'[this].queue, b) = Count(q, b) + Is(arg, b)
      BY <1>2, <1>3
    <2> QED BY <1>5, <2>1, <2>2 DEF q
  <1> QED BY <1>3, <1>5, <1>6, ReadableSettles

LEMMA PushKeeps == IInv /\ Push => IInv'
  <1> SUFFICES ASSUME IInv, Push PROVE IInv'
    OBVIOUS
  <1>1. stack # <<>> /\ Head(stack).call = "push" /\ Plain(Head(stack))
    BY DEF Push, Running, Plain, HoldingCalls
  <1>2. /\ this \in UsedReadables(setting) /\ setting \in Settings /\ this \in Readables
        /\ this \in Readables \cup Writables /\ arg \in Full(setting, pool)
    BY <1>1, TopCall, Typed DEF ReadableCalls, BufferCalls
  <1>3. /\ Error(this, "pushDropsBuffer") \in HarmlessFrames
        /\ Error(this, "pushInWrongState") \in HarmlessFrames
    BY <1>2, Errors DEF ErrorMessages, Assertions
  <1>4. /\ Do("emitOnData") \in HarmlessFrames /\ Do("pushedSync") \in HarmlessFrames
        /\ Do("pushedAsync") \in HarmlessFrames
    BY <1>1, <1>2, ReadablesCalled DEF Do, ReadableCalls, BufferCalls, SourceCalls, WriteCalls
  <1>5. CASE Len(It.queue) = setting.readQueue
    <2>1. /\ readable' \in ReadablesOver(Full(setting, pool))
          /\ \A y \in Readables : readable'[y].queue = readable[y].queue
      BY <1>2, <1>5, ReadableBecomes DEF Push, ReadableStates
    <2>2. <<Error(this, "pushDropsBuffer")>> \in Seq(HarmlessFrames)
      BY <1>3
    <2> QED BY <1>1, <1>5, <2>1, <2>2, OnlyReadables DEF Push, others
  <1>6. CASE Len(It.queue) # setting.readQueue
    <2>1. /\ <<Do("emitOnData"), Do("pushedSync")>> \in Seq(HarmlessFrames)
          /\ <<Do("emitOnData"), Do("pushedAsync")>> \in Seq(HarmlessFrames)
          /\ <<Do("emitOnData")>> \in Seq(HarmlessFrames)
          /\ <<Error(this, "pushInWrongState")>> \in Seq(HarmlessFrames)
      BY <1>3, <1>4
    <2>2. \E F \in Seq(HarmlessFrames) : Call(F)
      BY <1>6, <2>1 DEF Push
    <2>3. /\ readable' = [readable EXCEPT ![this].queue = Append(readable[this].queue, arg)]
          /\ pool' = Ref(pool, arg) /\ Len(readable[this].queue) # setting.readQueue
          /\ UNCHANGED <<setting, writable, request, transform, pipe, log>>
      BY <1>6 DEF Push, It, others
    <2> DEFINE u == Append(readable[this].queue, arg)
    <2>4. readable' = [readable EXCEPT ![this].queue = u] /\ Longer(u, readable[this].queue, arg)
      BY <2>3 DEF Longer
    <2> HIDE DEF u
    <2> QED BY <1>1, <1>2, <2>2, <2>3, <2>4, ReadableGets
  <1> QED BY <1>5, <1>6

LEMMA UnshiftKeeps == IInv /\ Unshift => IInv'
  <1> SUFFICES ASSUME IInv, Unshift PROVE IInv'
    OBVIOUS
  <1>1. stack # <<>> /\ Head(stack).call = "unshift" /\ Plain(Head(stack))
    BY DEF Unshift, Running, Plain, HoldingCalls
  <1>2. /\ this \in UsedReadables(setting) /\ setting \in Settings /\ this \in Readables
        /\ this \in Readables \cup Writables /\ arg \in Full(setting, pool)
    BY <1>1, TopCall, Typed DEF ReadableCalls, BufferCalls
  <1>3. <<Error(this, "unshiftFailed")>> \in Seq(HarmlessFrames)
    BY <1>2, Errors DEF ErrorMessages, Assertions
  <1>5. CASE Len(It.queue) = setting.readQueue
    BY <1>1, <1>3, <1>5, OnlyCalls DEF Unshift, others
  <1>6. CASE Len(It.queue) # setting.readQueue
    <2>1. <<>> \in Seq(HarmlessFrames)
      OBVIOUS
    <2>3. /\ readable' = [readable EXCEPT ![this].queue = <<arg>> \o readable[this].queue]
          /\ pool' = Ref(pool, arg) /\ Len(readable[this].queue) # setting.readQueue /\ Call(<<>>)
          /\ UNCHANGED <<setting, writable, request, transform, pipe, log>>
      BY <1>6 DEF Unshift, It, others, Return
    <2> DEFINE u == <<arg>> \o readable[this].queue
    <2>4. readable' = [readable EXCEPT ![this].queue = u] /\ Longer(u, readable[this].queue, arg)
      BY <2>3 DEF Longer
    <2> HIDE DEF u
    <2> QED BY <1>1, <1>2, <2>1, <2>3, <2>4, ReadableGets
  <1> QED BY <1>5, <1>6

LEMMA DestroyReadableKeeps == IInv /\ DestroyReadable => IInv'
  <1> SUFFICES ASSUME IInv, DestroyReadable PROVE IInv'
    OBVIOUS
  <1>1. stack # <<>> /\ Head(stack).call = "destroyReadable" /\ Plain(Head(stack))
    BY DEF DestroyReadable, Running, Plain, HoldingCalls
  <1>2. /\ this \in UsedReadables(setting) /\ setting \in Settings /\ this \in Readables
    BY <1>1, TopCall, Typed DEF ReadableCalls
  <1>3. /\ Do("asyncDestroyReadable") \in HarmlessFrames
    BY <1>1, <1>2, ReadablesCalled DEF Do, ReadableCalls, BufferCalls, SourceCalls, WriteCalls
  <1>4. <<Do("asyncDestroyReadable")>> \in Seq(HarmlessFrames) /\ <<>> \in Seq(HarmlessFrames)
    BY <1>3
  <1>5. \E F \in Seq(HarmlessFrames) : Call(F)
    BY <1>4 DEF DestroyReadable, Return
  <1> DEFINE u == <<>>
  <1>6. /\ u \in Seq(Full(setting, pool)) /\ Len(u) <= setting.readQueue /\ \A b : Count(u, b) = 0
        /\ "Destroying" \in ReadableStates
    <2>1. Len(<<>>) = 0 /\ setting.readQueue \in Nat /\ <<>> \in Seq(Full(setting, pool))
      BY <1>2, SettingIs
    <2>2. \A b : Count(<<>>, b) = 0
      BY <2>1, FS_EmptySet DEF Count
    <2> QED BY <2>1, <2>2 DEF ReadableStates
  <1>7. \/ readable' = [readable EXCEPT ![this].queue = u]
        \/ readable' = [readable EXCEPT ![this].queue = u, ![this].state = "Destroying"]
    BY DEF DestroyReadable
  <1> HIDE DEF u
  <1>8. /\ readable' \in ReadablesOver(Full(setting, pool)) /\ WithinQueues(setting, readable', writable)
        /\ readable'[this].queue = u /\ QueuesBut(Readables, readable, readable', this)
    BY <1>2, <1>6, <1>7, ReadQueueTypes, ReadQueueStateTypes
  <1> DEFINE q == readable[this].queue
  <1>9. q \in Seq(Full(setting, pool)) /\ pool \in Pools(setting) /\ pool' = UnrefAll(pool, q)
    BY <1>2, Typed DEF ReadablesOver, DestroyReadable, It
  <1> HIDE DEF q
  <1>10. /\ pool' \in Pools(setting) /\ Full(setting, pool') = Full(setting, pool)
         /\ \A b \in BuffersOf(setting) : pool'.refs[b] = pool.refs[b] - Count(q, b)
    BY <1>9, AllUnreffed
  <1>11. ASSUME NEW b \in BuffersOf(setting)
         PROVE  pool'.refs[b] = pool.refs[b] - Count(readable[this].queue, b) + Count(readable'[this].queue, b)
    <2>1. Count(q, b) \in Nat /\ pool.refs[b] \in Int /\ Count(readable'[this].queue, b) = 0
      BY <1>6, <1>8, <1>9, CountIsHowMany DEF Pools
    <2> QED BY <1>10, <2>1 DEF q
  <1>12. UNCHANGED <<setting, writable, request, transform, pipe, log>>
    BY DEF DestroyReadable, others
  <1> QED BY <1>1, <1>2, <1>5, <1>8, <1>10, <1>11, <1>12, ReadableSettles

LEMMA EventDataKeeps == IInv /\ EventData => IInv'
  <1> SUFFICES ASSUME IInv, EventData PROVE IInv'
    OBVIOUS
  <1>1. stack # <<>> /\ Head(stack).call = "eventData" /\ Plain(Head(stack))
    BY DEF EventData, Running, Plain, HoldingCalls
  <1>2. /\ this \in UsedReadables(setting) /\ setting \in Settings /\ this \in Readables
        /\ this \in Readables \cup Writables /\ arg \in Full(setting, pool) /\ arg \in Nat
        /\ UsedWritables(setting) \subseteq Writables
    BY <1>1, TopCall, Typed, SettingIs DEF ReadableCalls, BufferCalls
  <1>3. Head(stack).call \notin WriteCalls
    BY <1>1 DEF WriteCalls
  <1>4. Do("pause") \in HarmlessFrames
    BY <1>1, <1>2, <1>3, ReadablesCalled DEF Do, ReadableCalls, BufferCalls, SourceCalls
  <1>5. Frame("unshift", this, arg) \in HarmlessFrames
    <2>1. /\ "unshift" \in CallNames \ {"afterWork", "clearPendingWrite", "finalized"}
          /\ "unshift" \notin WritableCalls \cup TransformCalls \cup SourceCalls \cup HoldingCalls
      BY DEF CallNames, ReadableCalls, WritableCalls, TransformCalls, SourceCalls, HoldingCalls
    <2> QED BY <1>2, <1>3, <2>1, Hand
  <1>6. ASSUME NEW w \in UsedWritables(setting)
        PROVE  Frame("asyncWriteWritable", w, arg) \in HarmlessFrames
    <2>1. /\ "asyncWriteWritable" \in CallNames \ {"afterWork", "clearPendingWrite", "finalized"}
          /\ "asyncWriteWritable" \notin ReadableCalls \cup TransformCalls \cup SourceCalls \cup HoldingCalls
      BY DEF CallNames, ReadableCalls, WritableCalls, TransformCalls, SourceCalls, HoldingCalls
    <2>2. w \in Readables \cup Writables
      BY <1>2
    <2> QED BY <1>2, <1>3, <2>1, <2>2, Hand
  <1> DEFINE ws == WritablesOf(this)
             F == [i \in DOMAIN ws |-> Frame("asyncWriteWritable", ws[i], arg)]
  <1>7. ws \in Seq(UsedWritables(setting)) /\ \A i \in DOMAIN ws : ws[i] \in UsedWritables(setting)
    BY <1>2, Neighbours
  <1>8. F \in Seq(HarmlessFrames)
    <2>1. Len(ws) \in Nat /\ DOMAIN ws = 1 .. Len(ws)
      BY <1>7, LenProperties
    <2>2. \A i \in 1 .. Len(ws) : F[i] \in HarmlessFrames
      BY <1>6, <1>7, <2>1
    <2>3. F = [i \in 1 .. Len(ws) |-> F[i]]
      BY <2>1
    <2> HIDE DEF F, ws
    <2> QED BY <2>1, <2>2, <2>3
  <1>9. <<>> \in Seq(HarmlessFrames) /\ <<Do("pause"), Frame("unshift", this, arg)>> \in Seq(HarmlessFrames)
    BY <1>4, <1>5
  <1>10. Call(<<>>) \/ Call(<<Do("pause"), Frame("unshift", this, arg)>>) \/ Call(F)
    BY DEF EventData
  <1>11. \E G \in Seq(HarmlessFrames) : Call(G)
    <2> HIDE DEF F
    <2> QED BY <1>8, <1>9, <1>10
  <1>12. UNCHANGED <<setting, pool, readable, writable, request, transform, pipe, log>>
    BY DEF EventData, streams
  <1> QED BY <1>1, <1>11, <1>12, OnlyCalls

-----------------------------------------------------------------------------
(* The steps of writable streams that hand over buffers                    *)

LEMMA Balanced ==
    ASSUME NEW r \in Int, NEW r2 \in Int, NEW k \in Nat, NEW owed \in Nat, NEW f \in Nat,
           NEW old \in Nat, NEW new \in Nat, NEW after, after = k - old + new,
           r2 + old + owed >= r + new + f
    PROVE  r2 + k + owed >= r + after + f
  OBVIOUS

LEMMA WritableMoves ==
    ASSUME IInv, stack # <<>>, Head(stack).call \notin {"clearPendingWrite", "finalized"},
           NEW x \in Writables,
           writable' \in WritablesOver(Full(setting, pool)),
           WithinQueues(setting, readable, writable'),
           QueuesBut(Writables, writable, writable', x),
           pool' \in Pools(setting), Full(setting, pool') = Full(setting, pool),
           NEW F \in Seq(Handed(pool')), Call(F), \A i \in 1 .. Len(F) : F[i].call # "write",
           \A b \in BuffersOf(setting) :
               pool'.refs[b] + 2 * Count(writable[x].queue, b) + Owed(Head(stack), b)
               >= pool.refs[b] + 2 * Count(writable'[x].queue, b) + HeldByFrames(F, b),
           UNCHANGED <<setting, readable, request, transform, pipe, log>>
    PROVE  IInv'
  <1>2. TypesInv'
    BY Typed, TypesKept
  <1>5. /\ readable' = readable /\ request' = request /\ transform' = transform /\ pipe' = pipe
        /\ setting' = setting
    OBVIOUS
  <1>4. ASSUME NEW b \in BuffersOf(setting)
        PROVE  pool'.refs[b] + KeptOf(b) + Owed(Head(stack), b)
               >= pool.refs[b] + Kept(readable', writable', request', transform', pipe'.pending,
                                      Clearing(stack), Finalizers(stack), b)
                  + HeldByFrames(F, b)
    <2>1. /\ Kept(readable, writable', request, transform, pipe.pending,
                  Clearing(stack), Finalizers(stack), b)
             = KeptOf(b) - 2 * Count(writable[x].queue, b) + 2 * Count(writable'[x].queue, b)
          /\ Count(writable[x].queue, b) \in Nat /\ Count(writable'[x].queue, b) \in Nat
      BY KeptWritable
    <2>2. /\ KeptOf(b) \in Nat /\ pool.refs[b] \in Int /\ pool'.refs[b] \in Int
          /\ Owed(Head(stack), b) \in Nat
      BY KeptTyped, Typed, OwedNat DEF Pools
    <2>3. pool'.refs[b] + 2 * Count(writable[x].queue, b) + Owed(Head(stack), b)
          >= pool.refs[b] + 2 * Count(writable'[x].queue, b) + HeldByFrames(F, b)
      OBVIOUS
    <2>4. HeldByFrames(F, b) \in Nat
      <3>1. Handed(pool') \subseteq Frames
        BY DEF Handed
      <3>2. F \in Seq(Frames)
        BY <3>1
      <3> QED BY <3>2, FramesCount
    <2> DEFINE old == 2 * Count(writable[x].queue, b)
               new == 2 * Count(writable'[x].queue, b)
               after == Kept(readable', writable', request', transform', pipe'.pending,
                             Clearing(stack), Finalizers(stack), b)
    <2>5. after = KeptOf(b) - old + new /\ old \in Nat /\ new \in Nat
      BY <1>5, <2>1
    <2>6. pool'.refs[b] + old + Owed(Head(stack), b) >= pool.refs[b] + new + HeldByFrames(F, b)
      BY <2>3
    <2> HIDE DEF old, new, after
    <2>7. pool'.refs[b] + KeptOf(b) + Owed(Head(stack), b) >= pool.refs[b] + after + HeldByFrames(F, b)
      BY <2>2, <2>4, <2>5, <2>6, Balanced
    <2> QED BY <2>7 DEF after
  <1>6. Covers(F)
    BY <1>4 DEF Covers
  <1> QED BY <1>2, <1>5, <1>6, Moves

LEMMA WritableSettles ==
    ASSUME IInv, stack # <<>>, Head(stack).call \notin {"clearPendingWrite", "finalized"},
           NEW x \in Writables,
           writable' \in WritablesOver(Full(setting, pool)),
           WithinQueues(setting, readable, writable'),
           QueuesBut(Writables, writable, writable', x),
           pool' \in Pools(setting), Full(setting, pool') = Full(setting, pool),
           NEW F \in Seq(HarmlessFrames), Call(F),
           \A b \in BuffersOf(setting) :
               pool'.refs[b] + 2 * Count(writable[x].queue, b) + Owed(Head(stack), b)
               >= pool.refs[b] + 2 * Count(writable'[x].queue, b),
           UNCHANGED <<setting, readable, request, transform, pipe, log>>
    PROVE  IInv'
  <1>1. F \in Seq(Handed(pool'))
    BY Hands
  <1>2. \A i \in 1 .. Len(F) : F[i].call # "write"
    <2>1. \A i \in 1 .. Len(F) : F[i] \in HarmlessFrames
      BY ElementOfSeq
    <2> QED BY <2>1 DEF HarmlessFrames, Harmless, Plain, HoldingCalls
  <1>3. ASSUME NEW b \in BuffersOf(setting)
        PROVE  pool'.refs[b] + 2 * Count(writable[x].queue, b) + Owed(Head(stack), b)
               >= pool.refs[b] + 2 * Count(writable'[x].queue, b) + HeldByFrames(F, b)
    <2>1. HeldByFrames(F, b) = 0
      BY HarmlessCount
    <2>2. Count(writable'[x].queue, b) \in Nat /\ pool.refs[b] \in Int
      <3>1. writable'[x].queue \in Seq(Full(setting, pool)) /\ pool \in Pools(setting)
        BY Typed DEF WritablesOver
      <3> QED BY <3>1, CountIsHowMany DEF Pools
    <2> QED BY <2>1, <2>2
  <1> QED BY <1>1, <1>2, <1>3, WritableMoves

\* A buffer goes into a queue: the call that it was given to leaves it its reference.
LEMMA WritableGets ==
    ASSUME IInv, stack # <<>>, Head(stack).call \in HoldingCalls, this \in Writables,
           arg \in Full(setting, pool),
           Len(writable[this].queue) # setting.writeQueue,
           NEW u, Longer(u, writable[this].queue, arg),
           writable' = [writable EXCEPT ![this].queue = u]
           \/ writable' = [writable EXCEPT ![this].queue = u, ![this].state = "Stopped"],
           pool' = Ref(pool, arg), NEW F \in Seq(HarmlessFrames), Call(F),
           UNCHANGED <<setting, readable, request, transform, pipe, log>>
    PROVE  IInv'
  <1> DEFINE q == writable[this].queue
  <1>1. /\ q \in Seq(Full(setting, pool)) /\ Len(q) <= setting.writeQueue /\ Len(q) # setting.writeQueue
        /\ setting.writeQueue \in Nat /\ Longer(u, q, arg)
    BY Typed, SettingIs DEF WritablesOver, WithinQueues
  <1> HIDE DEF q
  <1>2. /\ u \in Seq(Full(setting, pool)) /\ Len(u) <= setting.writeQueue
        /\ \A b : Count(u, b) = Count(q, b) + Is(arg, b)
    <2> DEFINE full == Full(setting, pool)
               n == setting.writeQueue
               a == arg
    <2>1. /\ q \in Seq(full) /\ Len(q) <= n /\ Len(q) # n /\ n \in Nat /\ a \in full
          /\ Longer(u, q, a)
      BY <1>1
    <2> HIDE DEF full, n, a
    <2>2. /\ u \in Seq(full) /\ Len(u) <= n /\ \A b : Count(u, b) = Count(q, b) + Is(a, b)
      BY <2>1, Queued
    <2> QED BY <2>2 DEF full, n, a
  <1>3. /\ writable' \in WritablesOver(Full(setting, pool)) /\ WithinQueues(setting, readable, writable')
        /\ writable'[this].queue = u /\ QueuesBut(Writables, writable, writable', this)
    <2>1. "Stopped" \in WritableStates
      BY DEF WritableStates
    <2> QED BY <1>2, <2>1, WriteQueueTypes, WriteQueueStateTypes
  <1>4. pool \in Pools(setting) /\ arg \in BuffersOf(setting)
    BY Typed
  <1>5. /\ pool' \in Pools(setting) /\ Full(setting, pool') = Full(setting, pool)
        /\ \A b \in BuffersOf(setting) : pool'.refs[b] = pool.refs[b] + Is(arg, b)
    BY <1>4, Reffed
  <1>6. ASSUME NEW b \in BuffersOf(setting)
        PROVE  pool'.refs[b] + 2 * Count(writable[this].queue, b) + Owed(Head(stack), b)
               >= pool.refs[b] + 2 * Count(writable'[this].queue, b)
    <2>1. Count(q, b) \in Nat /\ Is(arg, b) \in Nat /\ pool.refs[b] \in Int
      BY <1>1, <1>4, CountIsHowMany, IsNat DEF Pools
    <2>2. Count(writable'[this].queue, b) = Count(q, b) + Is(arg, b)
      BY <1>2, <1>3
    <2>3. Owed(Head(stack), b) = Is(arg, b)
      BY Owes
    <2>4. pool'.refs[b] = pool.refs[b] + Is(arg, b)
      BY <1>5
    <2> QED BY <2>1, <2>2, <2>3, <2>4 DEF q
  <1>7. Head(stack).call \notin {"clearPendingWrite", "finalized"}
    BY DEF HoldingCalls
  <1> QED BY <1>3, <1>5, <1>6, <1>7, WritableSettles

LEMMA WriteKeeps == IInv /\ Write => IInv'
  <1> SUFFICES ASSUME IInv, Write PROVE IInv'
    OBVIOUS
  <1>1. stack # <<>> /\ Head(stack).call = "write" /\ Head(stack).call \in HoldingCalls
    BY DEF Write, Running, HoldingCalls
  <1>2. /\ this \in UsedWritables(setting) /\ setting \in Settings /\ this \in Writables
        /\ arg \in Full(setting, pool)
    BY <1>1, TopCall, Typed DEF WritableCalls, BufferCalls
  <1>3. Do("resumeWriting") \in HarmlessFrames
    BY <1>1, <1>2, WritablesCalled DEF Do, NoBuffer, WritableCalls, BufferCalls, WriteCalls
  <1>4. <<Do("resumeWriting")>> \in Seq(HarmlessFrames) /\ Call(<<Do("resumeWriting")>>)
    BY <1>3 DEF Write
  <1>5. Len(writable[this].queue) # setting.writeQueue
    <2>1. CanAcceptWrite(this)
      BY DEF IInv, StackInv, Write
    <2>2. setting.writeQueue \in Nat
      BY <1>2, SettingIs
    <2> QED BY <2>1, <2>2 DEF CanAcceptWrite
  <1> DEFINE u == Append(writable[this].queue, arg)
  <1>6. /\ writable' = [writable EXCEPT ![this].queue = u] /\ pool' = Ref(pool, arg)
        /\ Longer(u, writable[this].queue, arg)
        /\ UNCHANGED <<setting, readable, request, transform, pipe, log>>
    BY DEF Write, rest, Longer
  <1> HIDE DEF u
  <1> QED BY <1>1, <1>2, <1>4, <1>5, <1>6, WritableGets

LEMMA UnshiftWriteKeeps == IInv /\ UnshiftWrite => IInv'
  <1> SUFFICES ASSUME IInv, UnshiftWrite PROVE IInv'
    OBVIOUS
  <1>1. /\ stack # <<>> /\ Head(stack).call = "unshiftWrite" /\ Head(stack).call \in HoldingCalls
        /\ Head(stack).call \notin {"clearPendingWrite", "finalized"}
    BY DEF UnshiftWrite, Running, HoldingCalls
  <1>2. /\ this \in UsedWritables(setting) /\ setting \in Settings /\ this \in Writables
        /\ arg \in Full(setting, pool) /\ arg \in BuffersOf(setting)
        /\ this \in Readables \cup Writables
    BY <1>1, TopCall, Typed DEF WritableCalls, BufferCalls
  <1>3. <<Error(this, "writableUnshiftFailed")>> \in Seq(HarmlessFrames) /\ <<>> \in Seq(HarmlessFrames)
    BY <1>2, Errors DEF ErrorMessages, Assertions
  <1>4. UNCHANGED <<setting, readable, request, transform, pipe, log>> /\ pool' = Ref(pool, arg)
    BY DEF UnshiftWrite, rest
  <1>5. CASE Len(W.queue) = setting.writeQueue
    <2>1. /\ writable' = writable /\ Call(<<Error(this, "writableUnshiftFailed")>>)
      BY <1>5 DEF UnshiftWrite
    <2>2. /\ pool' \in Pools(setting) /\ Full(setting, pool') = Full(setting, pool)
          /\ \A b \in BuffersOf(setting) : pool'.refs[b] = pool.refs[b] + Is(arg, b)
      BY <1>2, <1>4, Typed, Reffed
    <2>3. /\ writable' \in WritablesOver(Full(setting, pool)) /\ WithinQueues(setting, readable, writable')
          /\ QueuesBut(Writables, writable, writable', this)
      BY <2>1, Typed DEF QueuesBut
    <2>4. ASSUME NEW b \in BuffersOf(setting)
          PROVE  pool'.refs[b] + 2 * Count(writable[this].queue, b) + Owed(Head(stack), b)
                 >= pool.refs[b] + 2 * Count(writable'[this].queue, b)
      <3>1. pool.refs[b] \in Int /\ Is(arg, b) \in Nat /\ Owed(Head(stack), b) \in Nat
        BY Typed, IsNat, OwedNat DEF Pools
      <3>2. Count(writable[this].queue, b) \in Nat /\ Count(writable'[this].queue, b) = Count(writable[this].queue, b)
        <4>1. writable[this].queue \in Seq(Full(setting, pool))
          BY <1>2, Typed DEF WritablesOver
        <4> QED BY <2>1, <4>1, CountIsHowMany
      <3> QED BY <2>2, <3>1, <3>2
    <2> QED BY <1>1, <1>2, <1>3, <1>4, <2>1, <2>2, <2>3, <2>4, WritableSettles
  <1>6. CASE Len(W.queue) # setting.writeQueue
    <2> DEFINE u == <<arg>> \o writable[this].queue
    <2>1. /\ writable' = [writable EXCEPT ![this].queue = u, ![this].state = "Stopped"]
          /\ Longer(u, writable[this].queue, arg)
          /\ Call(<<>>) /\ Len(writable[this].queue) # setting.writeQueue
      BY <1>6 DEF UnshiftWrite, W, Return, Longer
    <2> HIDE DEF u
    <2> QED BY <1>1, <1>2, <1>3, <1>4, <2>1, WritableGets
  <1> QED BY <1>5, <1>6

LEMMA DestroyWritableKeeps == IInv /\ DestroyWritable => IInv'
  <1> SUFFICES ASSUME IInv, DestroyWritable PROVE IInv'
    OBVIOUS
  <1>1. /\ stack # <<>> /\ Head(stack).call = "destroyWritable"
        /\ Head(stack).call \notin {"clearPendingWrite", "finalized"}
    BY DEF DestroyWritable, Running
  <1>2. /\ this \in UsedWritables(setting) /\ setting \in Settings /\ this \in Writables
    BY <1>1, TopCall, Typed DEF WritableCalls
  <1>3. Do("asyncDestroyWritable") \in HarmlessFrames
    BY <1>1, <1>2, WritablesCalled DEF Do, NoBuffer, WritableCalls, BufferCalls, WriteCalls
  <1>4. <<Do("asyncDestroyWritable")>> \in Seq(HarmlessFrames) /\ <<>> \in Seq(HarmlessFrames)
    BY <1>3
  <1>5. \E F \in Seq(HarmlessFrames) : Call(F)
    BY <1>4 DEF DestroyWritable, Return
  <1> DEFINE u == <<>>
  <1>6. /\ u \in Seq(Full(setting, pool)) /\ Len(u) <= setting.writeQueue /\ \A b : Count(u, b) = 0
        /\ "Destroying" \in WritableStates
    <2>1. Len(<<>>) = 0 /\ setting.writeQueue \in Nat /\ <<>> \in Seq(Full(setting, pool))
      BY <1>2, SettingIs
    <2>2. \A b : Count(<<>>, b) = 0
      BY <2>1, FS_EmptySet DEF Count
    <2> QED BY <2>1, <2>2 DEF WritableStates
  <1>7. \/ writable' = [writable EXCEPT ![this].queue = u]
        \/ writable' = [writable EXCEPT ![this].queue = u, ![this].state = "Destroying"]
    BY DEF DestroyWritable
  <1> HIDE DEF u
  <1>8. /\ writable' \in WritablesOver(Full(setting, pool)) /\ WithinQueues(setting, readable, writable')
        /\ writable'[this].queue = u /\ QueuesBut(Writables, writable, writable', this)
    BY <1>2, <1>6, <1>7, WriteQueueTypes, WriteQueueStateTypes
  <1> DEFINE q == writable[this].queue
  <1>9. q \in Seq(Full(setting, pool)) /\ pool \in Pools(setting) /\ pool' = UnrefAll(pool, q)
    BY <1>2, Typed DEF WritablesOver, DestroyWritable, W
  <1> HIDE DEF q
  <1>10. /\ pool' \in Pools(setting) /\ Full(setting, pool') = Full(setting, pool)
         /\ \A b \in BuffersOf(setting) : pool'.refs[b] = pool.refs[b] - Count(q, b)
    BY <1>9, AllUnreffed
  <1>11. ASSUME NEW b \in BuffersOf(setting)
         PROVE  pool'.refs[b] + 2 * Count(writable[this].queue, b) + Owed(Head(stack), b)
                >= pool.refs[b] + 2 * Count(writable'[this].queue, b)
    <2>1. /\ Count(q, b) \in Nat /\ pool.refs[b] \in Int /\ Count(writable'[this].queue, b) = 0
          /\ Owed(Head(stack), b) \in Nat
      BY <1>6, <1>8, <1>9, CountIsHowMany, OwedNat DEF Pools
    <2>2. pool'.refs[b] = pool.refs[b] - Count(q, b)
      BY <1>10
    <2> QED BY <2>1, <2>2 DEF q
  <1>12. UNCHANGED <<setting, readable, request, transform, pipe, log>>
    BY DEF DestroyWritable, rest
  <1> QED BY <1>1, <1>2, <1>5, <1>8, <1>10, <1>11, <1>12, WritableSettles

LEMMA UnrefWrittenKeeps == IInv /\ UnrefWritten => IInv'
  <1> SUFFICES ASSUME IInv, UnrefWritten PROVE IInv'
    OBVIOUS
  <1>1. stack # <<>> /\ Head(stack).call \in HoldingCalls
    BY DEF UnrefWritten, Running, HoldingCalls
  <1>2. /\ pool' = Unref(pool, arg) /\ Call(<<>>) /\ <<>> \in Seq(HarmlessFrames)
        /\ UNCHANGED <<setting, readable, writable, request, transform, pipe, log>>
    BY DEF UnrefWritten, Return, rest
  <1>3. log' \in Logs(setting)
    BY <1>2, Typed
  <1> QED BY <1>1, <1>2, <1>3, Released

\* The first buffer of a queue is passed on: its two references go with it.
LEMMA Passed ==
    ASSUME IInv, this \in Writables, NEW q, q = writable[this].queue, q # <<>>
    PROVE  /\ Tail(q) \in Seq(Full(setting, pool)) /\ Len(Tail(q)) <= setting.writeQueue
           /\ Head(q) \in Full(setting, pool) /\ Head(q) \in Nat
           /\ \A b : /\ Count(q, b) \in Nat /\ Count(Tail(q), b) \in Nat
                     /\ Count(q, b) = Count(Tail(q), b) + Is(Head(q), b)
  <1>1. q \in Seq(Full(setting, pool)) /\ Len(q) <= setting.writeQueue
    BY Typed DEF WritablesOver, WithinQueues
  <1>2. setting.writeQueue \in Nat /\ Full(setting, pool) \subseteq Nat
    BY SettingIs, Typed
  <1>3. Head(q) \in Full(setting, pool) /\ Tail(q) \in Seq(Full(setting, pool))
        /\ Len(Tail(q)) = Len(q) - 1 /\ Len(q) \in Nat
    BY <1>1, HeadTailProperties, LenProperties
  <1>4. \A b : /\ Count(q, b) \in Nat /\ Count(Tail(q), b) \in Nat
               /\ Count(q, b) = Count(Tail(q), b) + Is(Head(q), b)
    BY <1>1, CountFirst
  <1> QED BY <1>1, <1>2, <1>3, <1>4

\* The frames of writable streams that hold buffers.
LEMMA WritableHands ==
    ASSUME IInv, NEW x \in UsedWritables(setting), NEW n \in Full(setting, pool), n \in Nat,
           NEW c \in {"asyncWrite", "unref", "afterWrite", "finishedWriting"},
           c \in WriteCalls \/ Head(stack).call \notin WriteCalls
    PROVE  /\ Frame(c, x, n) \in Handed(pool) /\ Frame(c, x, n) \in Frames
           /\ Frame(c, x, n).call = c
           /\ \A b : Owed(Frame(c, x, n), b) = Is(n, b)
  <1>1. /\ c \in CallNames \ {"afterWork", "clearPendingWrite", "finalized"}
        /\ c \notin ReadableCalls \cup TransformCalls \cup SourceCalls
        /\ c \in HoldingCalls
    BY DEF CallNames, WritableCalls, ReadableCalls, TransformCalls, SourceCalls, HoldingCalls
  <1>2. x \in Readables \cup Writables
    BY Typed, SettingIs
  <1>3. \A b : Owed(Frame(c, x, n), b) = Is(n, b)
    BY <1>1, Owes
  <1> QED BY <1>1, <1>2, <1>3, Hand

LEMMA ResumeWritingKeeps == IInv /\ ResumeWriting => IInv'
  <1> SUFFICES ASSUME IInv, ResumeWriting PROVE IInv'
    OBVIOUS
  <1>1. /\ stack # <<>> /\ Head(stack).call = "resumeWriting" /\ Plain(Head(stack))
        /\ Head(stack).call \notin {"clearPendingWrite", "finalized"}
    BY DEF ResumeWriting, Running, Plain, HoldingCalls
  <1>2. /\ this \in UsedWritables(setting) /\ setting \in Settings /\ this \in Writables
        /\ this \in Readables \cup Writables
    BY <1>1, TopCall, Typed DEF WritableCalls
  <1>3. UNCHANGED <<setting, pool, readable, request, transform, pipe, log>>
    BY DEF ResumeWriting, rest
  <1>4. CASE W.state = "Stopped" /\ W.queue # <<>>
    <2> DEFINE q == writable[this].queue
               u == Tail(q)
               x == Head(q)
               f == Frame("asyncWrite", this, x)
               g == Frame("unref", this, x)
               F == <<f, g>>
    <2>1. /\ writable' = [writable EXCEPT ![this].queue = u, ![this].state = "Writing"]
          /\ Call(F)
      BY <1>4 DEF ResumeWriting, W
    <2>2. /\ u \in Seq(Full(setting, pool)) /\ Len(u) <= setting.writeQueue
          /\ x \in Full(setting, pool) /\ x \in Nat
          /\ \A b : /\ Count(q, b) \in Nat /\ Count(u, b) \in Nat
                    /\ Count(q, b) = Count(u, b) + Is(x, b)
      <3>1. q # <<>> /\ q = writable[this].queue
        BY <1>4 DEF W
      <3> HIDE DEF q
      <3> QED BY <1>2, <3>1, Passed
    <2> HIDE DEF u, x, F
    <2>3. "Writing" \in WritableStates
      BY DEF WritableStates
    <2>4. /\ writable' \in WritablesOver(Full(setting, pool)) /\ WithinQueues(setting, readable, writable')
          /\ writable'[this].queue = u /\ QueuesBut(Writables, writable, writable', this)
      BY <1>2, <2>1, <2>2, <2>3, WriteQueueStateTypes
    <2>5. ASSUME NEW c \in {"asyncWrite", "unref"}
          PROVE  /\ Frame(c, this, x) \in Handed(pool) /\ Frame(c, this, x) \in Frames
                 /\ Frame(c, this, x).call = c
                 /\ \A b : Owed(Frame(c, this, x), b) = Is(x, b)
      <3>1. c \in WriteCalls /\ c \in {"asyncWrite", "unref", "afterWrite"}
        BY DEF WriteCalls
      <3> QED BY <1>2, <2>2, <3>1, WritableHands
    <2>6. /\ f \in Handed(pool) /\ f \in Frames /\ f.call # "write" /\ \A b : Owed(f, b) = Is(x, b)
          /\ g \in Handed(pool) /\ g \in Frames /\ g.call # "write" /\ \A b : Owed(g, b) = Is(x, b)
      BY <2>5
    <2> HIDE DEF f, g
    <2>7. F \in Seq(Handed(pool)) /\ \A i \in 1 .. Len(F) : F[i].call # "write"
      BY <2>6 DEF F
    <2>8. ASSUME NEW b \in BuffersOf(setting)
          PROVE  pool'.refs[b] + 2 * Count(writable[this].queue, b) + Owed(Head(stack), b)
                 >= pool.refs[b] + 2 * Count(writable'[this].queue, b) + HeldByFrames(F, b)
      <3>1. HeldByFrames(F, b) = Owed(f, b) + Owed(g, b)
        BY <2>6, TwoFrames DEF F
      <3>2. pool.refs[b] \in Int /\ Is(x, b) \in Nat /\ Owed(Head(stack), b) \in Nat
        BY Typed, IsNat, OwedNat DEF Pools
      <3>3. pool' = pool /\ Count(writable[this].queue, b) = Count(u, b) + Is(x, b)
            /\ Count(u, b) \in Nat
        BY <1>3, <2>2
      <3> QED BY <2>4, <2>6, <3>1, <3>2, <3>3
    <2>9. pool' \in Pools(setting) /\ Full(setting, pool') = Full(setting, pool)
          /\ F \in Seq(Handed(pool'))
      <3>1. pool' = pool
        BY <1>3
      <3> QED BY <2>7, <3>1, Typed
    <2> QED BY <1>1, <1>2, <1>3, <2>1, <2>4, <2>7, <2>8, <2>9, WritableMoves
  <1>5. CASE ~(W.state = "Stopped" /\ W.queue # <<>>)
    <2>1. /\ Do("canEndWritable") \in HarmlessFrames /\ Do("endQuietly") \in HarmlessFrames
      BY <1>1, <1>2, WritablesCalled DEF Do, NoBuffer, WritableCalls, BufferCalls, WriteCalls
    <2>2. /\ <<Do("canEndWritable"), Do("endQuietly")>> \in Seq(HarmlessFrames)
          /\ <<Error(this, "destroyAlreadyCalled")>> \in Seq(HarmlessFrames)
          /\ <<>> \in Seq(HarmlessFrames)
      BY <1>2, <2>1, Errors DEF ErrorMessages, Assertions
    <2>3. (\E F \in Seq(HarmlessFrames) : Call(F)) /\ writable' = writable
      BY <1>5, <2>2 DEF ResumeWriting, Return
    <2> QED BY <1>1, <1>3, <2>3, OnlyCalls
  <1> QED BY <1>4, <1>5

\* The call on top passes its reference on, and no queue changes.
LEMMA WritablePasses ==
    ASSUME IInv, stack # <<>>, Head(stack).call \notin {"clearPendingWrite", "finalized"},
           this \in Writables,
           writable' \in WritablesOver(Full(setting, pool)),
           \A y \in Writables : writable'[y].queue = writable[y].queue,
           NEW F \in Seq(Handed(pool)), Call(F), \A i \in 1 .. Len(F) : F[i].call # "write",
           \A b \in BuffersOf(setting) : Owed(Head(stack), b) >= HeldByFrames(F, b),
           UNCHANGED <<setting, pool, readable, request, transform, pipe, log>>
    PROVE  IInv'
  <1>1. /\ WithinQueues(setting, readable, writable') /\ QueuesBut(Writables, writable, writable', this)
    BY Typed DEF WithinQueues, QueuesBut
  <1>2. /\ pool' = pool /\ pool' \in Pools(setting) /\ Full(setting, pool') = Full(setting, pool)
        /\ F \in Seq(Handed(pool'))
    <2>1. pool' = pool
      OBVIOUS
    <2> QED BY <2>1, Typed
  <1>3. ASSUME NEW b \in BuffersOf(setting)
        PROVE  pool'.refs[b] + 2 * Count(writable[this].queue, b) + Owed(Head(stack), b)
               >= pool.refs[b] + 2 * Count(writable'[this].queue, b) + HeldByFrames(F, b)
    <2>1. pool.refs[b] \in Int /\ Owed(Head(stack), b) \in Nat
      BY Typed, OwedNat DEF Pools
    <2>2. /\ Count(writable[this].queue, b) \in Nat
          /\ Count(writable'[this].queue, b) = Count(writable[this].queue, b)
      <3>1. writable[this].queue \in Seq(Full(setting, pool))
        BY Typed DEF WritablesOver
      <3> QED BY <3>1, CountIsHowMany
    <2>3. HeldByFrames(F, b) \in Nat
      <3>1. Handed(pool) \subseteq Frames
        BY DEF Handed
      <3>2. F \in Seq(Frames)
        BY <3>1
      <3> QED BY <3>2, FramesCount
    <2>4. Owed(Head(stack), b) >= HeldByFrames(F, b)
      OBVIOUS
    <2> QED BY <1>2, <2>1, <2>2, <2>3, <2>4
  <1> QED BY <1>1, <1>2, <1>3, WritableMoves

LEMMA TwoAndTwo == \A f, g, h, k : <<f, g>> \o <<h, k>> = <<f, g, h, k>>
  <1> SUFFICES ASSUME NEW f, NEW g, NEW h, NEW k PROVE <<f, g>> \o <<h, k>> = <<f, g, h, k>>
    OBVIOUS
  <1> DEFINE X == {f, g, h, k}
             s == <<f, g>>
             t == <<h, k>>
             u == <<f, g, h, k>>
  <1>1. /\ s \in Seq(X) /\ t \in Seq(X) /\ u \in Seq(X) /\ Len(s) = 2 /\ Len(t) = 2 /\ Len(u) = 4
        /\ s[1] = f /\ s[2] = g /\ t[1] = h /\ t[2] = k
        /\ u[1] = f /\ u[2] = g /\ u[3] = h /\ u[4] = k
    OBVIOUS
  <1> HIDE DEF X, s, t, u
  <1>2. /\ s \o t \in Seq(X) /\ Len(s \o t) = 4
        /\ \A i \in 1 .. 4 : (s \o t)[i] = IF i <= 2 THEN s[i] ELSE t[i - 2]
    <2>1. /\ s \o t \in Seq(X) /\ Len(s \o t) = Len(s) + Len(t)
          /\ \A i \in 1 .. Len(s) + Len(t) : (s \o t)[i] = IF i <= Len(s) THEN s[i] ELSE t[i - Len(s)]
      BY <1>1, ConcatProperties
    <2>2. Len(s) = 2 /\ Len(t) = 2 /\ Len(s) + Len(t) = 4
      BY <1>1
    <2> QED BY <2>1, <2>2
  <1> DEFINE v == s \o t
  <1>3. v \in Seq(X) /\ Len(v) = 4 /\ v[1] = f /\ v[2] = g /\ v[3] = h /\ v[4] = k
    BY <1>1, <1>2
  <1> HIDE DEF v
  <1>4. v = u
    <2>1. \A i \in 1 .. 4 : i = 1 \/ i = 2 \/ i = 3 \/ i = 4
      OBVIOUS
    <2>2. \A i \in 1 .. Len(v) : v[i] = u[i]
      BY <1>1, <1>3, <2>1
    <2> QED BY <1>1, <1>3, <2>2, SeqEqual
  <1> QED BY <1>4 DEF v, s, t, u

LEMMA FinishedWritingKeeps == IInv /\ FinishedWriting => IInv'
  <1> SUFFICES ASSUME IInv, FinishedWriting PROVE IInv'
    OBVIOUS
  <1>1. /\ stack # <<>> /\ Head(stack).call = "finishedWriting" /\ Head(stack).call \in HoldingCalls
        /\ Head(stack).call \notin {"clearPendingWrite", "finalized"}
        /\ Head(stack).call \notin WriteCalls
    BY DEF FinishedWriting, Running, HoldingCalls, WriteCalls
  <1>2. /\ this \in UsedWritables(setting) /\ setting \in Settings /\ this \in Writables
        /\ this \in Readables \cup Writables
        /\ arg \in Full(setting, pool) /\ arg \in Nat
    BY <1>1, TopCall, Typed DEF WritableCalls, BufferCalls
  <1>3. UNCHANGED <<setting, pool, readable, request, transform, pipe, log>>
    BY DEF FinishedWriting, rest
  <1> DEFINE h == Frame("afterWrite", this, arg)
             k == Do("afterCallback")
             c1 == Do("canEndWritable")
             c2 == Do("endIfPossible")
             ab == Abort("finishedWritingNotWriting")
  <1>4. h \in Handed(pool) /\ h \in Frames /\ h.call # "write" /\ \A b : Owed(h, b) = Is(arg, b)
    BY <1>1, <1>2, WritableHands
  <1>5. k \in HarmlessFrames /\ c1 \in HarmlessFrames /\ c2 \in HarmlessFrames /\ ab \in HarmlessFrames
    <2>1. k \in HarmlessFrames /\ c1 \in HarmlessFrames /\ c2 \in HarmlessFrames
      BY <1>1, <1>2, WritablesCalled DEF Do, NoBuffer, WritableCalls, BufferCalls, WriteCalls
    <2>2. ab \in HarmlessFrames
      <3>1. "finishedWritingNotWriting" \in Assertions /\ "readFailed" \in ErrorMessages
        BY DEF Assertions, ErrorMessages
      <3> QED BY <1>2, <3>1, Errors
    <2> QED BY <2>1, <2>2
  <1>6. \A f \in HarmlessFrames : /\ f \in Handed(pool) /\ f \in Frames /\ f.call # "write"
                                  /\ \A b : Owed(f, b) = 0
    <2>1. HarmlessFrames \subseteq Handed(pool)
      BY Hands
    <2>2. \A f \in HarmlessFrames : f \in Frames /\ f.call # "write" /\ \A b : Owed(f, b) = 0
      BY OwedNat DEF HarmlessFrames, Harmless, Plain, HoldingCalls
    <2> QED BY <2>1, <2>2
  <1>7. \A b : Owed(Head(stack), b) = Is(arg, b) /\ Is(arg, b) \in Nat
    BY <1>1, Owes, IsNat
  <1>8. CASE ~IsStillWriting(this)
    <2>1. Call(<<ab>>) /\ writable' = writable
      BY <1>8 DEF FinishedWriting, IsStillWriting, W
    <2> HIDE DEF ab
    <2> DEFINE F == <<ab>>
    <2>2. F \in Seq(Handed(pool)) /\ \A i \in 1 .. Len(F) : F[i].call # "write"
      BY <1>5, <1>6
    <2>3. \A b \in BuffersOf(setting) : Owed(Head(stack), b) >= HeldByFrames(F, b)
      BY <1>5, <1>6, <1>7, OneFrame
    <2> HIDE DEF F
    <2>4. Call(F) /\ writable' \in WritablesOver(Full(setting, pool))
      BY <2>1, Typed DEF F
    <2> QED BY <1>1, <1>2, <1>3, <2>1, <2>2, <2>3, <2>4, WritablePasses
  <1>9. CASE W.state = "Writing" /\ W.queue = <<>>
    <2>1. Call(<<h, k>>) /\ Turns("Stopped")
      BY <1>9 DEF FinishedWriting, IsStillWriting, W
    <2>2. /\ writable' \in WritablesOver(Full(setting, pool))
          /\ \A y \in Writables : writable'[y].queue = writable[y].queue
      BY <1>2, <2>1, WritableTurns DEF WritableStates
    <2> HIDE DEF h, k
    <2> DEFINE F == <<h, k>>
    <2>3. F \in Seq(Handed(pool)) /\ \A i \in 1 .. Len(F) : F[i].call # "write"
      BY <1>4, <1>5, <1>6
    <2>4. \A b \in BuffersOf(setting) : Owed(Head(stack), b) >= HeldByFrames(F, b)
      BY <1>4, <1>5, <1>6, <1>7, TwoFrames
    <2>5. Call(F)
      BY <2>1
    <2> HIDE DEF F
    <2> QED BY <1>1, <1>2, <1>3, <2>2, <2>3, <2>4, <2>5, WritablePasses
  <1>10. CASE W.state = "Ending" /\ W.queue = <<>>
    <2>1. Call(<<c1, c2>> \o <<h, k>>) /\ writable' = writable
      BY <1>10 DEF FinishedWriting, IsStillWriting, W
    <2> HIDE DEF h, k, c1, c2
    <2> DEFINE F == <<c1, c2, h, k>>
    <2>3. F \in Seq(Handed(pool)) /\ \A i \in 1 .. Len(F) : F[i].call # "write"
      BY <1>4, <1>5, <1>6
    <2>4. ASSUME NEW b \in BuffersOf(setting)
          PROVE  Owed(Head(stack), b) >= HeldByFrames(F, b)
      <3>1. HeldByFrames(F, b) = Owed(c1, b) + Owed(c2, b) + Owed(h, b) + Owed(k, b)
        BY <1>4, <1>5, <1>6, FourFrames
      <3> QED BY <1>4, <1>5, <1>6, <1>7, <3>1
    <2>5. Call(F)
      <3>1. <<c1, c2>> \o <<h, k>> = <<c1, c2, h, k>>
        BY TwoAndTwo
      <3> QED BY <2>1, <3>1
    <2> HIDE DEF F
    <2>6. /\ writable' \in WritablesOver(Full(setting, pool))
          /\ \A y \in Writables : writable'[y].queue = writable[y].queue
      BY <2>1, Typed
    <2> QED BY <1>1, <1>2, <1>3, <2>3, <2>4, <2>5, <2>6, WritablePasses
  <1>11. CASE IsStillWriting(this) /\ W.queue # <<>>
    <2> DEFINE q == writable[this].queue
               u == Tail(q)
               x == Head(q)
               f == Frame("asyncWrite", this, x)
               g == Frame("unref", this, x)
               F == <<f, g, h, k>>
    <2>1. /\ writable' = [writable EXCEPT ![this].queue = u]
          /\ Call(<<f, g>> \o <<h, k>>)
      BY <1>11 DEF FinishedWriting, W
    <2>2. /\ u \in Seq(Full(setting, pool)) /\ Len(u) <= setting.writeQueue
          /\ x \in Full(setting, pool) /\ x \in Nat
          /\ \A b : /\ Count(q, b) \in Nat /\ Count(u, b) \in Nat
                    /\ Count(q, b) = Count(u, b) + Is(x, b)
      <3>1. q # <<>> /\ q = writable[this].queue
        BY <1>11 DEF W
      <3> HIDE DEF q
      <3> QED BY <1>2, <3>1, Passed
    <2>3. Call(F)
      <3> HIDE DEF f, g, h, k
      <3>1. <<f, g>> \o <<h, k>> = <<f, g, h, k>>
        BY TwoAndTwo
      <3> QED BY <2>1, <3>1
    <2> HIDE DEF u, x, F
    <2>4. /\ writable' \in WritablesOver(Full(setting, pool)) /\ WithinQueues(setting, readable, writable')
          /\ writable'[this].queue = u /\ QueuesBut(Writables, writable, writable', this)
      BY <1>2, <2>1, <2>2, WriteQueueTypes
    <2>5. ASSUME NEW c \in {"asyncWrite", "unref"}
          PROVE  /\ Frame(c, this, x) \in Handed(pool) /\ Frame(c, this, x) \in Frames
                 /\ Frame(c, this, x).call = c
                 /\ \A b : Owed(Frame(c, this, x), b) = Is(x, b)
      <3>1. c \in WriteCalls /\ c \in {"asyncWrite", "unref", "afterWrite"}
        BY DEF WriteCalls
      <3> QED BY <1>2, <2>2, <3>1, WritableHands
    <2>6. /\ f \in Handed(pool) /\ f \in Frames /\ f.call # "write" /\ \A b : Owed(f, b) = Is(x, b)
          /\ g \in Handed(pool) /\ g \in Frames /\ g.call # "write" /\ \A b : Owed(g, b) = Is(x, b)
      BY <2>5
    <2> HIDE DEF f, g, h, k
    <2>7. F \in Seq(Handed(pool)) /\ \A i \in 1 .. Len(F) : F[i].call # "write"
      BY <1>4, <1>5, <1>6, <2>6 DEF F
    <2>8. ASSUME NEW b \in BuffersOf(setting)
          PROVE  pool'.refs[b] + 2 * Count(writable[this].queue, b) + Owed(Head(stack), b)
                 >= pool.refs[b] + 2 * Count(writable'[this].queue, b) + HeldByFrames(F, b)
      <3>1. HeldByFrames(F, b) = Owed(f, b) + Owed(g, b) + Owed(h, b) + Owed(k, b)
        BY <1>4, <1>5, <1>6, <2>6, FourFrames DEF F
      <3>2. pool.refs[b] \in Int /\ Is(x, b) \in Nat /\ Is(arg, b) \in Nat
        BY Typed, IsNat DEF Pools
      <3>3. pool' = pool /\ Count(writable[this].queue, b) = Count(u, b) + Is(x, b)
            /\ Count(u, b) \in Nat
        BY <1>3, <2>2
      <3>4. Owed(k, b) = 0 /\ Owed(h, b) = Is(arg, b) /\ Owed(Head(stack), b) = Is(arg, b)
            /\ Owed(f, b) = Is(x, b) /\ Owed(g, b) = Is(x, b)
        BY <1>4, <1>5, <1>6, <1>7, <2>6
      <3>5. HeldByFrames(F, b) = 2 * Is(x, b) + Is(arg, b)
        BY <3>1, <3>2, <3>4
      <3> QED BY <2>4, <3>2, <3>3, <3>4, <3>5
    <2>9. pool' \in Pools(setting) /\ Full(setting, pool') = Full(setting, pool)
          /\ F \in Seq(Handed(pool'))
      <3>1. pool' = pool
        BY <1>3
      <3> QED BY <2>7, <3>1, Typed
    <2> QED BY <1>1, <1>2, <1>3, <2>3, <2>4, <2>7, <2>8, <2>9, WritableMoves
  <1>12. \/ ~IsStillWriting(this)
         \/ (W.state = "Writing" /\ W.queue = <<>>)
         \/ (W.state = "Ending" /\ W.queue = <<>>)
         \/ (IsStillWriting(this) /\ W.queue # <<>>)
    BY DEF IsStillWriting, W
  <1> QED BY <1>8, <1>9, <1>10, <1>11, <1>12

-----------------------------------------------------------------------------
(* The steps of streams that read and write through the event loop         *)

LEMMA SourceMoves ==
    ASSUME IInv, stack # <<>>, Head(stack).call \notin {"clearPendingWrite", "finalized"},
           request' \in Requests(setting), RequestsReady(setting, Full(setting, pool), request'),
           \A k \in Sinks : request'[k].buffer = request[k].buffer,
           pool' \in Pools(setting), Full(setting, pool) \subseteq Full(setting, pool'),
           NEW F \in Seq(Handed(pool')), Call(F), \A i \in 1 .. Len(F) : F[i].call # "write",
           \A b \in BuffersOf(setting) :
               pool'.refs[b] + Is(request[Source].buffer, b) + Owed(Head(stack), b)
               >= pool.refs[b] + Is(request'[Source].buffer, b) + HeldByFrames(F, b),
           UNCHANGED <<setting, readable, writable, transform, pipe, log>>
    PROVE  IInv'
  <1>2. TypesInv'
    BY Typed, TypesKept
  <1>5. /\ readable' = readable /\ writable' = writable /\ transform' = transform /\ pipe' = pipe
        /\ setting' = setting
    OBVIOUS
  <1>4. ASSUME NEW b \in BuffersOf(setting)
        PROVE  pool'.refs[b] + KeptOf(b) + Owed(Head(stack), b)
               >= pool.refs[b] + Kept(readable', writable', request', transform', pipe'.pending,
                                      Clearing(stack), Finalizers(stack), b)
                  + HeldByFrames(F, b)
    <2> DEFINE old == Is(request[Source].buffer, b)
               new == Is(request'[Source].buffer, b)
               after == Kept(readable', writable', request', transform', pipe'.pending,
                             Clearing(stack), Finalizers(stack), b)
    <2>1. after = KeptOf(b) - old + new
      BY <1>5, KeptSource
    <2>2. old \in Nat /\ new \in Nat
      BY IsNat
    <2>3. /\ KeptOf(b) \in Nat /\ pool.refs[b] \in Int /\ pool'.refs[b] \in Int
          /\ Owed(Head(stack), b) \in Nat
      BY KeptTyped, Typed, OwedNat DEF Pools
    <2>4. pool'.refs[b] + old + Owed(Head(stack), b) >= pool.refs[b] + new + HeldByFrames(F, b)
      OBVIOUS
    <2>5. HeldByFrames(F, b) \in Nat
      <3>1. Handed(pool') \subseteq Frames
        BY DEF Handed
      <3>2. F \in Seq(Frames)
        BY <3>1
      <3> QED BY <3>2, FramesCount
    <2> HIDE DEF old, new, after
    <2>6. pool'.refs[b] + KeptOf(b) + Owed(Head(stack), b) >= pool.refs[b] + after + HeldByFrames(F, b)
      BY <2>1, <2>2, <2>3, <2>4, <2>5, Balanced
    <2> QED BY <2>6 DEF after
  <1>6. Covers(F)
    BY <1>4 DEF Covers
  <1> QED BY <1>2, <1>5, <1>6, Moves

LEMMA SourceSettles ==
    ASSUME IInv, stack # <<>>, Head(stack).call \notin {"clearPendingWrite", "finalized"},
           request' \in Requests(setting), RequestsReady(setting, Full(setting, pool), request'),
           \A k \in Sinks : request'[k].buffer = request[k].buffer,
           pool' \in Pools(setting), Full(setting, pool') = Full(setting, pool),
           NEW F \in Seq(HarmlessFrames), Call(F),
           \A b \in BuffersOf(setting) :
               pool'.refs[b] + Is(request[Source].buffer, b)
               >= pool.refs[b] + Is(request'[Source].buffer, b),
           UNCHANGED <<setting, readable, writable, transform, pipe, log>>
    PROVE  IInv'
  <1>1. F \in Seq(Handed(pool'))
    BY Hands
  <1>2. \A i \in 1 .. Len(F) : F[i].call # "write"
    <2>1. \A i \in 1 .. Len(F) : F[i] \in HarmlessFrames
      BY ElementOfSeq
    <2> QED BY <2>1 DEF HarmlessFrames, Harmless, Plain, HoldingCalls
  <1>3. ASSUME NEW b \in BuffersOf(setting)
        PROVE  pool'.refs[b] + Is(request[Source].buffer, b) + Owed(Head(stack), b)
               >= pool.refs[b] + Is(request'[Source].buffer, b) + HeldByFrames(F, b)
    <2>1. HeldByFrames(F, b) = 0
      BY HarmlessCount
    <2>2. /\ pool.refs[b] \in Int /\ pool'.refs[b] \in Int /\ Owed(Head(stack), b) \in Nat
          /\ Is(request[Source].buffer, b) \in Nat /\ Is(request'[Source].buffer, b) \in Nat
      BY Typed, OwedNat, IsNat DEF Pools
    <2>3. pool'.refs[b] + Is(request[Source].buffer, b) >= pool.refs[b] + Is(request'[Source].buffer, b)
      OBVIOUS
    <2> QED BY <2>1, <2>2, <2>3
  <1> QED BY <1>1, <1>2, <1>3, SourceMoves

\* A stream's request changes.
WithRequest(s, v, b) == [request EXCEPT ![s] = [state |-> v, buffer |-> b]]

LEMMA SourceRequest ==
    ASSUME IInv, NEW v \in {"free", "active", "stopping"},
           NEW b \in BuffersOf(setting) \cup {NoBuffer}, v = "active" => b # NoBuffer,
           NEW q, q = WithRequest(Source, v, b)
    PROVE  /\ q \in Requests(setting) /\ RequestsReady(setting, Full(setting, pool), q)
           /\ q[Source].buffer = b /\ \A k \in Sinks : q[k].buffer = request[k].buffer
  <1>1. request \in Requests(setting) /\ RequestsReady(setting, Full(setting, pool), request)
    BY Typed
  <1>2. q \in Requests(setting)
    BY <1>1 DEF Requests, WithRequest
  <1>3. Source \notin Sinks
    BY StreamsAssumption
  <1>4. /\ q[Source] = [state |-> v, buffer |-> b]
        /\ \A k \in Sinks : q[k] = request[k]
    BY <1>1, <1>3 DEF Requests, WithRequest
  <1>5. RequestsReady(setting, Full(setting, pool), q)
    BY <1>1, <1>4 DEF RequestsReady
  <1> QED BY <1>2, <1>4, <1>5

LEMMA SinkRequest ==
    ASSUME IInv, NEW s \in Sinks, NEW v \in {"free", "active", "stopping"},
           NEW b \in Full(setting, pool) \cup {NoBuffer}, v = "active" => b # NoBuffer,
           s \in UsedWritables(setting),
           NEW q, q = WithRequest(s, v, b)
    PROVE  /\ q \in Requests(setting) /\ RequestsReady(setting, Full(setting, pool), q)
           /\ q[s].buffer = b /\ q[Source].buffer = request[Source].buffer
           /\ SinksBut(request, q, s)
  <1>1. /\ request \in Requests(setting) /\ RequestsReady(setting, Full(setting, pool), request)
        /\ Full(setting, pool) \subseteq BuffersOf(setting)
    BY Typed
  <1>2. q \in Requests(setting)
    BY <1>1 DEF Requests, WithRequest
  <1>3. Source \notin Sinks
    BY StreamsAssumption
  <1>4. /\ q[s] = [state |-> v, buffer |-> b] /\ q[Source] = request[Source]
        /\ \A k \in Sinks \ {s} : q[k] = request[k]
    BY <1>1, <1>3 DEF Requests, WithRequest
  <1>5. RequestsReady(setting, Full(setting, pool), q)
    BY <1>1, <1>4 DEF RequestsReady
  <1> QED BY <1>2, <1>4, <1>5 DEF SinksBut

LEMMA AsyncReadKeeps == IInv /\ AsyncRead => IInv'
  <1> SUFFICES ASSUME IInv, AsyncRead PROVE IInv'
    OBVIOUS
  <1>1. /\ stack # <<>> /\ Head(stack).call = "asyncRead" /\ Plain(Head(stack))
        /\ Head(stack).call \notin {"clearPendingWrite", "finalized"}
    BY DEF AsyncRead, Running, Plain, HoldingCalls
  <1>2. /\ this \in UsedReadables(setting) /\ setting \in Settings /\ this \in Readables
        /\ this = Source
    BY <1>1, TopCall, Typed DEF ReadableCalls, AsyncRead
  <1>3. UNCHANGED <<setting, readable, writable, transform, pipe, log>>
    BY DEF AsyncRead
  <1>4. Do("pause") \in HarmlessFrames
    BY <1>1, <1>2, ReadablesCalled DEF Do, ReadableCalls, BufferCalls, SourceCalls, WriteCalls
  <1>5. Abort("asyncReadRequestInUse") \in HarmlessFrames
    <2>1. "asyncReadRequestInUse" \in Assertions /\ "readFailed" \in ErrorMessages
      BY DEF Assertions, ErrorMessages
    <2> QED BY <1>2, <2>1, Errors
  <1>6. /\ <<Do("pause")>> \in Seq(HarmlessFrames) /\ <<>> \in Seq(HarmlessFrames)
        /\ <<Abort("asyncReadRequestInUse")>> \in Seq(HarmlessFrames)
    BY <1>4, <1>5
  <1>7. CASE Req.state # "free" \/ FreeBuffers = {}
    <2>1. (\E F \in Seq(HarmlessFrames) : Call(F)) /\ UNCHANGED <<pool, request>>
      BY <1>6, <1>7 DEF AsyncRead
    <2> QED BY <1>1, <1>3, <2>1, OnlyCalls
  <1>8. CASE Req.state = "free" /\ FreeBuffers # {}
    <2> DEFINE n == NewBuffer
    <2>1. /\ request' = [request EXCEPT ![Source] = [state |-> "active", buffer |-> n]]
          /\ pool' = [pool EXCEPT !.refs[n] = 1] /\ Call(<<>>)
      BY <1>2, <1>8 DEF AsyncRead, Holding, Return
    <2>2. n \in BuffersOf(setting) /\ pool.refs[n] = 0
      BY <1>2, <1>8, FreeBuffer
    <2>3. n # NoBuffer
      BY <2>2 DEF BuffersOf, NoBuffer
    <2> HIDE DEF n
    <2>4. pool \in Pools(setting)
      BY Typed
    <2>5. /\ pool' \in Pools(setting) /\ Full(setting, pool') = Full(setting, pool)
          /\ \A b \in BuffersOf(setting) : pool'.refs[b] = pool.refs[b] + Is(n, b)
      BY <2>1, <2>2, <2>4, TakenEmpty
    <2>7. /\ request' \in Requests(setting) /\ RequestsReady(setting, Full(setting, pool), request')
          /\ request'[Source].buffer = n /\ \A k \in Sinks : request'[k].buffer = request[k].buffer
      <3> DEFINE v == "active"
      <3>1. /\ v \in {"free", "active", "stopping"} /\ n \in BuffersOf(setting) \cup {NoBuffer}
            /\ request' = WithRequest(Source, v, n)
        BY <2>1, <2>2 DEF WithRequest
      <3> HIDE DEF v
      <3> QED BY <2>3, <3>1, SourceRequest
    <2>8. ASSUME NEW b \in BuffersOf(setting)
          PROVE  pool'.refs[b] + Is(request[Source].buffer, b) >= pool.refs[b] + Is(request'[Source].buffer, b)
      <3>1. pool.refs[b] \in Int /\ Is(n, b) \in Nat /\ Is(request[Source].buffer, b) \in Nat
        BY <2>4, IsNat DEF Pools
      <3> QED BY <2>5, <2>7, <3>1
    <2> QED BY <1>1, <1>3, <1>6, <2>1, <2>5, <2>7, <2>8, SourceSettles
  <1> QED BY <1>7, <1>8

LEMMA AsyncReadSyncKeeps == IInv /\ AsyncReadSync => IInv'
  <1> SUFFICES ASSUME IInv, AsyncReadSync PROVE IInv'
    OBVIOUS
  <1>1. /\ stack # <<>> /\ Head(stack).call = "asyncRead" /\ Plain(Head(stack))
        /\ Head(stack).call \notin {"clearPendingWrite", "finalized"}
        /\ Head(stack).call \notin WriteCalls
    BY DEF AsyncReadSync, Running, Plain, HoldingCalls, WriteCalls
  <1>2. /\ this \in UsedReadables(setting) /\ setting \in Settings /\ this \in Readables
        /\ this = Source /\ this \in Readables \cup Writables
    BY <1>1, TopCall, Typed DEF ReadableCalls, AsyncReadSync
  <1>3. UNCHANGED <<setting, readable, writable, request, transform, pipe, log>>
    BY DEF AsyncReadSync
  <1>4. Do("pause") \in HarmlessFrames /\ Do("pushEnd") \in HarmlessFrames
    BY <1>1, <1>2, ReadablesCalled DEF Do, ReadableCalls, BufferCalls, SourceCalls
  <1>5. /\ <<Do("pause")>> \in Seq(HarmlessFrames) /\ <<Do("pushEnd")>> \in Seq(HarmlessFrames)
    BY <1>4
  <1>7. CASE log.read = setting.chunks \/ FreeBuffers = {}
    <2>1. (\E F \in Seq(HarmlessFrames) : Call(F)) /\ UNCHANGED pool
      BY <1>5, <1>7 DEF AsyncReadSync
    <2> QED BY <1>1, <1>3, <2>1, OnlyCalls
  <1>8. CASE log.read # setting.chunks /\ FreeBuffers # {}
    <2> DEFINE n == NewBuffer
               item == log.read + 1
               f == Frame("push", this, n)
               g == Frame("afterSyncPush", this, n)
               F == <<f, g>>
    <2>1. pool' = Given(pool, n, item) /\ Call(F)
      BY <1>8 DEF AsyncReadSync
    <2>2. n \in BuffersOf(setting) /\ pool.refs[n] = 0
      BY <1>2, <1>8, FreeBuffer
    <2>3. n \in Nat /\ item \in Nat \ {0} /\ pool \in Pools(setting)
      BY <2>2, Typed DEF BuffersOf, Logs
    <2> HIDE DEF n, item, F
    <2>5. /\ pool' \in Pools(setting) /\ Full(setting, pool) \subseteq Full(setting, pool')
          /\ n \in Full(setting, pool')
          /\ \A b \in BuffersOf(setting) : pool'.refs[b] = pool.refs[b] + Is(n, b)
      BY <2>1, <2>2, <2>3, GivenItem
    <2>6. /\ f \in Handed(pool') /\ f.call = "push" /\ f \in Frames
          /\ g \in Handed(pool') /\ g.call = "afterSyncPush" /\ g \in Frames
      <3>1. ASSUME NEW c \in {"push", "afterSyncPush"}
            PROVE  /\ c \in CallNames \ {"afterWork", "clearPendingWrite", "finalized"}
                   /\ c \notin WritableCalls \cup TransformCalls
        BY DEF CallNames, ReadableCalls, WritableCalls, TransformCalls, SourceCalls
      <3> QED BY <1>1, <1>2, <2>3, <2>5, <3>1, Hand
    <2>7. \A b : Owed(f, b) = 0 /\ Owed(g, b) = Is(n, b)
      BY Owes DEF HoldingCalls
    <2> HIDE DEF f, g
    <2>8. F \in Seq(Handed(pool')) /\ \A i \in 1 .. Len(F) : F[i].call # "write"
      BY <2>6 DEF F
    <2>9. /\ request' \in Requests(setting) /\ RequestsReady(setting, Full(setting, pool), request')
          /\ request' = request /\ \A k \in Sinks : request'[k].buffer = request[k].buffer
      BY <1>3, Typed
    <2>10. ASSUME NEW b \in BuffersOf(setting)
          PROVE  pool'.refs[b] + Is(request[Source].buffer, b) + Owed(Head(stack), b)
                 >= pool.refs[b] + Is(request'[Source].buffer, b) + HeldByFrames(F, b)
      <3>1. HeldByFrames(F, b) = Owed(f, b) + Owed(g, b)
        BY <2>6, TwoFrames DEF F
      <3>2. /\ pool.refs[b] \in Int /\ Is(n, b) \in Nat /\ Is(request[Source].buffer, b) \in Nat
            /\ Owed(Head(stack), b) \in Nat
        BY <2>3, IsNat, OwedNat DEF Pools
      <3> QED BY <2>5, <2>7, <2>9, <3>1, <3>2
    <2> QED BY <1>1, <1>3, <2>1, <2>5, <2>8, <2>9, <2>10, SourceMoves
  <1> QED BY <1>7, <1>8

LEMMA AfterSyncPushKeeps == IInv /\ AfterSyncPush => IInv'
  <1> SUFFICES ASSUME IInv, AfterSyncPush PROVE IInv'
    OBVIOUS
  <1>1. stack # <<>> /\ Head(stack).call = "afterSyncPush" /\ Head(stack).call \in HoldingCalls
    BY DEF AfterSyncPush, Running, HoldingCalls
  <1>2. this \in UsedReadables(setting) /\ setting \in Settings
    BY <1>1, TopCall, Typed DEF ReadableCalls
  <1>3. Do("reactivate") \in HarmlessFrames
    BY <1>1, <1>2, ReadablesCalled DEF Do, ReadableCalls, BufferCalls, SourceCalls, WriteCalls
  <1>4. <<Do("reactivate")>> \in Seq(HarmlessFrames) /\ <<>> \in Seq(HarmlessFrames)
    BY <1>3
  <1>5. \E F \in Seq(HarmlessFrames) : Call(F)
    BY <1>4 DEF AfterSyncPush
  <1>6. log' \in Logs(setting)
    <2> DEFINE n == 0
    <2>1. n \in Nat /\ log \in Logs(setting)
      BY Typed
    <2> HIDE DEF n
    <2> QED BY <2>1, LogTypes DEF AfterSyncPush
  <1> QED BY <1>1, <1>5, <1>6, Released DEF AfterSyncPush

LEMMA AfterPushKeeps == IInv /\ AfterPush => IInv'
  <1> SUFFICES ASSUME IInv, AfterPush PROVE IInv'
    OBVIOUS
  <1>1. /\ stack # <<>> /\ Head(stack).call = "afterPush" /\ Plain(Head(stack))
        /\ Head(stack).call \notin {"clearPendingWrite", "finalized"}
    BY DEF AfterPush, Running, Plain, HoldingCalls
  <1>2. /\ this \in UsedReadables(setting) /\ setting \in Settings /\ this \in Readables
        /\ this = Source
    BY <1>1, TopCall, Typed DEF ReadableCalls, SourceCalls
  <1>3. UNCHANGED <<setting, readable, writable, transform, pipe, log>>
    BY DEF AfterPush
  <1>4. Do("pause") \in HarmlessFrames
    BY <1>1, <1>2, ReadablesCalled DEF Do, ReadableCalls, BufferCalls, SourceCalls, WriteCalls
  <1>5. Abort("afterReadRequestInUse") \in HarmlessFrames
    <2>1. "afterReadRequestInUse" \in Assertions /\ "readFailed" \in ErrorMessages
      BY DEF Assertions, ErrorMessages
    <2> QED BY <1>2, <2>1, Errors
  <1>6. /\ <<Do("pause")>> \in Seq(HarmlessFrames) /\ <<>> \in Seq(HarmlessFrames)
        /\ <<Abort("afterReadRequestInUse")>> \in Seq(HarmlessFrames)
    BY <1>4, <1>5
  <1> DEFINE m == request[Source].buffer
             kept == IF readable[this].destroyed THEN pool ELSE Unref(pool, m)
             left == {b \in Buffers : kept.refs[b] = 0}
             next == CHOOSE b \in left : \A c \in left : b <= c
             rest2 == IF readable[this].destroyed THEN m ELSE NoBuffer
  <1>7. /\ kept \in Pools(setting) /\ Full(setting, kept) = Full(setting, pool)
        /\ \A b \in BuffersOf(setting) : /\ kept.refs[b] = pool.refs[b] - Is(m, b) + Is(rest2, b)
                                         /\ kept.refs[b] >= pool.refs[b] - Is(m, b)
        /\ m \in BuffersOf(setting) \cup {NoBuffer} /\ rest2 \in BuffersOf(setting) \cup {NoBuffer}
    <2>1. m \in BuffersOf(setting) \cup {NoBuffer} /\ pool \in Pools(setting)
      BY Typed DEF Requests
    <2>2. /\ Unref(pool, m) \in Pools(setting) /\ Full(setting, Unref(pool, m)) = Full(setting, pool)
          /\ \A c \in BuffersOf(setting) : Unref(pool, m).refs[c] = pool.refs[c] - Is(m, c)
      BY <2>1, Unreffed
    <2>3. \A b \in BuffersOf(setting) :
              Is(NoBuffer, b) = 0 /\ Is(m, b) \in Nat /\ pool.refs[b] \in Int
      <3>1. \A b \in BuffersOf(setting) : b # NoBuffer
        BY <1>2, SettingIs DEF NoBuffer
      <3>2. \A b \in BuffersOf(setting) : Is(NoBuffer, b) = 0
        BY <3>1 DEF Is
      <3> QED BY <2>1, <3>2, IsNat DEF Pools
    <2> HIDE DEF m
    <2>4. CASE readable[this].destroyed
      BY <2>1, <2>3, <2>4
    <2>5. CASE ~readable[this].destroyed
      BY <2>1, <2>2, <2>3, <2>5
    <2> QED BY <2>4, <2>5
  <1>8. CASE Req.state # "free"
    <2>1. Call(<<Abort("afterReadRequestInUse")>>) /\ UNCHANGED <<pool, request>>
      BY <1>8 DEF AfterPush
    <2> QED BY <1>1, <1>3, <1>6, <2>1, OnlyCalls
  <1>9. CASE Req.state = "free" /\ MayPush(this) /\ left # {}
    <2>1. /\ request' = WithRequest(Source, "active", next)
          /\ pool' = [kept EXCEPT !.refs[next] = 1] /\ Call(<<>>)
      BY <1>2, <1>9 DEF AfterPush, Holding, Return, WithRequest, Req
    <2>2. next \in BuffersOf(setting) /\ kept.refs[next] = 0
      <3>1. left \in SUBSET Nat /\ left # {}
        BY <1>9 DEF Buffers
      <3>2. next \in left
        <4> HIDE DEF left
        <4> QED BY <3>1, Least
      <3> QED BY <3>2 DEF Buffers, BuffersOf
    <2>3. next # NoBuffer
      <3> HIDE DEF next
      <3> QED BY <1>2, <2>2, SettingIs DEF NoBuffer
    <2> HIDE DEF next, kept, m
    <2>5. /\ pool' \in Pools(setting) /\ Full(setting, pool') = Full(setting, kept)
          /\ \A b \in BuffersOf(setting) : pool'.refs[b] = kept.refs[b] + Is(next, b)
      BY <1>7, <2>1, <2>2, TakenEmpty
    <2>7. /\ request' \in Requests(setting) /\ RequestsReady(setting, Full(setting, pool), request')
          /\ request'[Source].buffer = next /\ \A k \in Sinks : request'[k].buffer = request[k].buffer
      <3> DEFINE v == "active"
      <3>1. /\ v \in {"free", "active", "stopping"} /\ next \in BuffersOf(setting) \cup {NoBuffer}
            /\ request' = WithRequest(Source, v, next)
        BY <2>1, <2>2
      <3> HIDE DEF v
      <3> QED BY <2>3, <3>1, SourceRequest
    <2>8. ASSUME NEW b \in BuffersOf(setting)
          PROVE  pool'.refs[b] + Is(request[Source].buffer, b) >= pool.refs[b] + Is(request'[Source].buffer, b)
      <3>1. pool.refs[b] \in Int /\ kept.refs[b] \in Int /\ Is(next, b) \in Nat /\ Is(m, b) \in Nat
        BY <1>7, Typed, IsNat DEF Pools
      <3>2. kept.refs[b] >= pool.refs[b] - Is(m, b) /\ pool'.refs[b] = kept.refs[b] + Is(next, b)
        BY <1>7, <2>5
      <3>3. pool'.refs[b] + Is(m, b) >= pool.refs[b] + Is(next, b)
        BY <3>1, <3>2
      <3> QED BY <2>7, <3>3 DEF m
    <2>9. Full(setting, pool') = Full(setting, pool)
      BY <1>7, <2>5
    <2> QED BY <1>1, <1>3, <1>6, <2>1, <2>5, <2>7, <2>8, <2>9, SourceSettles
  <1>10. CASE Req.state = "free" /\ ~(MayPush(this) /\ left # {})
    <2>1. /\ request' = WithRequest(Source, "free", rest2) /\ pool' = kept
          /\ Call(<<Do("pause")>>) \/ Call(<<>>)
      BY <1>2, <1>10 DEF AfterPush, Holding, Return, WithRequest, Req
    <2> HIDE DEF kept, m, rest2, left
    <2>2. \E F \in Seq(HarmlessFrames) : Call(F)
      BY <1>6, <2>1
    <2>7. /\ request' \in Requests(setting) /\ RequestsReady(setting, Full(setting, pool), request')
          /\ request'[Source].buffer = rest2 /\ \A k \in Sinks : request'[k].buffer = request[k].buffer
      <3> DEFINE v == "free"
      <3>1. /\ v \in {"free", "active", "stopping"} /\ rest2 \in BuffersOf(setting) \cup {NoBuffer}
            /\ v # "active" /\ request' = WithRequest(Source, v, rest2)
        BY <1>7, <2>1
      <3> HIDE DEF v
      <3> QED BY <3>1, SourceRequest
    <2>8. ASSUME NEW b \in BuffersOf(setting)
          PROVE  pool'.refs[b] + Is(request[Source].buffer, b) >= pool.refs[b] + Is(request'[Source].buffer, b)
      <3>1. pool.refs[b] \in Int /\ kept.refs[b] \in Int /\ Is(rest2, b) \in Nat /\ Is(m, b) \in Nat
        BY <1>7, Typed, IsNat DEF Pools
      <3>2. kept.refs[b] = pool.refs[b] - Is(m, b) + Is(rest2, b)
        BY <1>7
      <3>3. pool'.refs[b] + Is(m, b) >= pool.refs[b] + Is(rest2, b)
        BY <2>1, <3>1, <3>2
      <3> QED BY <2>7, <3>3 DEF m
    <2> QED BY <1>1, <1>3, <1>7, <2>1, <2>2, <2>7, <2>8, SourceSettles
  <1> QED BY <1>8, <1>9, <1>10

LEMMA SinkSettles ==
    ASSUME IInv, stack # <<>>, Head(stack).call \notin {"clearPendingWrite", "finalized"},
           NEW k \in Sinks,
           request' \in Requests(setting), RequestsReady(setting, Full(setting, pool), request'),
           request'[Source].buffer = request[Source].buffer, SinksBut(request, request', k),
           pool' \in Pools(setting), Full(setting, pool') = Full(setting, pool),
           NEW F \in Seq(HarmlessFrames), Call(F),
           \A b \in BuffersOf(setting) :
               pool'.refs[b] + 2 * Is(request[k].buffer, b) + Owed(Head(stack), b)
               >= pool.refs[b] + 2 * Is(request'[k].buffer, b),
           UNCHANGED <<setting, readable, writable, transform, pipe, log>>
    PROVE  IInv'
  <1>2. TypesInv'
    BY Typed, TypesKept
  <1>5. /\ readable' = readable /\ writable' = writable /\ transform' = transform /\ pipe' = pipe
        /\ setting' = setting
    OBVIOUS
  <1>4. ASSUME NEW b \in BuffersOf(setting)
        PROVE  pool'.refs[b] + KeptOf(b) + Owed(Head(stack), b)
               >= pool.refs[b] + Kept(readable', writable', request', transform', pipe'.pending,
                                      Clearing(stack), Finalizers(stack), b)
    <2> DEFINE old == 2 * Is(request[k].buffer, b)
               new == 2 * Is(request'[k].buffer, b)
               after == Kept(readable', writable', request', transform', pipe'.pending,
                             Clearing(stack), Finalizers(stack), b)
    <2>1. after = KeptOf(b) - old + new
      BY <1>5, KeptSink
    <2>2. old \in Nat /\ new \in Nat
      BY IsNat
    <2>3. /\ KeptOf(b) \in Nat /\ pool.refs[b] \in Int /\ pool'.refs[b] \in Int
          /\ Owed(Head(stack), b) \in Nat
      BY KeptTyped, Typed, OwedNat DEF Pools
    <2>4. pool'.refs[b] + old + Owed(Head(stack), b) >= pool.refs[b] + new
      OBVIOUS
    <2> HIDE DEF old, new, after
    <2>5. pool'.refs[b] + KeptOf(b) + Owed(Head(stack), b) >= pool.refs[b] + after
      <3> DEFINE kept == KeptOf(b)
                 owed == Owed(Head(stack), b)
                 r    == pool.refs[b]
                 r2   == pool'.refs[b]
      <3>1. /\ kept \in Nat /\ owed \in Nat /\ r \in Int /\ r2 \in Int
            /\ after = kept - old + new /\ r2 + old + owed >= r + new
        BY <2>1, <2>3, <2>4
      <3> HIDE DEF kept, owed, r, r2
      <3>2. r2 + kept + owed >= r + after
        BY <2>2, <3>1
      <3> QED BY <3>2 DEF kept, owed, r, r2
    <2> QED BY <2>5 DEF after
  <1> QED BY <1>2, <1>4, <1>5, Settles

LEMMA AsyncWriteKeeps == IInv /\ AsyncWrite => IInv'
  <1> SUFFICES ASSUME IInv, AsyncWrite PROVE IInv'
    OBVIOUS
  <1>1. /\ stack # <<>> /\ Head(stack).call = "asyncWrite" /\ Head(stack).call \in HoldingCalls
        /\ Head(stack).call \notin {"clearPendingWrite", "finalized"}
    BY DEF AsyncWrite, Running, HoldingCalls
  <1>2. /\ this \in UsedWritables(setting) /\ setting \in Settings /\ this \in Writables
        /\ this \in Sinks /\ arg \in Full(setting, pool) /\ arg \in BuffersOf(setting)
        /\ this \in Readables \cup Writables
    BY <1>1, TopCall, Typed DEF WritableCalls, BufferCalls, AsyncWrite
  <1>3. UNCHANGED <<setting, readable, writable, transform, pipe, log>>
    BY DEF AsyncWrite
  <1>5. Abort("asyncWriteCallbackLeft") \in HarmlessFrames
    <2>1. "asyncWriteCallbackLeft" \in Assertions /\ "readFailed" \in ErrorMessages
      BY DEF Assertions, ErrorMessages
    <2> QED BY <1>2, <2>1, Errors
  <1>6. /\ <<>> \in Seq(HarmlessFrames) /\ <<Abort("asyncWriteCallbackLeft")>> \in Seq(HarmlessFrames)
    BY <1>5
  <1>7. pool \in Pools(setting) /\ request \in Requests(setting)
        /\ RequestsReady(setting, Full(setting, pool), request)
    BY Typed
  <1>8. CASE Req.buffer # NoBuffer
    <2>1. Call(<<Abort("asyncWriteCallbackLeft")>>) /\ pool' = pool /\ request' = request
      BY <1>8 DEF AsyncWrite
    <2>2. SinksBut(request, request', this) /\ request'[Source].buffer = request[Source].buffer
      BY <2>1 DEF SinksBut
    <2>3. ASSUME NEW b \in BuffersOf(setting)
          PROVE  pool'.refs[b] + 2 * Is(request[this].buffer, b) + Owed(Head(stack), b)
                 >= pool.refs[b] + 2 * Is(request'[this].buffer, b)
      <3>1. /\ pool.refs[b] \in Int /\ Is(request[this].buffer, b) \in Nat
            /\ Owed(Head(stack), b) \in Nat
        BY <1>7, IsNat, OwedNat DEF Pools
      <3> QED BY <2>1, <3>1
    <2> QED BY <1>1, <1>2, <1>3, <1>6, <1>7, <2>1, <2>2, <2>3, SinkSettles
  <1>9. CASE Req.buffer = NoBuffer
    <2>1. /\ request' = WithRequest(this, "active", arg)
          /\ pool' = Ref(pool, arg) /\ Call(<<>>)
      BY <1>9 DEF AsyncWrite, Holding, Return, WithRequest
    <2>2. /\ pool' \in Pools(setting) /\ Full(setting, pool') = Full(setting, pool)
          /\ \A b \in BuffersOf(setting) : pool'.refs[b] = pool.refs[b] + Is(arg, b)
      BY <1>2, <1>7, <2>1, Reffed
    <2>3. /\ request' \in Requests(setting) /\ RequestsReady(setting, Full(setting, pool), request')
          /\ request'[this].buffer = arg
          /\ request'[Source].buffer = request[Source].buffer /\ SinksBut(request, request', this)
      <3> DEFINE v == "active"
                 a == arg
                 k == this
      <3>1. /\ v \in {"free", "active", "stopping"} /\ a \in Full(setting, pool) \cup {NoBuffer}
            /\ request' = WithRequest(k, v, a) /\ k \in Sinks /\ k \in UsedWritables(setting)
        BY <1>2, <2>1
      <3>2. a # NoBuffer
        BY <1>2, SettingIs DEF NoBuffer
      <3> HIDE DEF v, a, k
      <3>3. /\ request' \in Requests(setting) /\ RequestsReady(setting, Full(setting, pool), request')
            /\ request'[k].buffer = a
            /\ request'[Source].buffer = request[Source].buffer /\ SinksBut(request, request', k)
        BY <3>1, <3>2, SinkRequest
      <3> QED BY <3>3 DEF a, k
    <2>4. ASSUME NEW b \in BuffersOf(setting)
          PROVE  pool'.refs[b] + 2 * Is(request[this].buffer, b) + Owed(Head(stack), b)
                 >= pool.refs[b] + 2 * Is(request'[this].buffer, b)
      <3>1. /\ pool.refs[b] \in Int /\ Is(request[this].buffer, b) \in Nat
            /\ Owed(Head(stack), b) = Is(arg, b) /\ Is(arg, b) \in Nat
        BY <1>1, <1>7, IsNat, Owes DEF Pools
      <3>2. /\ pool'.refs[b] = pool.refs[b] + Is(arg, b)
            /\ Is(request'[this].buffer, b) = Is(arg, b)
        BY <2>2, <2>3
      <3> QED BY <3>1, <3>2
    <2> QED BY <1>1, <1>2, <1>3, <1>6, <2>1, <2>2, <2>3, <2>4, SinkSettles
  <1> QED BY <1>8, <1>9

LEMMA Overwritten ==
    ASSUME NEW A, NEW B, NEW r \in [state : A, buffer : B], NEW v, NEW n
    PROVE  [r EXCEPT !.state = v, !.buffer = n] = [state |-> v, buffer |-> n]
  <1> DEFINE u == [r EXCEPT !.state = v, !.buffer = n]
  <1>1. u \in [state : {v}, buffer : {n}] /\ u.state = v /\ u.buffer = n
    OBVIOUS
  <1> HIDE DEF u
  <1>2. u = [state |-> u.state, buffer |-> u.buffer]
    BY <1>1
  <1>3. u = [state |-> v, buffer |-> n]
    BY <1>1, <1>2
  <1> QED BY <1>3 DEF u

\* What finalizing the source and a sink does to the requests and the pool.
LEMMA FinalizedSource ==
    ASSUME IInv, NEW frames, Finalize(Source, frames)
    PROVE  /\ request' \in Requests(setting) /\ RequestsReady(setting, Full(setting, pool), request')
           /\ request'[Source].buffer = NoBuffer
           /\ \A k \in Sinks : request'[k].buffer = request[k].buffer
           /\ pool' \in Pools(setting) /\ Full(setting, pool') = Full(setting, pool)
           /\ \A b \in BuffersOf(setting) :
                  pool'.refs[b] + Is(request[Source].buffer, b) >= pool.refs[b] + Is(NoBuffer, b)
  <1> DEFINE v == "free"
             n == NoBuffer
             m == request[Source].buffer
  <1>0. pool \in Pools(setting) /\ request \in Requests(setting) /\ setting \in Settings
    BY Typed
  <1>1. /\ v \in {"free", "active", "stopping"} /\ n \in BuffersOf(setting) \cup {NoBuffer}
        /\ v # "active" /\ request' = WithRequest(Source, v, n)
    <2>1. request' = [request EXCEPT ![Source].state = "free", ![Source].buffer = NoBuffer]
      BY DEF Finalize
    <2>2. /\ request[Source] \in [state : {"free", "active", "stopping"},
                                  buffer : BuffersOf(setting) \cup {NoBuffer}]
          /\ DOMAIN request = {Source} \cup Sinks
      BY <1>0 DEF Requests
    <2>3. [request[Source] EXCEPT !.state = "free", !.buffer = NoBuffer]
          = [state |-> "free", buffer |-> NoBuffer]
      <3> DEFINE r == request[Source]
                 A == {"free", "active", "stopping"}
                 B == BuffersOf(setting) \cup {NoBuffer}
                 a == "free"
                 c == NoBuffer
      <3>1. r \in [state : A, buffer : B]
        BY <2>2
      <3> HIDE DEF r, A, B, a, c
      <3>2. [r EXCEPT !.state = a, !.buffer = c] = [state |-> a, buffer |-> c]
        BY <3>1, Overwritten
      <3> QED BY <3>2 DEF r, a, c
    <2>4. request' = [request EXCEPT ![Source] = [request[Source] EXCEPT !.state = "free",
                                                                         !.buffer = NoBuffer]]
      BY <2>1, <2>2
    <2>5. request' = WithRequest(Source, v, n)
      BY <2>3, <2>4 DEF WithRequest
    <2> QED BY <2>5
  <1>2. pool' = IF m # NoBuffer THEN Unref(pool, m) ELSE pool
    BY DEF Finalize
  <1>3. \A b \in BuffersOf(setting) : b # NoBuffer
    BY <1>0, SettingIs DEF NoBuffer
  <1>4. /\ Unref(pool, m) \in Pools(setting) /\ Full(setting, Unref(pool, m)) = Full(setting, pool)
        /\ \A c \in BuffersOf(setting) : Unref(pool, m).refs[c] = pool.refs[c] - Is(m, c)
    BY <1>0, Unreffed
  <1>5. ASSUME NEW b \in BuffersOf(setting)
        PROVE  pool'.refs[b] + Is(m, b) >= pool.refs[b] + Is(NoBuffer, b)
    <2>1. pool.refs[b] \in Int /\ Is(m, b) \in Nat
      BY <1>0, IsNat DEF Pools
    <2>2. Is(NoBuffer, b) = 0
      BY <1>3 DEF Is
    <2> QED BY <1>2, <1>4, <2>1, <2>2
  <1>6. pool' \in Pools(setting) /\ Full(setting, pool') = Full(setting, pool)
    BY <1>0, <1>2, <1>4
  <1>7. /\ request' \in Requests(setting) /\ RequestsReady(setting, Full(setting, pool), request')
        /\ request'[Source].buffer = n /\ \A k \in Sinks : request'[k].buffer = request[k].buffer
    <2> HIDE DEF v, n
    <2> QED BY <1>1, SourceRequest
  <1> QED BY <1>5, <1>6, <1>7

LEMMA FinalizedSink ==
    ASSUME IInv, NEW s \in Sinks, NEW frames, Finalize(s, frames)
    PROVE  /\ request' \in Requests(setting) /\ RequestsReady(setting, Full(setting, pool), request')
           /\ request'[Source].buffer = request[Source].buffer
           /\ \A k \in Sinks : request'[k].buffer = request[k].buffer
           /\ pool' = pool
  <1>0. /\ request \in Requests(setting) /\ RequestsReady(setting, Full(setting, pool), request)
        /\ s # Source
    BY Typed, StreamsAssumption
  <1>1. request' = [request EXCEPT ![s].state = "free", ![s].buffer = request[s].buffer] /\ pool' = pool
    BY <1>0 DEF Finalize
  <1>2. request' \in Requests(setting)
    BY <1>0, <1>1 DEF Requests
  <1>3. /\ \A k \in {Source} \cup Sinks : request'[k].buffer = request[k].buffer
        /\ request'[s].state = "free" /\ \A k \in {Source} \cup Sinks : k # s => request'[k] = request[k]
    BY <1>0, <1>1 DEF Requests
  <1>4. RequestsReady(setting, Full(setting, pool), request')
    BY <1>0, <1>3 DEF RequestsReady
  <1> QED BY <1>1, <1>2, <1>3, <1>4

LEMMA AsyncDestroyKeeps == IInv /\ AsyncDestroy => IInv'
  <1> SUFFICES ASSUME IInv, AsyncDestroy PROVE IInv'
    OBVIOUS
  <1>1. /\ stack # <<>> /\ Head(stack).call \in {"asyncDestroyReadable", "asyncDestroyWritable"}
        /\ Plain(Head(stack)) /\ Head(stack).call \notin {"clearPendingWrite", "finalized"}
        /\ this \in {Source} \cup Sinks /\ Req = request[this]
    BY DEF AsyncDestroy, Running, Plain, HoldingCalls, Req
  <1>2. /\ request \in Requests(setting) /\ RequestsReady(setting, Full(setting, pool), request)
        /\ setting \in Settings /\ pool \in Pools(setting)
    BY Typed
  <1>3. /\ this = Source => Head(stack).call = "asyncDestroyReadable"
        /\ this \in Sinks => /\ Head(stack).call = "asyncDestroyWritable"
                             /\ this \in UsedWritables(setting)
    <2>1. /\ Head(stack).call = "asyncDestroyReadable" => this \in UsedReadables(setting)
          /\ Head(stack).call = "asyncDestroyWritable" => this \in UsedWritables(setting)
      BY <1>1, TopCall DEF ReadableCalls, WritableCalls
    <2>2. this \in UsedReadables(setting) => this \notin Sinks
      BY <1>2, SettingIs, StreamsAssumption DEF Readables
    <2>3. this \in UsedWritables(setting) => this # Source
      BY <1>2, SettingIs, StreamsAssumption DEF Writables
    <2> QED BY <1>1, <2>1, <2>2, <2>3
  <1>4. Frame(Finished(this), this, NoBuffer) \in HarmlessFrames
    <2>1. CASE this = Source
      <3>1. Source \in UsedReadables(setting) /\ Head(stack).call \notin WriteCalls
        BY <1>3, <2>1 DEF UsedReadables, WriteCalls
      <3>2. Frame("finishedDestroyingReadable", Source, NoBuffer) \in HarmlessFrames
        BY <1>2, <3>1, ReadablesCalled DEF ReadableCalls, BufferCalls, SourceCalls
      <3> QED BY <2>1, <3>2 DEF Finished
    <2>2. CASE this \in Sinks
      <3>1. this # Source /\ NoBuffer \in Nat
        BY <2>2, StreamsAssumption DEF NoBuffer
      <3>2. Frame("finishedDestroyingWritable", this, NoBuffer) \in HarmlessFrames
        BY <1>2, <1>3, <2>2, <3>1, WritablesCalled DEF WritableCalls, BufferCalls, WriteCalls
      <3> QED BY <3>1, <3>2 DEF Finished
    <2> QED BY <1>1, <2>1, <2>2
  <1>5. UNCHANGED <<setting, readable, writable, transform, pipe, log>>
    BY DEF AsyncDestroy, Finalize
  <1>6. /\ <<Frame(Finished(this), this, NoBuffer)>> \in Seq(HarmlessFrames)
        /\ <<>> \in Seq(HarmlessFrames)
    BY <1>4
  <1>7. CASE Req.state = "free"
    <2>1. Finalize(this, Tail(stack)) /\ Call(<<Frame(Finished(this), this, NoBuffer)>>)
      BY <1>7 DEF AsyncDestroy, Finalize, Call
    <2>2. CASE this = Source
      <3>1. Finalize(Source, Tail(stack))
        BY <2>1, <2>2
      <3> QED BY <1>1, <1>5, <1>6, <2>1, <3>1, FinalizedSource, SourceSettles
    <2>3. CASE this \in Sinks
      <3>1. /\ request' \in Requests(setting) /\ RequestsReady(setting, Full(setting, pool), request')
            /\ request'[Source].buffer = request[Source].buffer
            /\ \A k \in Sinks : request'[k].buffer = request[k].buffer
            /\ pool' = pool
        BY <2>1, <2>3, FinalizedSink
      <3>2. SinksBut(request, request', this)
        BY <3>1 DEF SinksBut
      <3>3. ASSUME NEW b \in BuffersOf(setting)
            PROVE  pool'.refs[b] + 2 * Is(request[this].buffer, b) + Owed(Head(stack), b)
                   >= pool.refs[b] + 2 * Is(request'[this].buffer, b)
        <4>1. pool.refs[b] \in Int /\ Is(request[this].buffer, b) \in Nat /\ Owed(Head(stack), b) \in Nat
          BY <1>2, IsNat, OwedNat DEF Pools
        <4> QED BY <2>3, <3>1, <4>1
      <3> QED BY <1>1, <1>2, <1>5, <1>6, <2>1, <2>3, <3>1, <3>2, <3>3, SinkSettles
    <2> QED BY <1>1, <2>2, <2>3
  <1>8. CASE Req.state # "free"
    <2>1. /\ request' = [request EXCEPT ![this].state = "stopping"] /\ pool' = pool
          /\ Call(<<>>)
      BY <1>8 DEF AsyncDestroy, Return
    <2>2. request' \in Requests(setting) /\ request'[this].state = "stopping"
          /\ \A k \in {Source} \cup Sinks : /\ request'[k].buffer = request[k].buffer
                                            /\ k # this => request'[k] = request[k]
      BY <1>1, <1>2, <2>1 DEF Requests
    <2>3. RequestsReady(setting, Full(setting, pool), request')
      BY <1>2, <1>3, <2>2 DEF RequestsReady
    <2>4. TypesInv'
      BY <1>5, <2>1, <2>2, <2>3, Typed, TypesKept
    <2>5. BuffersStay
      BY <1>5, <2>1, <2>2 DEF BuffersStay
    <2> QED BY <1>1, <1>6, <2>1, <2>4, <2>5, Passes DEF Call
  <1> QED BY <1>7, <1>8

-----------------------------------------------------------------------------
(* The event loop calls                                                    *)

\* Frames that the event loop and the user may start.
Started(p) ==
    {f \in Frames : /\ FrameOK(setting, Full(setting, p), f)
                    /\ f.call \notin {"clearPendingWrite", "finalized", "write"}}

LastOnly(F) == \A i \in 1 .. Len(F) : F[i].call = "afterWork" => i = Len(F)

LEMMA Starts ==
    ASSUME IInv, stack = <<>>, setting' = setting, TypesInv',
           NEW F \in Seq(Started(pool')), LastOnly(F), stack' = F,
           \A b \in BuffersOf(setting) :
               pool'.refs[b] + KeptOf(b)
               >= pool.refs[b] + Kept(readable', writable', request', transform', pipe'.pending,
                                      Clearing(stack), Finalizers(stack), b)
                  + HeldByFrames(F, b)
    PROVE  IInv'
  <1>1. Len(F) \in Nat /\ DOMAIN F = 1 .. Len(F) /\ \A i \in 1 .. Len(F) : F[i] \in Started(pool')
    BY ElementOfSeq, LenProperties
  <1>2. F \in Seq(Frames)
    <2>1. Started(pool') \subseteq Frames
      BY DEF Started
    <2> HIDE DEF Started
    <2> QED BY <2>1
  <1>3. /\ Clearing(F) = {} /\ Finalizers(F) = {} /\ WriteOnTop(F)
        /\ \A i \in DOMAIN F : F[i].call # "write"
        /\ Clearing(stack) = {} /\ Finalizers(stack) = {}
    BY <1>1 DEF Clearing, Finalizers, WriteOnTop, Started
  <1>4. StackOK(setting, Full(setting, pool'), F)
    BY <1>1, <1>2 DEF StackOK, Started, LastOnly
  <1>5. StackInv'
    <2>1. ~Running("write")'
      <3>1. ASSUME F # <<>> PROVE Head(F) = F[1] /\ 1 \in DOMAIN F
        BY <1>1, <1>2, <3>1, EmptySeq
      <3> QED BY <1>3, <3>1 DEF Running
    <2> QED BY <1>3, <1>4, <2>1 DEF StackInv
  <1>6. ASSUME NEW b \in BuffersOf(setting)
        PROVE  pool'.refs[b] + KeptOf(b) + HeldByFrames(stack, b)
               >= pool.refs[b] + KeptOf(b)' + HeldByFrames(stack', b)
    <2>1. KeptOf(b)' = Kept(readable', writable', request', transform', pipe'.pending,
                            Clearing(stack), Finalizers(stack), b)
      BY <1>3 DEF KeptOf
    <2>2. HeldByFrames(stack, b) = 0
      BY FewFrames
    <2>3. KeptOf(b) \in Nat /\ pool'.refs[b] \in Int
      <3>1. pool' \in Pools(setting)
        BY DEF TypesInv
      <3> QED BY <3>1, KeptTyped DEF Pools
    <2> HIDE DEF KeptOf
    <2>4. pool'.refs[b] + KeptOf(b) + HeldByFrames(stack, b) = pool'.refs[b] + KeptOf(b)
      BY <2>2, <2>3
    <2> QED BY <2>1, <2>4
  <1> QED BY <1>5, <1>6, Rebalanced

LEMMA FrameStarts ==
    ASSUME NEW p, NEW c \in CallNames \ {"clearPendingWrite", "finalized", "write"},
           NEW n \in Nat, c \in BufferCalls => n \in Full(setting, p),
           NEW x \in Readables \cup Writables,
           c \in ReadableCalls => x \in UsedReadables(setting),
           c \in WritableCalls => x \in UsedWritables(setting),
           c \in TransformCalls => x \in UsedTransforms(setting),
           c \in SourceCalls => x = Source
    PROVE  /\ Frame(c, x, n) \in Started(p) /\ Frame(c, x, n).call = c /\ Frame(c, x, n) \in Frames
           /\ \A b : Owed(Frame(c, x, n), b) = IF c \in HoldingCalls THEN Is(n, b) ELSE 0
  <1>1. Frame(c, x, n) \in Frames
    BY DEF Frame, Frames
  <1>2. Frame(c, x, n).call = c /\ Frame(c, x, n).of = x /\ Frame(c, x, n).arg = n
    BY DEF Frame
  <1>3. FrameOK(setting, Full(setting, p), Frame(c, x, n))
    <2> HIDE DEF Frame
    <2> QED BY <1>2 DEF FrameOK
  <1>4. \A b : Owed(Frame(c, x, n), b) = IF c \in HoldingCalls THEN Is(n, b) ELSE 0
    BY Owes
  <1> HIDE DEF Frame
  <1> QED BY <1>1, <1>2, <1>3, <1>4 DEF Started

LEMMA ErrorStarts ==
    ASSUME NEW p, NEW x \in Readables \cup Writables, NEW what \in ErrorMessages
    PROVE  /\ Error(x, what) \in Started(p) /\ Error(x, what) \in Frames
           /\ \A b : Owed(Error(x, what), b) = 0
           /\ Error(x, what).call = "eventError"
  <1>1. Error(x, what) \in Frames /\ Error(x, what).call = "eventError"
    BY DEF Error, Frames
  <1>2. FrameOK(setting, Full(setting, p), Error(x, what))
    BY <1>1 DEF FrameOK, ReadableCalls, WritableCalls, TransformCalls, SourceCalls, BufferCalls
  <1>3. \A b : Owed(Error(x, what), b) = 0
    BY <1>1 DEF Owed, Holds, HoldingCalls
  <1> HIDE DEF Error
  <1> QED BY <1>1, <1>2, <1>3 DEF Started

\* One and two frames.
LEMMA FewStart ==
    ASSUME NEW p, NEW f \in Started(p), NEW g \in Started(p), f.call # "afterWork"
    PROVE  /\ <<f>> \in Seq(Started(p)) /\ <<f, g>> \in Seq(Started(p)) /\ <<g>> \in Seq(Started(p))
           /\ LastOnly(<<f>>) /\ LastOnly(<<f, g>>) /\ LastOnly(<<g>>)
  <1> HIDE DEF Started
  <1>1. <<f>> \in Seq(Started(p)) /\ <<f, g>> \in Seq(Started(p)) /\ <<g>> \in Seq(Started(p))
    OBVIOUS
  <1>2. LastOnly(<<f>>) /\ LastOnly(<<g>>)
    BY DEF LastOnly
  <1>3. LastOnly(<<f, g>>)
    BY DEF LastOnly
  <1> QED BY <1>1, <1>2, <1>3

LEMMA BalancedStart ==
    ASSUME NEW r \in Int, NEW r2 \in Int, NEW k \in Nat, NEW f \in Nat,
           NEW old \in Nat, NEW new \in Nat, NEW after, after = k - old + new,
           r2 + old >= r + new + f
    PROVE  r2 + k >= r + after + f
  OBVIOUS

LEMMA StartedCount ==
    ASSUME NEW p, NEW F \in Seq(Started(p)), NEW b
    PROVE  HeldByFrames(F, b) \in Nat
  <1>1. Started(p) \subseteq Frames
    BY DEF Started
  <1>2. F \in Seq(Frames)
    <2> HIDE DEF Started
    <2> QED BY <1>1
  <1> QED BY <1>2, FramesCount

LEMMA SourceStarts ==
    ASSUME IInv, stack = <<>>,
           request' \in Requests(setting), RequestsReady(setting, Full(setting, pool), request'),
           \A k \in Sinks : request'[k].buffer = request[k].buffer,
           pool' \in Pools(setting), Full(setting, pool) \subseteq Full(setting, pool'),
           log' \in Logs(setting),
           NEW F \in Seq(Started(pool')), LastOnly(F), stack' = F,
           \A b \in BuffersOf(setting) :
               pool'.refs[b] + Is(request[Source].buffer, b)
               >= pool.refs[b] + Is(request'[Source].buffer, b) + HeldByFrames(F, b),
           UNCHANGED <<setting, readable, writable, transform, pipe>>
    PROVE  IInv'
  <1>2. TypesInv'
    BY Typed, TypesKept
  <1>5. /\ readable' = readable /\ writable' = writable /\ transform' = transform /\ pipe' = pipe
        /\ setting' = setting
    OBVIOUS
  <1>4. ASSUME NEW b \in BuffersOf(setting)
        PROVE  pool'.refs[b] + KeptOf(b)
               >= pool.refs[b] + Kept(readable', writable', request', transform', pipe'.pending,
                                      Clearing(stack), Finalizers(stack), b)
                  + HeldByFrames(F, b)
    <2> DEFINE old == Is(request[Source].buffer, b)
               new == Is(request'[Source].buffer, b)
               after == Kept(readable', writable', request', transform', pipe'.pending,
                             Clearing(stack), Finalizers(stack), b)
    <2>1. after = KeptOf(b) - old + new
      BY <1>5, KeptSource
    <2>2. old \in Nat /\ new \in Nat
      BY IsNat
    <2>3. KeptOf(b) \in Nat /\ pool.refs[b] \in Int /\ pool'.refs[b] \in Int
      BY KeptTyped, Typed DEF Pools
    <2>4. pool'.refs[b] + old >= pool.refs[b] + new + HeldByFrames(F, b)
      OBVIOUS
    <2>5. HeldByFrames(F, b) \in Nat
      BY StartedCount
    <2> HIDE DEF old, new, after
    <2>6. pool'.refs[b] + KeptOf(b) >= pool.refs[b] + after + HeldByFrames(F, b)
      BY <2>1, <2>2, <2>3, <2>4, <2>5, BalancedStart
    <2> QED BY <2>6 DEF after
  <1> QED BY <1>2, <1>4, <1>5, Starts

LEMMA SinkStarts ==
    ASSUME IInv, stack = <<>>, NEW k \in Sinks,
           request' \in Requests(setting), RequestsReady(setting, Full(setting, pool), request'),
           request'[Source].buffer = request[Source].buffer, SinksBut(request, request', k),
           pool' \in Pools(setting), Full(setting, pool) \subseteq Full(setting, pool'),
           log' \in Logs(setting),
           NEW F \in Seq(Started(pool')), LastOnly(F), stack' = F,
           \A b \in BuffersOf(setting) :
               pool'.refs[b] + 2 * Is(request[k].buffer, b)
               >= pool.refs[b] + 2 * Is(request'[k].buffer, b) + HeldByFrames(F, b),
           UNCHANGED <<setting, readable, writable, transform, pipe>>
    PROVE  IInv'
  <1>2. TypesInv'
    BY Typed, TypesKept
  <1>5. /\ readable' = readable /\ writable' = writable /\ transform' = transform /\ pipe' = pipe
        /\ setting' = setting
    OBVIOUS
  <1>4. ASSUME NEW b \in BuffersOf(setting)
        PROVE  pool'.refs[b] + KeptOf(b)
               >= pool.refs[b] + Kept(readable', writable', request', transform', pipe'.pending,
                                      Clearing(stack), Finalizers(stack), b)
                  + HeldByFrames(F, b)
    <2> DEFINE old == 2 * Is(request[k].buffer, b)
               new == 2 * Is(request'[k].buffer, b)
               after == Kept(readable', writable', request', transform', pipe'.pending,
                             Clearing(stack), Finalizers(stack), b)
    <2>1. after = KeptOf(b) - old + new
      BY <1>5, KeptSink
    <2>2. old \in Nat /\ new \in Nat
      BY IsNat
    <2>3. KeptOf(b) \in Nat /\ pool.refs[b] \in Int /\ pool'.refs[b] \in Int
      BY KeptTyped, Typed DEF Pools
    <2>4. pool'.refs[b] + old >= pool.refs[b] + new + HeldByFrames(F, b)
      OBVIOUS
    <2>5. HeldByFrames(F, b) \in Nat
      BY StartedCount
    <2> HIDE DEF old, new, after
    <2>6. pool'.refs[b] + KeptOf(b) >= pool.refs[b] + after + HeldByFrames(F, b)
      BY <2>1, <2>2, <2>3, <2>4, <2>5, BalancedStart
    <2> QED BY <2>6 DEF after
  <1> QED BY <1>2, <1>4, <1>5, Starts

LEMMA ReadCompletesKeeps == IInv /\ ReadCompletes => IInv'
  <1> SUFFICES ASSUME IInv, ReadCompletes PROVE IInv'
    OBVIOUS
  <1> DEFINE n == request[Source].buffer
             item == log.read + 1
             f == Frame("push", Source, n)
             g == Frame("afterPush", Source, n)
  <1>1. /\ stack = <<>> /\ request[Source].state = "active"
        /\ request' = [request EXCEPT ![Source].state = "free"]
        /\ pool' = [pool EXCEPT !.data[n] = item] /\ log' = [log EXCEPT !.read = @ + 1]
        /\ stack' = <<f, g>> /\ UNCHANGED <<setting, readable, writable, transform, pipe>>
    BY DEF ReadCompletes
  <1>2. /\ request \in Requests(setting) /\ RequestsReady(setting, Full(setting, pool), request)
        /\ setting \in Settings /\ pool \in Pools(setting) /\ log \in Logs(setting)
    BY Typed
  <1>3. n \in BuffersOf(setting) /\ n \in Nat /\ item \in Nat \ {0}
    <2>1. n \in BuffersOf(setting) \cup {NoBuffer} /\ n # NoBuffer
      BY <1>1, <1>2 DEF Requests, RequestsReady
    <2>2. n \in BuffersOf(setting) /\ log.read \in Nat
      BY <1>2, <2>1 DEF Logs
    <2> QED BY <2>2 DEF BuffersOf
  <1>4. /\ request' \in Requests(setting) /\ request'[Source].state = "free"
        /\ request'[Source].buffer = n /\ \A k \in Sinks : request'[k] = request[k]
    BY <1>1, <1>2, StreamsAssumption DEF Requests
  <1>5. RequestsReady(setting, Full(setting, pool), request')
    BY <1>2, <1>4 DEF RequestsReady
  <1>6. /\ pool' \in Pools(setting) /\ Full(setting, pool) \subseteq Full(setting, pool')
        /\ n \in Full(setting, pool') /\ pool'.refs = pool.refs
    <2> HIDE DEF n, item
    <2>1. /\ [pool EXCEPT !.data[n] = item] \in Pools(setting)
          /\ Full(setting, pool) \subseteq Full(setting, [pool EXCEPT !.data[n] = item])
          /\ n \in Full(setting, [pool EXCEPT !.data[n] = item])
          /\ [pool EXCEPT !.data[n] = item].refs = pool.refs
      BY <1>2, <1>3, Stored
    <2> QED BY <1>1, <2>1
  <1>7. log' \in Logs(setting)
    BY <1>1, <1>2, LogTypes
  <1>8. /\ f \in Started(pool') /\ f.call = "push" /\ f \in Frames /\ \A b : Owed(f, b) = 0
        /\ g \in Started(pool') /\ g.call = "afterPush" /\ g \in Frames /\ \A b : Owed(g, b) = 0
    <2>1. Source \in UsedReadables(setting) /\ Source \in Readables \cup Writables
      BY DEF UsedReadables, Readables
    <2>2. /\ "push" \in CallNames \ {"clearPendingWrite", "finalized", "write"}
          /\ "push" \notin HoldingCalls \cup WritableCalls \cup TransformCalls \cup SourceCalls
      BY DEF CallNames, HoldingCalls, WritableCalls, TransformCalls, SourceCalls, ReadableCalls
    <2>3. /\ "afterPush" \in CallNames \ {"clearPendingWrite", "finalized", "write"}
          /\ "afterPush" \notin HoldingCalls \cup WritableCalls \cup TransformCalls \cup BufferCalls
      BY DEF CallNames, HoldingCalls, WritableCalls, TransformCalls, BufferCalls, ReadableCalls
    <2> HIDE DEF n
    <2>4. f \in Started(pool') /\ f.call = "push" /\ f \in Frames /\ \A b : Owed(f, b) = 0
      <3> DEFINE c == "push"
                 p == pool'
      <3>1. /\ c \in CallNames \ {"clearPendingWrite", "finalized", "write"}
            /\ c \notin HoldingCalls \cup WritableCalls \cup TransformCalls \cup SourceCalls
            /\ n \in Nat /\ n \in Full(setting, p) /\ f = Frame(c, Source, n)
        BY <1>3, <1>6, <2>2
      <3> HIDE DEF c, p, f
      <3>2. f \in Started(p) /\ f.call = c /\ f \in Frames /\ \A b : Owed(f, b) = 0
        BY <2>1, <3>1, FrameStarts
      <3> QED BY <3>2 DEF c, p
    <2>5. g \in Started(pool') /\ g.call = "afterPush" /\ g \in Frames /\ \A b : Owed(g, b) = 0
      BY <1>3, <2>1, <2>3, FrameStarts
    <2> QED BY <2>4, <2>5
  <1> HIDE DEF f, g, n, item
  <1>9. <<f, g>> \in Seq(Started(pool')) /\ LastOnly(<<f, g>>)
    BY <1>8, FewStart
  <1>10. ASSUME NEW b \in BuffersOf(setting)
         PROVE  pool'.refs[b] + Is(request[Source].buffer, b)
                >= pool.refs[b] + Is(request'[Source].buffer, b) + HeldByFrames(<<f, g>>, b)
    <2>1. HeldByFrames(<<f, g>>, b) = 0
      <3>1. HeldByFrames(<<f, g>>, b) = Owed(f, b) + Owed(g, b)
        BY <1>8, TwoFrames
      <3> QED BY <1>8, <3>1
    <2>2. pool.refs[b] \in Int /\ Is(request[Source].buffer, b) \in Nat
      BY <1>2, IsNat DEF Pools
    <2> QED BY <1>4, <1>6, <2>1, <2>2 DEF n
  <1>11. \A k \in Sinks : request'[k].buffer = request[k].buffer
    BY <1>4
  <1> QED BY <1>1, <1>4, <1>5, <1>6, <1>7, <1>9, <1>10, <1>11, SourceStarts

LEMMA ReadStopsKeeps ==
    ASSUME IInv, NEW f \in Started(pool'), ReadStops(f), f \in Frames,
           f.call # "afterWork", \A b : Owed(f, b) = 0
    PROVE  IInv'
  <1> DEFINE n == request[Source].buffer
             v == "free"
             z == NoBuffer
  <1>1. /\ stack = <<>> /\ request[Source].state = "active"
        /\ request' = WithRequest(Source, v, z)
        /\ pool' = Unref(pool, n)
        /\ stack' = <<f>> /\ UNCHANGED <<setting, readable, writable, transform, pipe, log>>
    BY DEF ReadStops, WithRequest
  <1>2. setting \in Settings /\ pool \in Pools(setting) /\ log \in Logs(setting)
    BY Typed
  <1>3. /\ request' \in Requests(setting) /\ RequestsReady(setting, Full(setting, pool), request')
        /\ request'[Source].buffer = z /\ \A k \in Sinks : request'[k].buffer = request[k].buffer
    <2>1. v \in {"free", "active", "stopping"} /\ z \in BuffersOf(setting) \cup {NoBuffer} /\ v # "active"
      OBVIOUS
    <2> HIDE DEF v, z
    <2> QED BY <1>1, <2>1, SourceRequest
  <1>4. /\ pool' \in Pools(setting) /\ Full(setting, pool') = Full(setting, pool)
        /\ \A c \in BuffersOf(setting) : pool'.refs[c] = pool.refs[c] - Is(n, c)
    <2> HIDE DEF n
    <2> QED BY <1>1, <1>2, Unreffed
  <1>5. <<f>> \in Seq(Started(pool')) /\ LastOnly(<<f>>)
    BY FewStart
  <1>6. ASSUME NEW b \in BuffersOf(setting)
        PROVE  pool'.refs[b] + Is(request[Source].buffer, b)
               >= pool.refs[b] + Is(request'[Source].buffer, b) + HeldByFrames(<<f>>, b)
    <2>1. HeldByFrames(<<f>>, b) = 0
      <3>1. HeldByFrames(<<f>>, b) = Owed(f, b)
        BY OneFrame
      <3> QED BY <3>1
    <2>2. b # NoBuffer
      BY <1>2, SettingIs DEF NoBuffer
    <2>3. Is(NoBuffer, b) = 0
      BY <2>2 DEF Is
    <2>4. pool.refs[b] \in Int /\ Is(n, b) \in Nat
      BY <1>2, IsNat DEF Pools
    <2> QED BY <1>3, <1>4, <2>1, <2>3, <2>4
  <1>7. log' \in Logs(setting)
    BY <1>1, <1>2
  <1> HIDE DEF n, v, z
  <1> QED BY <1>1, <1>3, <1>4, <1>5, <1>6, <1>7, SourceStarts

LEMMA ReadEndsKeeps == IInv /\ ReadEnds => IInv'
  <1> SUFFICES ASSUME IInv, ReadEnds PROVE IInv'
    OBVIOUS
  <1> DEFINE f == Frame("pushEnd", Source, NoBuffer)
  <1>1. ReadStops(f)
    BY DEF ReadEnds
  <1>2. f \in Started(pool') /\ f.call = "pushEnd" /\ f \in Frames /\ \A b : Owed(f, b) = 0
    <2>1. Source \in UsedReadables(setting) /\ Source \in Readables \cup Writables /\ NoBuffer \in Nat
      BY DEF UsedReadables, Readables, NoBuffer
    <2>2. /\ "pushEnd" \in CallNames \ {"clearPendingWrite", "finalized", "write"}
          /\ "pushEnd" \notin HoldingCalls \cup WritableCalls \cup TransformCalls \cup SourceCalls
                              \cup BufferCalls
      BY DEF CallNames, HoldingCalls, WritableCalls, TransformCalls, SourceCalls, ReadableCalls,
             BufferCalls
    <2> QED BY <2>1, <2>2, FrameStarts
  <1> HIDE DEF f
  <1> QED BY <1>1, <1>2, ReadStopsKeeps

LEMMA ReadFailsKeeps == IInv /\ ReadFails => IInv'
  <1> SUFFICES ASSUME IInv, ReadFails PROVE IInv'
    OBVIOUS
  <1> DEFINE f == Error(Source, "readFailed")
  <1>1. ReadStops(f)
    BY DEF ReadFails
  <1>2. f \in Started(pool') /\ f.call = "eventError" /\ f \in Frames /\ \A b : Owed(f, b) = 0
    <2>1. Source \in Readables \cup Writables /\ "readFailed" \in ErrorMessages
      BY DEF Readables, ErrorMessages
    <2> QED BY <2>1, ErrorStarts
  <1> HIDE DEF f
  <1> QED BY <1>1, <1>2, ReadStopsKeeps

LEMMA OneAndOne == \A f, g : <<f>> \o <<g>> = <<f, g>>
  <1> SUFFICES ASSUME NEW f, NEW g PROVE <<f>> \o <<g>> = <<f, g>>
    OBVIOUS
  <1> DEFINE X == {f, g}
             s == <<f>>
             t == <<g>>
             u == <<f, g>>
  <1>1. /\ s \in Seq(X) /\ t \in Seq(X) /\ u \in Seq(X) /\ Len(s) = 1 /\ Len(t) = 1 /\ Len(u) = 2
        /\ s[1] = f /\ t[1] = g /\ u[1] = f /\ u[2] = g
    OBVIOUS
  <1> HIDE DEF X, s, t, u
  <1>2. /\ s \o t \in Seq(X) /\ Len(s \o t) = 2
        /\ \A i \in 1 .. 2 : (s \o t)[i] = IF i <= 1 THEN s[i] ELSE t[i - 1]
    <2>1. /\ s \o t \in Seq(X) /\ Len(s \o t) = Len(s) + Len(t)
          /\ \A i \in 1 .. Len(s) + Len(t) : (s \o t)[i] = IF i <= Len(s) THEN s[i] ELSE t[i - Len(s)]
      BY <1>1, ConcatProperties
    <2>2. Len(s) = 1 /\ Len(t) = 1 /\ Len(s) + Len(t) = 2
      BY <1>1
    <2> QED BY <2>1, <2>2
  <1> DEFINE v == s \o t
  <1>3. v \in Seq(X) /\ Len(v) = 2 /\ v[1] = f /\ v[2] = g
    BY <1>1, <1>2
  <1> HIDE DEF v
  <1>4. v = u
    <2>1. \A i \in 1 .. 2 : i = 1 \/ i = 2
      OBVIOUS
    <2>2. \A i \in 1 .. Len(v) : v[i] = u[i]
      BY <1>1, <1>3, <2>1
    <2> QED BY <1>1, <1>3, <2>2, SeqEqual
  <1> QED BY <1>4 DEF v, s, t, u

\* A write completes, with or without an error before it is reported as finished.
LEMMA WriteCompletesKeeps ==
    ASSUME IInv, NEW s \in Sinks, NEW errors, WriteCompletes(s, errors),
           errors = <<>> \/ errors = <<Error(s, "writeFailed")>>
    PROVE  IInv'
  <1> DEFINE n == request[s].buffer
             v == "free"
             z == NoBuffer
             g == Frame("finishedWriting", s, n)
             f == Error(s, "writeFailed")
  <1>1. /\ stack = <<>> /\ request[s].state = "active"
        /\ request' = WithRequest(s, v, z)
        /\ pool' = Unref(pool, n)
        /\ log' = [log EXCEPT !.written[s] = Append(@, pool.data[n])]
        /\ stack' = errors \o <<g>> /\ UNCHANGED <<setting, readable, writable, transform, pipe>>
    BY DEF WriteCompletes, WithRequest
  <1>2. /\ setting \in Settings /\ pool \in Pools(setting) /\ log \in Logs(setting)
        /\ RequestsReady(setting, Full(setting, pool), request)
        /\ Full(setting, pool) \subseteq BuffersOf(setting)
    BY Typed
  <1>3. n \in Full(setting, pool) /\ n \in BuffersOf(setting) /\ n \in Nat /\ s \in UsedWritables(setting)
    <2>1. n \in Full(setting, pool) \cup {NoBuffer} /\ n # NoBuffer /\ s \in UsedWritables(setting)
      BY <1>1, <1>2 DEF RequestsReady
    <2>2. n \in Full(setting, pool) /\ n \in BuffersOf(setting)
      BY <1>2, <2>1
    <2> QED BY <2>1, <2>2 DEF BuffersOf
  <1>4. /\ request' \in Requests(setting) /\ RequestsReady(setting, Full(setting, pool), request')
        /\ request'[s].buffer = z /\ request'[Source].buffer = request[Source].buffer
        /\ SinksBut(request, request', s)
    <2>1. v \in {"free", "active", "stopping"} /\ z \in Full(setting, pool) \cup {NoBuffer} /\ v # "active"
      OBVIOUS
    <2> HIDE DEF v, z
    <2> QED BY <1>1, <1>3, <2>1, SinkRequest
  <1>5. /\ pool' \in Pools(setting) /\ Full(setting, pool') = Full(setting, pool)
        /\ \A c \in BuffersOf(setting) : pool'.refs[c] = pool.refs[c] - Is(n, c)
    <2> HIDE DEF n
    <2> QED BY <1>1, <1>2, Unreffed
  <1>6. log' \in Logs(setting)
    <2>1. pool.data[n] \in Nat
      BY <1>2, <1>3 DEF Pools
    <2> QED BY <1>1, <1>2, <2>1, LogTypes
  <1>7. /\ g \in Started(pool') /\ g.call = "finishedWriting" /\ g \in Frames
        /\ \A b : Owed(g, b) = Is(n, b)
    <2> DEFINE c == "finishedWriting"
               p == pool'
    <2>1. /\ c \in CallNames \ {"clearPendingWrite", "finalized", "write"}
          /\ c \notin ReadableCalls \cup TransformCalls \cup SourceCalls
          /\ c \in HoldingCalls /\ n \in Full(setting, p) /\ g = Frame(c, s, n)
      BY <1>3, <1>5 DEF CallNames, HoldingCalls, WritableCalls, TransformCalls, SourceCalls,
             ReadableCalls
    <2>2. s \in Readables \cup Writables
      BY DEF Writables
    <2> HIDE DEF c, p, g, n
    <2>3. /\ g \in Started(p) /\ g.call = c /\ g \in Frames
          /\ \A b : Owed(g, b) = IF c \in HoldingCalls THEN Is(n, b) ELSE 0
      BY <1>3, <2>1, <2>2, FrameStarts
    <2>4. \A b : Owed(g, b) = Is(n, b)
      BY <2>1, <2>3
    <2> QED BY <2>3, <2>4 DEF c, p
  <1>8. f \in Started(pool') /\ f.call = "eventError" /\ f \in Frames /\ \A b : Owed(f, b) = 0
    <2>1. s \in Readables \cup Writables /\ "writeFailed" \in ErrorMessages
      BY DEF Writables, ErrorMessages
    <2> QED BY <2>1, ErrorStarts
  <1> HIDE DEF f, g
  <1>9. \E F \in Seq(Started(pool')) :
            /\ LastOnly(F) /\ stack' = F
            /\ \A b : HeldByFrames(F, b) = Is(n, b)
    <2>1. CASE errors = <<>>
      <3>1. stack' = <<g>>
        BY <1>1, <2>1
      <3>2. \A b : HeldByFrames(<<g>>, b) = Is(n, b)
        <4>1. ASSUME NEW b PROVE HeldByFrames(<<g>>, b) = Owed(g, b)
          BY <1>7, OneFrame
        <4> QED BY <1>7, <4>1
      <3>3. <<g>> \in Seq(Started(pool')) /\ LastOnly(<<g>>)
        BY <1>7, <1>8, FewStart
      <3> QED BY <3>1, <3>2, <3>3
    <2>2. CASE errors = <<Error(s, "writeFailed")>>
      <3>1. stack' = <<f, g>>
        <4>1. stack' = <<f>> \o <<g>>
          BY <1>1, <2>2 DEF f
        <4> QED BY <4>1, OneAndOne
      <3>2. \A b : HeldByFrames(<<f, g>>, b) = Is(n, b)
        <4>1. ASSUME NEW b PROVE HeldByFrames(<<f, g>>, b) = Owed(f, b) + Owed(g, b)
          BY <1>7, <1>8, TwoFrames
        <4>2. \A b : Is(n, b) \in Nat
          BY IsNat
        <4> QED BY <1>7, <1>8, <4>1, <4>2
      <3>3. <<f, g>> \in Seq(Started(pool')) /\ LastOnly(<<f, g>>)
        BY <1>7, <1>8, FewStart
      <3> QED BY <3>1, <3>2, <3>3
    <2> QED BY <2>1, <2>2
  <1>10. PICK F \in Seq(Started(pool')) :
            LastOnly(F) /\ stack' = F /\ \A b : HeldByFrames(F, b) = Is(n, b)
    BY <1>9
  <1>11. ASSUME NEW b \in BuffersOf(setting)
         PROVE  pool'.refs[b] + 2 * Is(request[s].buffer, b)
                >= pool.refs[b] + 2 * Is(request'[s].buffer, b) + HeldByFrames(F, b)
    <2>2. b # NoBuffer
      BY <1>2, SettingIs DEF NoBuffer
    <2>3. Is(NoBuffer, b) = 0
      BY <2>2 DEF Is
    <2>4. pool.refs[b] \in Int /\ Is(n, b) \in Nat
      BY <1>2, IsNat DEF Pools
    <2>5. HeldByFrames(F, b) = Is(n, b)
      BY <1>10
    <2> QED BY <1>4, <1>5, <2>3, <2>4, <2>5
  <1> HIDE DEF n, v, z
  <1> QED BY <1>1, <1>4, <1>5, <1>6, <1>10, <1>11, SinkStarts

LEMMA WriteDoneKeeps == ASSUME NEW s \in Sinks PROVE IInv /\ WriteDone(s) => IInv'
  BY WriteCompletesKeeps DEF WriteDone

LEMMA WriteFailsKeeps == ASSUME NEW s \in Sinks PROVE IInv /\ WriteFails(s) => IInv'
  BY WriteCompletesKeeps DEF WriteFails

LEMMA StopCompletesKeeps ==
    ASSUME NEW s \in {Source} \cup Sinks PROVE IInv /\ StopCompletes(s) => IInv'
  <1> SUFFICES ASSUME IInv, StopCompletes(s) PROVE IInv'
    OBVIOUS
  <1> DEFINE f == Frame(Finished(s), s, NoBuffer)
  <1>1. /\ stack = <<>> /\ request[s].state = "stopping" /\ Finalize(s, <<>>)
        /\ UNCHANGED <<setting, readable, writable, transform, pipe, log>>
    BY DEF StopCompletes, Finalize
  <1>2. /\ RequestsReady(setting, Full(setting, pool), request)
        /\ setting \in Settings /\ pool \in Pools(setting) /\ log \in Logs(setting)
    BY Typed
  <1>3. stack' = <<f>>
    BY <1>1 DEF Finalize
  <1>4. /\ f \in Started(pool') /\ f.call # "afterWork" /\ f \in Frames /\ \A b : Owed(f, b) = 0
    <2>1. CASE s = Source
      <3>1. Source \in UsedReadables(setting) /\ Source \in Readables \cup Writables /\ NoBuffer \in Nat
        BY DEF UsedReadables, Readables, NoBuffer
      <3>2. /\ "finishedDestroyingReadable" \in CallNames \ {"clearPendingWrite", "finalized", "write"}
            /\ "finishedDestroyingReadable" \notin HoldingCalls \cup WritableCalls \cup TransformCalls
                     \cup SourceCalls \cup BufferCalls
        BY DEF CallNames, HoldingCalls, WritableCalls, TransformCalls, SourceCalls, ReadableCalls,
               BufferCalls
      <3>3. f = Frame("finishedDestroyingReadable", Source, NoBuffer)
        BY <2>1 DEF Finished
      <3> HIDE DEF f
      <3>4. f \in Started(pool') /\ f.call = "finishedDestroyingReadable" /\ f \in Frames
            /\ \A b : Owed(f, b) = 0
        BY <3>1, <3>2, <3>3, FrameStarts
      <3> QED BY <3>4
    <2>2. CASE s \in Sinks
      <3>1. s \in UsedWritables(setting) /\ s \in Readables \cup Writables /\ NoBuffer \in Nat
        BY <1>1, <1>2, <2>2 DEF RequestsReady, Writables, NoBuffer
      <3>2. /\ "finishedDestroyingWritable" \in CallNames \ {"clearPendingWrite", "finalized", "write"}
            /\ "finishedDestroyingWritable" \notin HoldingCalls \cup ReadableCalls \cup TransformCalls
                     \cup SourceCalls \cup BufferCalls
        BY DEF CallNames, HoldingCalls, WritableCalls, TransformCalls, SourceCalls, ReadableCalls,
               BufferCalls
      <3>3. f = Frame("finishedDestroyingWritable", s, NoBuffer)
        BY <2>2, StreamsAssumption DEF Finished
      <3> HIDE DEF f
      <3>4. f \in Started(pool') /\ f.call = "finishedDestroyingWritable" /\ f \in Frames
            /\ \A b : Owed(f, b) = 0
        BY <3>1, <3>2, <3>3, FrameStarts
      <3> QED BY <3>4
    <2> QED BY <2>1, <2>2
  <1> HIDE DEF f
  <1>5. <<f>> \in Seq(Started(pool')) /\ LastOnly(<<f>>)
    BY <1>4, FewStart
  <1>6. \A b : HeldByFrames(<<f>>, b) = 0
    <2>1. ASSUME NEW b PROVE HeldByFrames(<<f>>, b) = Owed(f, b)
      BY <1>4, OneFrame
    <2> QED BY <1>4, <2>1
  <1>7. log' \in Logs(setting)
    BY <1>1, <1>2
  <1>8. CASE s = Source
    <2>1. /\ request' \in Requests(setting) /\ RequestsReady(setting, Full(setting, pool), request')
          /\ request'[Source].buffer = NoBuffer
          /\ \A k \in Sinks : request'[k].buffer = request[k].buffer
          /\ pool' \in Pools(setting) /\ Full(setting, pool') = Full(setting, pool)
          /\ \A b \in BuffersOf(setting) :
                 pool'.refs[b] + Is(request[Source].buffer, b) >= pool.refs[b] + Is(NoBuffer, b)
      BY <1>1, <1>8, FinalizedSource
    <2>2. ASSUME NEW b \in BuffersOf(setting)
          PROVE  pool'.refs[b] + Is(request[Source].buffer, b)
                 >= pool.refs[b] + Is(request'[Source].buffer, b) + HeldByFrames(<<f>>, b)
      <3>1. pool.refs[b] \in Int /\ Is(NoBuffer, b) \in Nat
        BY <1>2, IsNat DEF Pools
      <3>2. pool'.refs[b] + Is(request[Source].buffer, b) >= pool.refs[b] + Is(NoBuffer, b)
        BY <2>1
      <3>3. pool.refs[b] + Is(request'[Source].buffer, b) + HeldByFrames(<<f>>, b)
            = pool.refs[b] + Is(NoBuffer, b)
        BY <1>6, <2>1, <3>1
      <3> QED BY <3>2, <3>3
    <2> QED BY <1>1, <1>3, <1>5, <1>7, <2>1, <2>2, SourceStarts
  <1>9. CASE s \in Sinks
    <2>1. /\ request' \in Requests(setting) /\ RequestsReady(setting, Full(setting, pool), request')
          /\ request'[Source].buffer = request[Source].buffer
          /\ \A k \in Sinks : request'[k].buffer = request[k].buffer
          /\ pool' = pool
      BY <1>1, <1>9, FinalizedSink
    <2>2. SinksBut(request, request', s)
      BY <2>1 DEF SinksBut
    <2>3. ASSUME NEW b \in BuffersOf(setting)
          PROVE  pool'.refs[b] + 2 * Is(request[s].buffer, b)
                 >= pool.refs[b] + 2 * Is(request'[s].buffer, b) + HeldByFrames(<<f>>, b)
      <3>1. pool.refs[b] \in Int /\ Is(request[s].buffer, b) \in Nat
        BY <1>2, IsNat DEF Pools
      <3> QED BY <1>6, <1>9, <2>1, <3>1
    <2> QED BY <1>1, <1>2, <1>3, <1>5, <1>7, <1>9, <2>1, <2>2, <2>3, SinkStarts
  <1> QED BY <1>8, <1>9

LEMMA UserCallsKeeps ==
    ASSUME IInv, NEW usage, NEW s \in Readables \cup Writables,
           NEW c \in {"destroyReadable", "destroyWritable"},
           c = "destroyReadable" => s \in UsedReadables(setting),
           c = "destroyWritable" => s \in UsedWritables(setting),
           UserCalls(usage, s, c)
    PROVE  IInv'
  <1> DEFINE f == Frame(c, s, NoBuffer)
  <1>1. /\ stack = <<>> /\ stack' = <<f>> /\ log' = [log EXCEPT !.asked = @ \cup {usage}]
        /\ usage \in setting.usage
        /\ UNCHANGED <<setting, pool, readable, writable, request, transform, pipe>>
    BY DEF UserCalls, streams
  <1>2. /\ request \in Requests(setting) /\ RequestsReady(setting, Full(setting, pool), request)
        /\ setting \in Settings /\ pool \in Pools(setting) /\ log \in Logs(setting)
    BY Typed
  <1>3. log' \in Logs(setting)
    BY <1>1, <1>2, LogTypes
  <1>4. /\ f \in Started(pool') /\ f.call = c /\ f \in Frames /\ \A b : Owed(f, b) = 0
    <2>1. /\ c \in CallNames \ {"clearPendingWrite", "finalized", "write"}
          /\ c \notin HoldingCalls \cup TransformCalls \cup SourceCalls \cup BufferCalls
          /\ c \in ReadableCalls => c = "destroyReadable"
          /\ c \in WritableCalls => c = "destroyWritable"
      BY DEF CallNames, HoldingCalls, WritableCalls, TransformCalls, SourceCalls, ReadableCalls,
             BufferCalls
    <2>2. NoBuffer \in Nat
      BY DEF NoBuffer
    <2>3. /\ c \in ReadableCalls => s \in UsedReadables(setting)
          /\ c \in WritableCalls => s \in UsedWritables(setting)
      BY <2>1
    <2> QED BY <2>1, <2>2, <2>3, FrameStarts
  <1> HIDE DEF f
  <1>5. <<f>> \in Seq(Started(pool')) /\ LastOnly(<<f>>)
    BY <1>4, FewStart
  <1>6. ASSUME NEW b \in BuffersOf(setting)
        PROVE  pool'.refs[b] + Is(request[Source].buffer, b)
               >= pool.refs[b] + Is(request'[Source].buffer, b) + HeldByFrames(<<f>>, b)
    <2>1. HeldByFrames(<<f>>, b) = Owed(f, b)
      BY <1>4, OneFrame
    <2>2. pool.refs[b] \in Int /\ Is(request[Source].buffer, b) \in Nat
      BY <1>2, IsNat DEF Pools
    <2> QED BY <1>1, <1>4, <2>1, <2>2
  <1>7. /\ request' = request /\ pool' = pool /\ setting' = setting
        /\ UNCHANGED <<setting, readable, writable, transform, pipe>>
    BY <1>1
  <1>8. /\ request' \in Requests(setting) /\ RequestsReady(setting, Full(setting, pool), request')
        /\ \A k \in Sinks : request'[k].buffer = request[k].buffer
        /\ pool' \in Pools(setting) /\ Full(setting, pool) \subseteq Full(setting, pool')
    BY <1>2, <1>7
  <1> QED BY <1>1, <1>3, <1>5, <1>6, <1>7, <1>8, SourceStarts

LEMMA UserStepKeeps == IInv /\ UserStep => IInv'
  <1> SUFFICES ASSUME IInv, UserStep PROVE IInv'
    OBVIOUS
  <1>1. setting \in Settings
    BY Typed
  <1>2. Source \in UsedReadables(setting) /\ Source \in Readables \cup Writables
    BY DEF UsedReadables, Readables
  <1>3. ASSUME NEW k \in UsedSinks PROVE k \in UsedWritables(setting) /\ k \in Readables \cup Writables
    <2>1. PICK i \in DOMAIN setting.sinks : k = setting.sinks[i]
      BY DEF UsedSinks, ToSet
    <2> QED BY <1>1, <2>1, SettingIs DEF UsedWritables
  <1>4. ASSUME NEW usage, UserCalls(usage, Source, "destroyReadable") PROVE IInv'
    BY <1>2, <1>4, UserCallsKeeps
  <1>5. ASSUME NEW usage, NEW k \in UsedSinks, UserCalls(usage, k, "destroyWritable") PROVE IInv'
    BY <1>3, <1>5, UserCallsKeeps
  <1>6. \/ UserCalls("destroySource", Source, "destroyReadable")
        \/ UserCalls("destroyClosed", Source, "destroyReadable")
        \/ \E k \in UsedSinks : \/ UserCalls("destroySink", k, "destroyWritable")
                               \/ UserCalls("destroyClosed", k, "destroyWritable")
    BY DEF UserStep
  <1>7. CASE \E k \in UsedSinks : \/ UserCalls("destroySink", k, "destroyWritable")
                                 \/ UserCalls("destroyClosed", k, "destroyWritable")
    BY <1>5, <1>7
  <1> HIDE DEF UserCalls
  <1> QED BY <1>4, <1>6, <1>7

-----------------------------------------------------------------------------
(* Transforms                                                              *)

Parts(t, fin, x, b) == Input(t, x, b) + Output(t, x, fin, b)

LEMMA PartsOf ==
    ASSUME NEW t, NEW fin, NEW x, NEW b
    PROVE  /\ Parts(t, fin, x, b) \in Nat
           /\ t[x].state \notin {"Processing", "Finalizing"} => Parts(t, fin, x, b) = 0
           /\ t[x].state = "Processing" =>
                  /\ Parts(t, fin, x, b) <= Is(t[x].input, b) + Is(t[x].output, b)
                  /\ x \notin fin => Parts(t, fin, x, b) = Is(t[x].input, b) + Is(t[x].output, b)
           /\ t[x].state = "Finalizing" =>
                  /\ Parts(t, fin, x, b) <= Is(t[x].output, b)
                  /\ x \notin fin => Parts(t, fin, x, b) = Is(t[x].output, b)
  BY DEF Parts, Input, Output, Is

LEMMA KeptParts ==
    ASSUME IInv, NEW new, NEW x \in Transforms, NEW fin2,
           TransformsBut(transform, new, Finalizers(stack), fin2, x), NEW b
    PROVE  Kept(readable, writable, request, new, pipe.pending, Clearing(stack), fin2, b)
           = KeptOf(b) - Parts(transform, Finalizers(stack), x, b) + Parts(new, fin2, x, b)
  <1> DEFINE full == Full(setting, pool)
             r == readable
             w == writable
             q == request
             slots == pipe.pending
             Y == Slots(setting, full)
             clearing == Clearing(stack)
             fin == Finalizers(stack)
             old == transform
  <1>1. /\ r \in ReadablesOver(full) /\ w \in WritablesOver(full) /\ slots \in Seq(Y)
        /\ TransformsBut(old, new, fin, fin2, x)
    BY Typed DEF Pipes
  <1>2. KeptOf(b) = Kept(r, w, q, old, slots, clearing, fin, b)
    BY DEF KeptOf
  <1>3. KeptOf(b) \in Nat
    BY KeptTyped
  <1> HIDE DEF full, r, w, q, slots, Y, clearing, fin, old
  <1>4. /\ Kept(r, w, q, new, slots, clearing, fin2, b)
           = Kept(r, w, q, old, slots, clearing, fin, b)
             + (Input(new, x, b) + Output(new, x, fin2, b) - Input(old, x, b) - Output(old, x, fin, b))
        /\ Input(old, x, b) \in Nat /\ Input(new, x, b) \in Nat
        /\ Output(old, x, fin, b) \in Nat /\ Output(new, x, fin2, b) \in Nat
    BY <1>1, KeptTransform
  <1> DEFINE k == Kept(r, w, q, old, slots, clearing, fin, b)
             k2 == Kept(r, w, q, new, slots, clearing, fin2, b)
  <1>5. k \in Nat
    BY <1>2, <1>3
  <1>6. k2 = k + (Input(new, x, b) + Output(new, x, fin2, b) - Input(old, x, b) - Output(old, x, fin, b))
    BY <1>4
  <1> HIDE DEF k, k2
  <1>7. k2 = k - Parts(old, fin, x, b) + Parts(new, fin2, x, b)
    BY <1>4, <1>5, <1>6 DEF Parts
  <1> QED BY <1>2, <1>7 DEF k, k2, r, w, q, slots, clearing, fin, old

LEMMA TransformMoves ==
    ASSUME IInv, stack # <<>>, Head(stack).call \notin {"clearPendingWrite", "finalized"},
           NEW x \in Transforms,
           transform' \in TransformsOver(setting),
           TransformsReady(setting, Full(setting, pool), transform'),
           TransformsBut(transform, transform', Finalizers(stack), Finalizers(stack), x),
           pool' \in Pools(setting), Full(setting, pool) \subseteq Full(setting, pool'),
           NEW F \in Seq(Handed(pool')), Call(F), \A i \in 1 .. Len(F) : F[i].call # "write",
           \A b \in BuffersOf(setting) :
               pool'.refs[b] + Parts(transform, Finalizers(stack), x, b) + Owed(Head(stack), b)
               >= pool.refs[b] + Parts(transform', Finalizers(stack), x, b) + HeldByFrames(F, b),
           UNCHANGED <<setting, readable, writable, request, pipe, log>>
    PROVE  IInv'
  <1>2. TypesInv'
    BY Typed, TypesKept
  <1>5. /\ readable' = readable /\ writable' = writable /\ request' = request /\ pipe' = pipe
        /\ setting' = setting
    OBVIOUS
  <1>4. ASSUME NEW b \in BuffersOf(setting)
        PROVE  pool'.refs[b] + KeptOf(b) + Owed(Head(stack), b)
               >= pool.refs[b] + Kept(readable', writable', request', transform', pipe'.pending,
                                      Clearing(stack), Finalizers(stack), b)
                  + HeldByFrames(F, b)
    <2> DEFINE old == Parts(transform, Finalizers(stack), x, b)
               new == Parts(transform', Finalizers(stack), x, b)
               after == Kept(readable', writable', request', transform', pipe'.pending,
                             Clearing(stack), Finalizers(stack), b)
    <2>1. after = KeptOf(b) - old + new
      BY <1>5, KeptParts
    <2>2. old \in Nat /\ new \in Nat
      BY PartsOf
    <2>3. /\ KeptOf(b) \in Nat /\ pool.refs[b] \in Int /\ pool'.refs[b] \in Int
          /\ Owed(Head(stack), b) \in Nat
      BY KeptTyped, Typed, OwedNat DEF Pools
    <2>4. pool'.refs[b] + old + Owed(Head(stack), b) >= pool.refs[b] + new + HeldByFrames(F, b)
      OBVIOUS
    <2>5. HeldByFrames(F, b) \in Nat
      <3>1. Handed(pool') \subseteq Frames
        BY DEF Handed
      <3>2. F \in Seq(Frames)
        BY <3>1
      <3> QED BY <3>2, FramesCount
    <2> HIDE DEF old, new, after
    <2>6. pool'.refs[b] + KeptOf(b) + Owed(Head(stack), b) >= pool.refs[b] + after + HeldByFrames(F, b)
      BY <2>1, <2>2, <2>3, <2>4, <2>5, Balanced
    <2> QED BY <2>6 DEF after
  <1>6. Covers(F)
    BY <1>4 DEF Covers
  <1> QED BY <1>2, <1>5, <1>6, Moves

\* The same with frames that hold nothing.
LEMMA TransformSettles ==
    ASSUME IInv, stack # <<>>, Head(stack).call \notin {"clearPendingWrite", "finalized"},
           NEW x \in Transforms,
           transform' \in TransformsOver(setting),
           TransformsReady(setting, Full(setting, pool), transform'),
           TransformsBut(transform, transform', Finalizers(stack), Finalizers(stack), x),
           pool' \in Pools(setting), Full(setting, pool') = Full(setting, pool),
           NEW F \in Seq(HarmlessFrames), Call(F),
           \A b \in BuffersOf(setting) :
               pool'.refs[b] + Parts(transform, Finalizers(stack), x, b) + Owed(Head(stack), b)
               >= pool.refs[b] + Parts(transform', Finalizers(stack), x, b),
           UNCHANGED <<setting, readable, writable, request, pipe, log>>
    PROVE  IInv'
  <1>1. F \in Seq(Handed(pool'))
    BY Hands
  <1>2. \A i \in 1 .. Len(F) : F[i].call # "write"
    <2>1. \A i \in 1 .. Len(F) : F[i] \in HarmlessFrames
      BY ElementOfSeq
    <2> QED BY <2>1 DEF HarmlessFrames, Harmless, Plain, HoldingCalls
  <1>3. ASSUME NEW b \in BuffersOf(setting)
        PROVE  pool'.refs[b] + Parts(transform, Finalizers(stack), x, b) + Owed(Head(stack), b)
               >= pool.refs[b] + Parts(transform', Finalizers(stack), x, b) + HeldByFrames(F, b)
    <2>1. HeldByFrames(F, b) = 0
      BY HarmlessCount
    <2>2. pool.refs[b] \in Int /\ Parts(transform', Finalizers(stack), x, b) \in Nat
      BY Typed, PartsOf DEF Pools
    <2> QED BY <2>1, <2>2
  <1> QED BY <1>1, <1>2, <1>3, TransformMoves

WithTransform(x, v, n, m) ==
    [transform EXCEPT ![x].state = v, ![x].input = n, ![x].output = m]

LEMMA TransformWorks ==
    ASSUME IInv, NEW x \in UsedTransforms(setting), NEW v \in TransformStates,
           NEW n \in BuffersOf(setting) \cup {NoBuffer}, NEW m \in BuffersOf(setting) \cup {NoBuffer},
           v = "Processing" => n \in Full(setting, pool),
           v \in {"Processing", "Finalizing"} => m # NoBuffer,
           NEW t, t = WithTransform(x, v, n, m)
    PROVE  /\ t \in TransformsOver(setting) /\ TransformsReady(setting, Full(setting, pool), t)
           /\ t[x].state = v /\ t[x].input = n /\ t[x].output = m
           /\ \A fin : TransformsBut(transform, t, fin, fin, x)
           /\ x \in Transforms
  <1>1. /\ setting \in Settings /\ transform \in TransformsOver(setting)
        /\ TransformsReady(setting, Full(setting, pool), transform)
    BY Typed
  <1>2. x \in Transforms
    BY <1>1, SettingIs
  <1>3. t \in TransformsOver(setting)
    <2> DEFINE some == BuffersOf(setting) \cup {NoBuffer}
               R == [state : TransformStates, input : some, output : some, made : Nat, final : Nat]
               r == [transform[x] EXCEPT !.state = v, !.input = n, !.output = m]
    <2>1. transform \in [Transforms -> R] /\ transform[x] \in R
      BY <1>1, <1>2 DEF TransformsOver
    <2>2. n \in some /\ m \in some
      OBVIOUS
    <2> HIDE DEF some
    <2>3. r \in R
      BY <2>1, <2>2
    <2>4. t = [transform EXCEPT ![x] = r]
      BY DEF WithTransform
    <2> HIDE DEF R, r
    <2>5. t \in [Transforms -> R]
      BY <1>2, <2>1, <2>3, <2>4
    <2> QED BY <2>5 DEF TransformsOver, R, some
  <1>4. /\ t[x].state = v /\ t[x].input = n /\ t[x].output = m
        /\ \A y \in Transforms \ {x} : t[y] = transform[y]
    BY <1>1, <1>2 DEF TransformsOver, WithTransform
  <1>5. TransformsReady(setting, Full(setting, pool), t)
    BY <1>1, <1>4 DEF TransformsReady
  <1>6. \A fin : TransformsBut(transform, t, fin, fin, x)
    BY <1>4 DEF TransformsBut
  <1> QED BY <1>2, <1>3, <1>4, <1>5, <1>6


LEMMA AsyncWriteTransformKeeps == IInv /\ AsyncWriteTransform => IInv'
  <1> SUFFICES ASSUME IInv, AsyncWriteTransform PROVE IInv'
    OBVIOUS
  <1> DEFINE x == this
             a == arg
             m == NewBuffer
             o == transform[this].output
             fin == Finalizers(stack)
  <1>1. /\ stack # <<>> /\ Head(stack).call = "asyncWrite" /\ Head(stack).call \in HoldingCalls
        /\ Head(stack).call \notin {"clearPendingWrite", "finalized"}
        /\ x \in Transforms
        /\ UNCHANGED <<setting, readable, writable, request, pipe, log>>
    BY DEF AsyncWriteTransform, Running, HoldingCalls, data
  <1>2. /\ setting \in Settings /\ pool \in Pools(setting) /\ transform \in TransformsOver(setting)
        /\ TransformsReady(setting, Full(setting, pool), transform)
        /\ Full(setting, pool) \subseteq BuffersOf(setting)
    BY Typed
  <1>3. /\ x \in UsedTransforms(setting) /\ x \in UsedWritables(setting)
        /\ x \in Readables \cup Writables
        /\ a \in Full(setting, pool) /\ a \in BuffersOf(setting) /\ a \in Nat
    <2>1. x \in UsedWritables(setting) /\ a \in Full(setting, pool) /\ a \in BuffersOf(setting)
          /\ x \in Readables \cup Writables
      BY <1>1, TopCall DEF WritableCalls, BufferCalls
    <2>2. x \in UsedTransforms(setting)
      BY <1>1, <1>2, <2>1, SettingIs
    <2> QED BY <1>1, <2>1, <2>2 DEF BuffersOf
  <1>4. o \in BuffersOf(setting) \cup {NoBuffer} /\ transform[x].state \in TransformStates
    BY <1>1, <1>2 DEF TransformsOver
  <1>5. /\ \A b : Owed(Head(stack), b) = Is(a, b) /\ Is(a, b) \in Nat
        /\ \A b \in BuffersOf(setting) : pool.refs[b] \in Int
    BY <1>1, <1>2, IsNat, Owes DEF Pools
  <1>6. \/ /\ \/ Call(<<Error(x, "transformCannotBeCalled")>>)
              \/ Call(<<Error(x, "logicalError")>>)
           /\ pool' = pool /\ transform' = transform
        \/ /\ transform[x].state \in {"None", "Paused"} /\ FreeBuffers # {}
           /\ transform' = WithTransform(x, "Processing", a, m)
           /\ pool' = [pool EXCEPT !.refs[m] = 1] /\ Call(<<>>)
        \/ /\ transform[x].state \in {"None", "Paused"}
           /\ transform' = WithTransform(x, "Paused", a, o) /\ pool' = pool
           /\ Call(<<Frame("pause", x, NoBuffer), Frame("unshiftWrite", x, a)>>)
    BY <1>4 DEF AsyncWriteTransform, Working, WithTransform, Return, T, Do, TransformStates
  <1>7. CASE /\ \/ Call(<<Error(x, "transformCannotBeCalled")>>)
                \/ Call(<<Error(x, "logicalError")>>)
             /\ pool' = pool /\ transform' = transform
    <2>1. /\ <<Error(x, "transformCannotBeCalled")>> \in Seq(HarmlessFrames)
          /\ <<Error(x, "logicalError")>> \in Seq(HarmlessFrames)
      BY <1>3, Errors DEF ErrorMessages, Assertions
    <2>2. \E F \in Seq(HarmlessFrames) : Call(F)
      BY <1>7, <2>1
    <2>3. TransformsBut(transform, transform', fin, fin, x)
      BY <1>7 DEF TransformsBut
    <2>4. ASSUME NEW b \in BuffersOf(setting)
          PROVE  pool'.refs[b] + Parts(transform, fin, x, b) + Owed(Head(stack), b)
                 >= pool.refs[b] + Parts(transform', fin, x, b)
      <3>1. Parts(transform, fin, x, b) \in Nat
        BY PartsOf
      <3> QED BY <1>5, <1>7, <3>1
    <2> HIDE DEF x, fin
    <2> QED BY <1>1, <1>2, <1>7, <2>2, <2>3, <2>4, TransformSettles DEF fin
  <1>8. CASE /\ transform[x].state \in {"None", "Paused"} /\ FreeBuffers # {}
             /\ transform' = WithTransform(x, "Processing", a, m)
             /\ pool' = [pool EXCEPT !.refs[m] = 1] /\ Call(<<>>)
    <2>1. m \in BuffersOf(setting) /\ pool.refs[m] = 0 /\ m # NoBuffer
      BY <1>2, <1>8, FreeBuffer, SettingIs DEF NoBuffer
    <2> HIDE DEF x, a, m, o, fin
    <2>2. /\ pool' \in Pools(setting) /\ Full(setting, pool') = Full(setting, pool)
          /\ \A c \in BuffersOf(setting) : pool'.refs[c] = pool.refs[c] + Is(m, c)
      BY <1>2, <1>8, <2>1, TakenEmpty
    <2>3. /\ transform' \in TransformsOver(setting)
          /\ TransformsReady(setting, Full(setting, pool), transform')
          /\ transform'[x].state = "Processing" /\ transform'[x].input = a /\ transform'[x].output = m
          /\ TransformsBut(transform, transform', fin, fin, x)
      <3> DEFINE v == "Processing"
      <3>1. v \in TransformStates /\ transform' = WithTransform(x, v, a, m)
        BY <1>8 DEF TransformStates
      <3> HIDE DEF v
      <3>2. /\ transform' \in TransformsOver(setting)
            /\ TransformsReady(setting, Full(setting, pool), transform')
            /\ transform'[x].state = v /\ transform'[x].input = a /\ transform'[x].output = m
            /\ TransformsBut(transform, transform', fin, fin, x)
        BY <1>3, <2>1, <3>1, TransformWorks
      <3> QED BY <3>2 DEF v
    <2>4. ASSUME NEW b \in BuffersOf(setting)
          PROVE  pool'.refs[b] + Parts(transform, fin, x, b) + Owed(Head(stack), b)
                 >= pool.refs[b] + Parts(transform', fin, x, b)
      <3>1. Parts(transform, fin, x, b) \in Nat /\ Is(m, b) \in Nat
        BY PartsOf, IsNat
      <3>2. Parts(transform', fin, x, b) <= Is(a, b) + Is(m, b) /\ Parts(transform', fin, x, b) \in Nat
        BY <2>3, PartsOf
      <3>3. pool'.refs[b] = pool.refs[b] + Is(m, b) /\ Owed(Head(stack), b) = Is(a, b)
        BY <1>5, <2>2
      <3> QED BY <1>5, <3>1, <3>2, <3>3
    <2>5. <<>> \in Seq(HarmlessFrames)
      OBVIOUS
    <2> QED BY <1>1, <1>8, <2>2, <2>3, <2>4, <2>5, TransformSettles DEF fin
  <1>9. CASE /\ transform[x].state \in {"None", "Paused"}
             /\ transform' = WithTransform(x, "Paused", a, o) /\ pool' = pool
             /\ Call(<<Frame("pause", x, NoBuffer), Frame("unshiftWrite", x, a)>>)
    <2> DEFINE f == Frame("pause", x, NoBuffer)
               g == Frame("unshiftWrite", x, a)
    <2> HIDE DEF x, a, m, o, fin
    <2>1. f \in Handed(pool) /\ f \in Frames /\ f.call = "pause" /\ \A b : Owed(f, b) = 0
      <3>1. /\ "pause" \in CallNames \ {"afterWork", "clearPendingWrite", "finalized"}
            /\ "pause" \in WriteCalls
            /\ "pause" \notin HoldingCalls \cup WritableCalls \cup TransformCalls \cup SourceCalls
                              \cup BufferCalls
        BY DEF CallNames, HoldingCalls, WritableCalls, TransformCalls, SourceCalls, ReadableCalls,
               BufferCalls, WriteCalls
      <3>2. NoBuffer \in Nat /\ x \in UsedReadables(setting)
        BY <1>3 DEF NoBuffer, UsedReadables
      <3> QED BY <1>3, <3>1, <3>2, Hand, Owes
    <2>2. g \in Handed(pool) /\ g \in Frames /\ g.call = "unshiftWrite" /\ \A b : Owed(g, b) = Is(a, b)
      <3>1. /\ "unshiftWrite" \in CallNames \ {"afterWork", "clearPendingWrite", "finalized"}
            /\ "unshiftWrite" \in WriteCalls /\ "unshiftWrite" \in HoldingCalls
            /\ "unshiftWrite" \notin ReadableCalls \cup SourceCalls
        BY DEF CallNames, HoldingCalls, WritableCalls, TransformCalls, SourceCalls, ReadableCalls,
               BufferCalls, WriteCalls
      <3> QED BY <1>3, <3>1, Hand, Owes
    <2> HIDE DEF f, g
    <2>3. <<f, g>> \in Seq(Handed(pool')) /\ \A i \in 1 .. Len(<<f, g>>) : <<f, g>>[i].call # "write"
      <3>1. f \in Handed(pool') /\ g \in Handed(pool')
        BY <1>9, <2>1, <2>2
      <3> HIDE DEF Handed
      <3> QED BY <2>1, <2>2, <3>1
    <2>4. /\ transform' \in TransformsOver(setting)
          /\ TransformsReady(setting, Full(setting, pool), transform')
          /\ transform'[x].state = "Paused"
          /\ TransformsBut(transform, transform', fin, fin, x)
      <3> DEFINE v == "Paused"
      <3>1. v \in TransformStates /\ transform' = WithTransform(x, v, a, o)
            /\ v \notin {"Processing", "Finalizing"}
        BY <1>9 DEF TransformStates
      <3> HIDE DEF v
      <3>2. /\ transform' \in TransformsOver(setting)
            /\ TransformsReady(setting, Full(setting, pool), transform')
            /\ transform'[x].state = v
            /\ TransformsBut(transform, transform', fin, fin, x)
        BY <1>3, <1>4, <3>1, TransformWorks
      <3> QED BY <3>2 DEF v
    <2>5. ASSUME NEW b \in BuffersOf(setting)
          PROVE  pool'.refs[b] + Parts(transform, fin, x, b) + Owed(Head(stack), b)
                 >= pool.refs[b] + Parts(transform', fin, x, b) + HeldByFrames(<<f, g>>, b)
      <3>1. Parts(transform, fin, x, b) \in Nat /\ Parts(transform', fin, x, b) = 0
        BY <2>4, PartsOf
      <3>2. HeldByFrames(<<f, g>>, b) = Is(a, b)
        <4>1. HeldByFrames(<<f, g>>, b) = Owed(f, b) + Owed(g, b)
          BY <2>1, <2>2, TwoFrames
        <4> QED BY <1>5, <2>1, <2>2, <4>1
      <3> QED BY <1>5, <1>9, <3>1, <3>2
    <2>6. Call(<<f, g>>) /\ pool' \in Pools(setting) /\ Full(setting, pool) \subseteq Full(setting, pool')
      BY <1>2, <1>9 DEF f, g
    <2> QED BY <1>1, <2>3, <2>4, <2>5, <2>6, TransformMoves DEF fin
  <1> QED BY <1>6, <1>7, <1>8, <1>9

LEMMA TryFinalizeKeeps ==
    ASSUME IInv, stack # <<>>, Plain(Head(stack)), this \in UsedTransforms(setting), TryFinalize,
           UNCHANGED <<setting, readable, writable, request, pipe, log>>
    PROVE  IInv'
  <1> DEFINE x == this
             m == NewBuffer
             n == transform[this].input
             o == transform[this].output
             fin == Finalizers(stack)
  <1>1. Head(stack).call \notin {"clearPendingWrite", "finalized"} /\ x \in UsedTransforms(setting)
    BY DEF Plain
  <1>2. /\ setting \in Settings /\ pool \in Pools(setting) /\ transform \in TransformsOver(setting)
        /\ x \in Transforms /\ x \in Readables \cup Writables
    BY <1>1, Typed, SettingIs DEF Readables
  <1>4. n \in BuffersOf(setting) \cup {NoBuffer} /\ o \in BuffersOf(setting) \cup {NoBuffer}
    BY <1>2 DEF TransformsOver
  <1>5. /\ \A b : Owed(Head(stack), b) \in Nat
        /\ \A b \in BuffersOf(setting) : pool.refs[b] \in Int
    BY <1>2, OwedNat DEF Pools
  <1>6. \/ /\ FreeBuffers # {} /\ transform' = WithTransform(x, "Finalizing", n, m)
           /\ pool' = [pool EXCEPT !.refs[m] = 1] /\ Call(<<>>)
        \/ /\ transform' = WithTransform(x, "Paused", n, o) /\ pool' = pool
           /\ Call(<<Frame("pause", x, NoBuffer)>>)
    BY DEF TryFinalize, Working, WithTransform, Return, T, Do
  <1>8. CASE /\ FreeBuffers # {} /\ transform' = WithTransform(x, "Finalizing", n, m)
             /\ pool' = [pool EXCEPT !.refs[m] = 1] /\ Call(<<>>)
    <2>1. m \in BuffersOf(setting) /\ pool.refs[m] = 0 /\ m # NoBuffer
      BY <1>2, <1>8, FreeBuffer, SettingIs DEF NoBuffer
    <2> HIDE DEF x, n, m, o, fin
    <2>2. /\ pool' \in Pools(setting) /\ Full(setting, pool') = Full(setting, pool)
          /\ \A c \in BuffersOf(setting) : pool'.refs[c] = pool.refs[c] + Is(m, c)
      BY <1>2, <1>8, <2>1, TakenEmpty
    <2>3. /\ transform' \in TransformsOver(setting)
          /\ TransformsReady(setting, Full(setting, pool), transform')
          /\ transform'[x].state = "Finalizing" /\ transform'[x].output = m
          /\ TransformsBut(transform, transform', fin, fin, x)
      <3> DEFINE v == "Finalizing"
      <3>1. v \in TransformStates /\ transform' = WithTransform(x, v, n, m) /\ v # "Processing"
        BY <1>8 DEF TransformStates
      <3> HIDE DEF v
      <3>2. /\ transform' \in TransformsOver(setting)
            /\ TransformsReady(setting, Full(setting, pool), transform')
            /\ transform'[x].state = v /\ transform'[x].output = m
            /\ TransformsBut(transform, transform', fin, fin, x)
        BY <1>1, <1>4, <2>1, <3>1, TransformWorks
      <3> QED BY <3>2 DEF v
    <2>4. ASSUME NEW b \in BuffersOf(setting)
          PROVE  pool'.refs[b] + Parts(transform, fin, x, b) + Owed(Head(stack), b)
                 >= pool.refs[b] + Parts(transform', fin, x, b)
      <3>1. Parts(transform, fin, x, b) \in Nat /\ Is(m, b) \in Nat
        BY PartsOf, IsNat
      <3>2. Parts(transform', fin, x, b) <= Is(m, b) /\ Parts(transform', fin, x, b) \in Nat
        BY <2>3, PartsOf
      <3>3. pool'.refs[b] = pool.refs[b] + Is(m, b)
        BY <2>2
      <3> QED BY <1>5, <3>1, <3>2, <3>3
    <2>5. <<>> \in Seq(HarmlessFrames)
      OBVIOUS
    <2> QED BY <1>1, <1>2, <1>8, <2>2, <2>3, <2>4, <2>5, TransformSettles DEF fin
  <1>9. CASE /\ transform' = WithTransform(x, "Paused", n, o) /\ pool' = pool
             /\ Call(<<Frame("pause", x, NoBuffer)>>)
    <2> DEFINE f == Frame("pause", x, NoBuffer)
    <2>1. f \in HarmlessFrames
      <3>1. /\ "pause" \in CallNames \ {"afterWork", "clearPendingWrite", "finalized"}
            /\ "pause" \in WriteCalls
            /\ "pause" \notin HoldingCalls \cup WritableCalls \cup TransformCalls \cup SourceCalls
                              \cup BufferCalls
        BY DEF CallNames, HoldingCalls, WritableCalls, TransformCalls, SourceCalls, ReadableCalls,
               BufferCalls, WriteCalls
      <3>2. NoBuffer \in Nat /\ x \in UsedReadables(setting)
        BY <1>1 DEF NoBuffer, UsedReadables
      <3> HIDE DEF x
      <3> QED BY <1>2, <3>1, <3>2, Hand
    <2> HIDE DEF x, n, m, o, fin, f
    <2>4. /\ transform' \in TransformsOver(setting)
          /\ TransformsReady(setting, Full(setting, pool), transform')
          /\ transform'[x].state = "Paused"
          /\ TransformsBut(transform, transform', fin, fin, x)
      <3> DEFINE v == "Paused"
      <3>1. v \in TransformStates /\ transform' = WithTransform(x, v, n, o)
            /\ v \notin {"Processing", "Finalizing"} /\ v # "Processing"
        BY <1>9 DEF TransformStates
      <3> HIDE DEF v
      <3>2. /\ transform' \in TransformsOver(setting)
            /\ TransformsReady(setting, Full(setting, pool), transform')
            /\ transform'[x].state = v
            /\ TransformsBut(transform, transform', fin, fin, x)
        BY <1>1, <1>4, <3>1, TransformWorks
      <3> QED BY <3>2 DEF v
    <2>5. ASSUME NEW b \in BuffersOf(setting)
          PROVE  pool'.refs[b] + Parts(transform, fin, x, b) + Owed(Head(stack), b)
                 >= pool.refs[b] + Parts(transform', fin, x, b)
      <3>1. Parts(transform, fin, x, b) \in Nat /\ Parts(transform', fin, x, b) = 0
        BY <2>4, PartsOf
      <3> QED BY <1>5, <1>9, <3>1
    <2>6. /\ Call(<<f>>) /\ pool' \in Pools(setting) /\ Full(setting, pool') = Full(setting, pool)
          /\ <<f>> \in Seq(HarmlessFrames)
      BY <1>2, <1>9, <2>1 DEF f
    <2> QED BY <1>1, <1>2, <2>4, <2>5, <2>6, TransformSettles DEF fin
  <1> QED BY <1>6, <1>8, <1>9

LEMMA CanEndTransformKeeps == IInv /\ CanEndTransform => IInv'
  <1> SUFFICES ASSUME IInv, CanEndTransform PROVE IInv'
    OBVIOUS
  <1>1. /\ stack # <<>> /\ Head(stack).call = "canEndWritable" /\ Plain(Head(stack))
        /\ this \in Transforms
        /\ UNCHANGED <<setting, readable, writable, request, pipe, log>>
    BY DEF CanEndTransform, Running, HoldingCalls, data, Plain
  <1>2. this \in UsedTransforms(setting)
    <2>1. this \in UsedWritables(setting) /\ setting \in Settings
      BY <1>1, TopCall, Typed DEF WritableCalls
    <2> QED BY <1>1, <2>1, SettingIs
  <1>3. CASE TryFinalize
    BY <1>1, <1>2, <1>3, TryFinalizeKeeps
  <1>4. CASE ~TryFinalize
    <2>1. Call(<<>>) /\ UNCHANGED <<pool, transform>>
      BY <1>4 DEF CanEndTransform, Return
    <2>2. <<>> \in Seq(HarmlessFrames)
      OBVIOUS
    <2> QED BY <1>1, <2>1, <2>2, OnlyCalls
  <1> QED BY <1>3, <1>4

LEMMA TryFinalizeAgainKeeps == IInv /\ TryFinalizeAgain => IInv'
  <1> SUFFICES ASSUME IInv, TryFinalizeAgain PROVE IInv'
    OBVIOUS
  <1>1. /\ stack # <<>> /\ Head(stack).call = "tryFinalize" /\ Plain(Head(stack)) /\ TryFinalize
        /\ UNCHANGED <<setting, readable, writable, request, pipe, log>>
    BY DEF TryFinalizeAgain, Running, HoldingCalls, data, Plain
  <1>2. this \in UsedTransforms(setting)
    BY <1>1, TopCall DEF TransformCalls
  <1> QED BY <1>1, <1>2, TryFinalizeKeeps

-----------------------------------------------------------------------------
(* The work of a transform                                                 *)

LEMMA TransformStarts ==
    ASSUME IInv, stack = <<>>,
           transform' \in TransformsOver(setting),
           TransformsReady(setting, Full(setting, pool), transform'),
           \A y \in Transforms : /\ transform'[y].state = transform[y].state
                                 /\ transform'[y].input = transform[y].input
                                 /\ transform'[y].output = transform[y].output,
           pool' \in Pools(setting), Full(setting, pool) \subseteq Full(setting, pool'),
           pool'.refs = pool.refs,
           NEW F \in Seq(Started(pool')), LastOnly(F), stack' = F, \A b : HeldByFrames(F, b) = 0,
           UNCHANGED <<setting, readable, writable, request, pipe, log>>
    PROVE  IInv'
  <1>1. TypesInv'
    BY Typed, TypesKept
  <1>2. /\ readable' = readable /\ writable' = writable /\ request' = request /\ pipe' = pipe
        /\ setting' = setting
    OBVIOUS
  <1>3. ASSUME NEW b \in BuffersOf(setting)
        PROVE  pool'.refs[b] + KeptOf(b)
               >= pool.refs[b] + Kept(readable', writable', request', transform', pipe'.pending,
                                      Clearing(stack), Finalizers(stack), b)
                  + HeldByFrames(F, b)
    <2>1. /\ HeldAsInput(transform', b) = HeldAsInput(transform, b)
          /\ HeldAsOutput(transform', Finalizers(stack), b) = HeldAsOutput(transform, Finalizers(stack), b)
      <3> DEFINE t2 == transform'
                 t == transform
                 fin == Finalizers(stack)
      <3>1. \A y \in Transforms : /\ t2[y].state = t[y].state /\ t2[y].input = t[y].input
                                  /\ t2[y].output = t[y].output
        OBVIOUS
      <3> HIDE DEF t2, t, fin
      <3>2. HeldAsInput(t2, b) = HeldAsInput(t, b) /\ HeldAsOutput(t2, fin, b) = HeldAsOutput(t, fin, b)
        BY <3>1, SameTransforms
      <3> QED BY <3>2 DEF t2, t, fin
    <2>2. Kept(readable', writable', request', transform', pipe'.pending,
               Clearing(stack), Finalizers(stack), b) = KeptOf(b)
      BY <1>2, <2>1 DEF Kept, KeptOf, ByTransforms
    <2>3. KeptOf(b) \in Nat /\ pool.refs[b] \in Int /\ HeldByFrames(F, b) = 0
      BY KeptTyped, Typed DEF Pools
    <2> HIDE DEF KeptOf, Kept
    <2> QED BY <2>2, <2>3
  <1> QED BY <1>1, <1>2, <1>3, Starts

\* An item is a positive number.
LEMMA Item ==
    ASSUME NEW n \in Nat, NEW m \in Nat, NEW k \in Nat
    PROVE  n * m + k + 1 \in Nat \ {0}
  <1>1. n * m \in Nat
    OBVIOUS
  <1> DEFINE p == n * m
  <1>2. p \in Nat
    BY <1>1
  <1> HIDE DEF p
  <1>3. p + k + 1 \in Nat \ {0}
    BY <1>2
  <1> QED BY <1>3 DEF p

LEMMA WorkCompletesKeeps ==
    ASSUME IInv, NEW x \in Transforms, stack = <<>>,
           transform[x].state \in {"Processing", "Finalizing"},
           NEW item \in Nat \ {0}, Filled(x, item) \/ Consumed(x),
           \/ transform' = [transform EXCEPT ![x].made = @ + 1]
           \/ transform' = [transform EXCEPT ![x].final = @ + 1],
           UNCHANGED <<readable, writable, data>>
    PROVE  IInv'
  <1> DEFINE m == transform[x].output
             f == Frame("push", x, m)
             g == Frame("afterWork", x, NoBuffer)
  <1>1. UNCHANGED <<setting, readable, writable, request, pipe, log>>
    BY DEF data
  <1>2. /\ setting \in Settings /\ pool \in Pools(setting) /\ transform \in TransformsOver(setting)
        /\ TransformsReady(setting, Full(setting, pool), transform)
    BY Typed
  <1>3. /\ transform' \in TransformsOver(setting)
        /\ \A y \in Transforms : /\ transform'[y].state = transform[y].state
                                 /\ transform'[y].input = transform[y].input
                                 /\ transform'[y].output = transform[y].output
    <2>1. CASE transform' = [transform EXCEPT ![x].made = @ + 1]
      <3> DEFINE k == transform[x].made + 1
      <3>1. k \in Nat /\ transform' = [transform EXCEPT ![x].made = k]
        BY <1>2, <2>1 DEF TransformsOver
      <3> HIDE DEF k
      <3>2. transform' \in TransformsOver(setting)
        BY <1>2, <3>1 DEF TransformsOver
      <3>3. \A y \in Transforms \ {x} : transform'[y] = transform[y]
        BY <1>2, <3>1 DEF TransformsOver
      <3>4. /\ transform'[x].state = transform[x].state /\ transform'[x].input = transform[x].input
            /\ transform'[x].output = transform[x].output
        BY <1>2, <3>1 DEF TransformsOver
      <3> QED BY <3>2, <3>3, <3>4
    <2>2. CASE transform' = [transform EXCEPT ![x].final = @ + 1]
      <3> DEFINE k == transform[x].final + 1
      <3>1. k \in Nat /\ transform' = [transform EXCEPT ![x].final = k]
        BY <1>2, <2>2 DEF TransformsOver
      <3> HIDE DEF k
      <3>2. transform' \in TransformsOver(setting)
        BY <1>2, <3>1 DEF TransformsOver
      <3>3. \A y \in Transforms \ {x} : transform'[y] = transform[y]
        BY <1>2, <3>1 DEF TransformsOver
      <3>4. /\ transform'[x].state = transform[x].state /\ transform'[x].input = transform[x].input
            /\ transform'[x].output = transform[x].output
        BY <1>2, <3>1 DEF TransformsOver
      <3> QED BY <3>2, <3>3, <3>4
    <2> QED BY <2>1, <2>2
  <1>4. TransformsReady(setting, Full(setting, pool), transform')
    BY <1>2, <1>3 DEF TransformsReady
  <1>5. /\ m \in BuffersOf(setting) /\ m \in Nat /\ x \in UsedTransforms(setting)
        /\ x \in UsedReadables(setting) /\ x \in Readables \cup Writables
    <2>1. m \in BuffersOf(setting) \cup {NoBuffer} /\ m # NoBuffer /\ x \in UsedTransforms(setting)
      BY <1>2 DEF TransformsOver, TransformsReady
    <2>2. m \in BuffersOf(setting)
      BY <2>1
    <2> QED BY <2>1, <2>2 DEF BuffersOf, UsedReadables, Readables
  <1>6. g \in Started(pool') /\ g.call = "afterWork" /\ g \in Frames /\ \A b : Owed(g, b) = 0
    <2>1. /\ "afterWork" \in CallNames \ {"clearPendingWrite", "finalized", "write"}
          /\ "afterWork" \notin HoldingCalls \cup WritableCalls \cup ReadableCalls \cup SourceCalls
                                \cup BufferCalls
      BY DEF CallNames, HoldingCalls, WritableCalls, TransformCalls, SourceCalls, ReadableCalls,
             BufferCalls
    <2>2. NoBuffer \in Nat
      BY DEF NoBuffer
    <2> HIDE DEF m
    <2> QED BY <1>5, <2>1, <2>2, FrameStarts
  <1>7. CASE Filled(x, item)
    <2>1. pool' = [pool EXCEPT !.data[m] = item] /\ stack' = <<f, g>>
      BY <1>7 DEF Filled
    <2>2. /\ pool' \in Pools(setting) /\ Full(setting, pool) \subseteq Full(setting, pool')
          /\ m \in Full(setting, pool') /\ pool'.refs = pool.refs
      <3> HIDE DEF m
      <3>1. /\ [pool EXCEPT !.data[m] = item] \in Pools(setting)
            /\ Full(setting, pool) \subseteq Full(setting, [pool EXCEPT !.data[m] = item])
            /\ m \in Full(setting, [pool EXCEPT !.data[m] = item])
            /\ [pool EXCEPT !.data[m] = item].refs = pool.refs
        BY <1>2, <1>5, Stored
      <3> QED BY <2>1, <3>1
    <2>3. f \in Started(pool') /\ f.call = "push" /\ f \in Frames /\ \A b : Owed(f, b) = 0
      <3> DEFINE c == "push"
                 p == pool'
      <3>1. /\ c \in CallNames \ {"clearPendingWrite", "finalized", "write"}
            /\ c \notin HoldingCalls \cup WritableCalls \cup TransformCalls \cup SourceCalls
            /\ f = Frame(c, x, m)
        BY <2>2 DEF CallNames, HoldingCalls, WritableCalls, TransformCalls, SourceCalls, ReadableCalls
      <3>3. /\ c \in BufferCalls => m \in Full(setting, p)
            /\ c \in ReadableCalls => x \in UsedReadables(setting)
            /\ c \in WritableCalls => x \in UsedWritables(setting)
            /\ c \in TransformCalls => x \in UsedTransforms(setting)
            /\ c \in SourceCalls => x = Source
            /\ m \in Nat /\ x \in Readables \cup Writables
        BY <1>5, <2>2, <3>1
      <3> HIDE DEF c, p, f, m
      <3>2. f \in Started(p) /\ f.call = c /\ f \in Frames /\ \A b : Owed(f, b) = 0
        BY <3>1, <3>3, FrameStarts
      <3> QED BY <3>2 DEF c, p
    <2> HIDE DEF f, g, m
    <2>4. <<f, g>> \in Seq(Started(pool')) /\ LastOnly(<<f, g>>)
      BY <1>6, <2>3, FewStart
    <2>5. ASSUME NEW b PROVE HeldByFrames(<<f, g>>, b) = 0
      <3>1. HeldByFrames(<<f, g>>, b) = Owed(f, b) + Owed(g, b)
        BY <1>6, <2>3, TwoFrames
      <3> QED BY <1>6, <2>3, <3>1
    <2> QED BY <1>1, <1>3, <1>4, <2>1, <2>2, <2>4, <2>5, TransformStarts
  <1>8. CASE Consumed(x)
    <2>1. pool' = pool /\ stack' = <<g>>
      BY <1>8 DEF Consumed
    <2> HIDE DEF f, g, m
    <2>4. <<g>> \in Seq(Started(pool')) /\ LastOnly(<<g>>)
      <3> HIDE DEF Started
      <3> QED BY <1>6 DEF LastOnly
    <2>5. ASSUME NEW b PROVE HeldByFrames(<<g>>, b) = 0
      <3>1. HeldByFrames(<<g>>, b) = Owed(g, b)
        BY <1>6, OneFrame
      <3> QED BY <1>6, <3>1
    <2>6. /\ pool' \in Pools(setting) /\ Full(setting, pool) \subseteq Full(setting, pool')
          /\ pool'.refs = pool.refs
      BY <1>2, <2>1
    <2> QED BY <1>1, <1>3, <1>4, <2>1, <2>4, <2>5, <2>6, TransformStarts
  <1> QED BY <1>7, <1>8

LEMMA ProcessCompletesKeeps ==
    ASSUME NEW x \in Transforms PROVE IInv /\ ProcessCompletes(x) => IInv'
  <1> SUFFICES ASSUME IInv, ProcessCompletes(x) PROVE IInv'
    OBVIOUS
  <1> DEFINE before == pool.data[transform[x].input] - 1
             item == before * setting.expansion + transform[x].made + 1
  <1>1. /\ stack = <<>> /\ transform[x].state = "Processing"
        /\ Filled(x, item) \/ Consumed(x)
        /\ transform' = [transform EXCEPT ![x].made = @ + 1]
        /\ UNCHANGED <<readable, writable, data>>
    BY DEF ProcessCompletes
  <1>2. /\ setting \in Settings /\ pool \in Pools(setting) /\ transform \in TransformsOver(setting)
        /\ TransformsReady(setting, Full(setting, pool), transform)
    BY Typed
  <1>3. before \in Nat
    <2>1. transform[x].input \in Full(setting, pool)
      BY <1>1, <1>2 DEF TransformsReady
    <2> QED BY <1>2, <2>1 DEF Full, Pools
  <1>4. setting.expansion \in Nat /\ transform[x].made \in Nat
    BY <1>2, SettingIs DEF TransformsOver
  <1>5. item \in Nat \ {0}
    <2> HIDE DEF before
    <2> QED BY <1>3, <1>4, Item
  <1> HIDE DEF item
  <1> QED BY <1>1, <1>5, WorkCompletesKeeps

LEMMA FinalizeCompletesKeeps ==
    ASSUME NEW x \in Transforms PROVE IInv /\ FinalizeCompletes(x) => IInv'
  <1> SUFFICES ASSUME IInv, FinalizeCompletes(x) PROVE IInv'
    OBVIOUS
  <1> DEFINE item == setting.chunks * setting.expansion + transform[x].final + 1
  <1>1. /\ stack = <<>> /\ transform[x].state = "Finalizing"
        /\ Filled(x, item) \/ Consumed(x)
        /\ transform' = [transform EXCEPT ![x].final = @ + 1]
        /\ UNCHANGED <<readable, writable, data>>
    BY DEF FinalizeCompletes
  <1>2. setting \in Settings /\ transform \in TransformsOver(setting)
    BY Typed
  <1>4. setting.expansion \in Nat /\ setting.chunks \in Nat /\ transform[x].final \in Nat
    BY <1>2, SettingIs DEF TransformsOver
  <1>5. item \in Nat \ {0}
    BY <1>4, Item
  <1> HIDE DEF item
  <1> QED BY <1>1, <1>5, WorkCompletesKeeps

\* The rest of a callback is the last that runs.
LEMMA AlmostDone ==
    ASSUME IInv, stack # <<>>, Head(stack).call = "afterWork"
    PROVE  /\ this \in UsedTransforms(setting) /\ this \in Transforms
           /\ this \in Readables \cup Writables /\ setting \in Settings
           /\ Tail(stack) = <<>> /\ Clearing(stack) = {} /\ Finalizers(stack) = {}
           /\ \A b : HeldByFrames(stack, b) = 0 /\ Owed(Head(stack), b) = 0
           /\ \A F : Call(F) => stack' = F \o <<>>
  <1>1. StackOK(setting, Full(setting, pool), stack) /\ setting \in Settings
    BY Typed
  <1>2. /\ Tail(stack) = <<>> /\ Clearing(stack) = Clearing(<<>>) /\ Finalizers(stack) = Finalizers(<<>>)
        /\ \A b : HeldByFrames(stack, b) = HeldByFrames(<<>>, b)
                                           + (IF Holds(Head(stack), b) THEN 1 ELSE 0)
    <2>1. /\ Tail(stack) = <<>>
          /\ \A b : HeldByFrames(stack, b) = HeldByFrames(Tail(stack), b)
                                             + (IF Holds(Head(stack), b) THEN 1 ELSE 0)
          /\ Clearing(stack) = Clearing(Tail(stack)) \cup {}
          /\ Finalizers(stack) = Finalizers(Tail(stack)) \cup {}
      BY <1>1, Popped
    <2> QED BY <2>1
  <1>3. Clearing(<<>>) = {} /\ Finalizers(<<>>) = {}
    BY DEF Clearing, Finalizers
  <1>4. \A b : ~Holds(Head(stack), b)
    BY DEF Holds, HoldingCalls
  <1>5. \A b : HeldByFrames(stack, b) = 0 /\ Owed(Head(stack), b) = 0
    <2>1. ASSUME NEW b PROVE HeldByFrames(<<>>, b) = 0
      BY FewFrames
    <2> QED BY <1>2, <1>4, <2>1 DEF Owed
  <1>6. this \in UsedTransforms(setting) /\ this \in Transforms /\ this \in Readables \cup Writables
    BY TopCall DEF TransformCalls
  <1>7. \A F : Call(F) => stack' = F \o <<>>
    BY <1>2 DEF Call
  <1> QED BY <1>1, <1>2, <1>3, <1>5, <1>6, <1>7

LEMMA AfterProcessKeeps == IInv /\ AfterProcess => IInv'
  <1> SUFFICES ASSUME IInv, AfterProcess PROVE IInv'
    OBVIOUS
  <1> DEFINE x == this
             n == transform[this].input
             o == transform[this].output
             z == NoBuffer
             fin == Finalizers(stack)
             f == Frame("finishedWriting", x, n)
             g == Frame("asyncWrite", x, n)
  <1>1. /\ stack # <<>> /\ Head(stack).call = "afterWork"
        /\ Head(stack).call \notin {"clearPendingWrite", "finalized"}
        /\ Head(stack).call \notin WriteCalls
        /\ transform[x].state = "Processing" /\ pool' = Unref(pool, o)
        /\ UNCHANGED <<setting, readable, writable, request, pipe, log>>
    BY DEF AfterProcess, Running, data, T, WriteCalls
  <1>2. /\ x \in UsedTransforms(setting) /\ x \in Transforms /\ x \in Readables \cup Writables
        /\ fin = {} /\ \A b : Owed(Head(stack), b) = 0
    BY <1>1, AlmostDone
  <1>3. /\ setting \in Settings /\ pool \in Pools(setting) /\ transform \in TransformsOver(setting)
        /\ TransformsReady(setting, Full(setting, pool), transform)
        /\ Full(setting, pool) \subseteq BuffersOf(setting)
    BY Typed
  <1>4. /\ n \in Full(setting, pool) /\ n \in BuffersOf(setting) /\ n \in Nat
        /\ o \in BuffersOf(setting) \cup {NoBuffer}
        /\ x \in UsedWritables(setting)
    <2>1. n \in Full(setting, pool) /\ o \in BuffersOf(setting) \cup {NoBuffer}
      BY <1>1, <1>2, <1>3 DEF TransformsOver, TransformsReady
    <2>2. n \in BuffersOf(setting)
      BY <1>3, <2>1
    <2> QED BY <1>2, <2>1, <2>2 DEF BuffersOf, UsedWritables
  <1>5. /\ pool' \in Pools(setting) /\ Full(setting, pool') = Full(setting, pool)
        /\ \A c \in BuffersOf(setting) : pool'.refs[c] = pool.refs[c] - Is(o, c)
    <2> HIDE DEF o
    <2> QED BY <1>1, <1>3, Unreffed
  <1>6. \E v \in {"None", "Paused"}, F \in {<<f>>, <<g>>} :
            /\ Call(F)
            /\ transform' \in TransformsOver(setting)
            /\ TransformsReady(setting, Full(setting, pool), transform')
            /\ transform'[x].state = v
            /\ TransformsBut(transform, transform', fin, fin, x)
    <2>1. CASE LastPart(this)
      <3>1. /\ transform' = [transform EXCEPT ![x] = [state |-> "None", input |-> NoBuffer,
                                 output |-> NoBuffer, made |-> 0, final |-> transform[x].final]]
            /\ Call(<<f>>)
        BY <2>1 DEF AfterProcess, T
      <3>2. transform[x].final \in Nat /\ "None" \in TransformStates
        BY <1>2, <1>3 DEF TransformsOver, TransformStates
      <3>3. transform' \in TransformsOver(setting)
        BY <1>2, <1>3, <3>1, <3>2 DEF TransformsOver
      <3>4. transform'[x].state = "None" /\ \A y \in Transforms \ {x} : transform'[y] = transform[y]
        BY <1>2, <1>3, <3>1 DEF TransformsOver
      <3>5. TransformsReady(setting, Full(setting, pool), transform')
        BY <1>2, <1>3, <3>4 DEF TransformsReady
      <3>6. TransformsBut(transform, transform', fin, fin, x)
        BY <3>4 DEF TransformsBut
      <3> HIDE DEF f, g, x, n, o, z, fin
      <3> QED BY <3>1, <3>3, <3>4, <3>5, <3>6
    <2>2. CASE ~LastPart(this)
      <3> DEFINE v == "Paused"
      <3>1. transform' = WithTransform(x, v, n, o) /\ Call(<<g>>)
        BY <2>2 DEF AfterProcess, T, Working, WithTransform
      <3>2. v \in TransformStates /\ v \notin {"Processing", "Finalizing"} /\ v # "Processing"
        BY DEF TransformStates
      <3> HIDE DEF f, g, x, n, o, z, fin, v
      <3>3. /\ transform' \in TransformsOver(setting)
            /\ TransformsReady(setting, Full(setting, pool), transform')
            /\ transform'[x].state = v
            /\ TransformsBut(transform, transform', fin, fin, x)
        BY <1>2, <1>4, <3>1, <3>2, TransformWorks
      <3> QED BY <3>1, <3>3 DEF v
    <2> QED BY <2>1, <2>2
  <1>7. /\ f \in Handed(pool) /\ f \in Frames /\ f.call = "finishedWriting"
        /\ \A b : Owed(f, b) = Is(n, b)
    <2> DEFINE c == "finishedWriting"
    <2>1. c \in {"asyncWrite", "unref", "afterWrite", "finishedWriting"}
      OBVIOUS
    <2> HIDE DEF x, n, c
    <2> QED BY <1>1, <1>4, <2>1, WritableHands DEF c
  <1>8. /\ g \in Handed(pool) /\ g \in Frames /\ g.call = "asyncWrite"
        /\ \A b : Owed(g, b) = Is(n, b)
    <2> DEFINE c == "asyncWrite"
    <2>1. c \in {"asyncWrite", "unref", "afterWrite", "finishedWriting"}
      OBVIOUS
    <2> HIDE DEF x, n, c
    <2> QED BY <1>1, <1>4, <2>1, WritableHands DEF c
  <1> HIDE DEF f, g
  <1>9. Handed(pool') = Handed(pool)
    BY <1>5 DEF Handed
  <1>10. PICK v \in {"None", "Paused"}, F \in {<<f>>, <<g>>} :
            /\ Call(F)
            /\ transform' \in TransformsOver(setting)
            /\ TransformsReady(setting, Full(setting, pool), transform')
            /\ transform'[x].state = v
            /\ TransformsBut(transform, transform', fin, fin, x)
    BY <1>6
  <1>11. /\ F \in Seq(Handed(pool')) /\ \A i \in 1 .. Len(F) : F[i].call # "write"
         /\ \A b : HeldByFrames(F, b) = Is(n, b)
    <2>1. <<f>> \in Seq(Handed(pool)) /\ <<g>> \in Seq(Handed(pool))
      <3> HIDE DEF Handed
      <3> QED BY <1>7, <1>8
    <2>2. ASSUME NEW b PROVE HeldByFrames(<<f>>, b) = Is(n, b) /\ HeldByFrames(<<g>>, b) = Is(n, b)
      <3>1. HeldByFrames(<<f>>, b) = Owed(f, b) /\ HeldByFrames(<<g>>, b) = Owed(g, b)
        BY <1>7, <1>8, OneFrame
      <3> QED BY <1>7, <1>8, <3>1
    <2>3. /\ \A i \in 1 .. Len(<<f>>) : <<f>>[i].call # "write"
          /\ \A i \in 1 .. Len(<<g>>) : <<g>>[i].call # "write"
      BY <1>7, <1>8
    <2> HIDE DEF Handed
    <2> QED BY <1>9, <1>10, <2>1, <2>2, <2>3
  <1>12. ASSUME NEW b \in BuffersOf(setting)
         PROVE  pool'.refs[b] + Parts(transform, fin, x, b) + Owed(Head(stack), b)
                >= pool.refs[b] + Parts(transform', fin, x, b) + HeldByFrames(F, b)
    <2>1. Parts(transform, fin, x, b) = Is(n, b) + Is(o, b)
      BY <1>1, <1>2, PartsOf
    <2>2. Parts(transform', fin, x, b) = 0
      BY <1>10, PartsOf
    <2>3. Owed(Head(stack), b) = 0 /\ HeldByFrames(F, b) = Is(n, b)
      BY <1>2, <1>11
    <2>4. Is(n, b) \in Nat /\ Is(o, b) \in Nat /\ pool.refs[b] \in Int
      BY <1>3, IsNat DEF Pools
    <2>5. pool'.refs[b] = pool.refs[b] - Is(o, b)
      BY <1>5
    <2> HIDE DEF n, o
    <2> QED BY <2>1, <2>2, <2>3, <2>4, <2>5
  <1> HIDE DEF x, n, o, z
  <1> QED BY <1>1, <1>2, <1>5, <1>10, <1>11, <1>12, TransformMoves DEF fin

LEMMA AfterFinalizeKeeps == IInv /\ AfterFinalize => IInv'
  <1> SUFFICES ASSUME IInv, AfterFinalize PROVE IInv'
    OBVIOUS
  <1> DEFINE x == this
             n == transform[this].input
             o == transform[this].output
             z == NoBuffer
             fin == Finalizers(stack)
             f == Frame("pushEnd", x, z)
             g == Frame("finalized", x, z)
             h == Frame("tryFinalize", x, z)
  <1>1. /\ stack # <<>> /\ Head(stack).call = "afterWork"
        /\ Head(stack).call \notin {"clearPendingWrite", "finalized"}
        /\ Head(stack).call \notin WriteCalls
        /\ transform[x].state = "Finalizing" /\ pool' = Unref(pool, o)
        /\ UNCHANGED <<setting, readable, writable, request, pipe, log>>
        /\ \/ Call(<<f, g>>) /\ transform' = transform
           \/ transform' = WithTransform(x, "Paused", n, o) /\ Call(<<h>>)
    BY DEF AfterFinalize, Running, data, T, WriteCalls, Do, Working, WithTransform
  <1>2. /\ x \in UsedTransforms(setting) /\ x \in Transforms /\ x \in Readables \cup Writables
        /\ fin = {} /\ Clearing(stack) = {}
        /\ \A b : HeldByFrames(stack, b) = 0 /\ Owed(Head(stack), b) = 0
        /\ \A F : Call(F) => stack' = F \o <<>>
    BY <1>1, AlmostDone
  <1>3. /\ setting \in Settings /\ pool \in Pools(setting) /\ transform \in TransformsOver(setting)
        /\ TransformsReady(setting, Full(setting, pool), transform)
        /\ x \in UsedReadables(setting) /\ z \in Nat
    BY <1>2, Typed DEF UsedReadables, NoBuffer
  <1>4. n \in BuffersOf(setting) \cup {NoBuffer} /\ o \in BuffersOf(setting) \cup {NoBuffer}
    BY <1>2, <1>3 DEF TransformsOver
  <1>5. /\ pool' \in Pools(setting) /\ Full(setting, pool') = Full(setting, pool)
        /\ \A c \in BuffersOf(setting) : pool'.refs[c] = pool.refs[c] - Is(o, c)
    <2> HIDE DEF o
    <2> QED BY <1>1, <1>3, Unreffed
  <1>6. \A b : Parts(transform, fin, x, b) = Is(o, b) /\ Is(o, b) \in Nat
    BY <1>1, <1>2, PartsOf, IsNat
  <1>7. /\ f.call = "pushEnd" /\ f.of = x /\ f.arg = z /\ g.call = "finalized" /\ g.of = x /\ g.arg = z
        /\ h.call = "tryFinalize" /\ h.of = x /\ h.arg = z
        /\ f \in Frames /\ g \in Frames /\ h \in Frames
    BY <1>2, <1>3 DEF Frame, Frames, CallNames, ReadableCalls, TransformCalls
  <1> HIDE DEF f, g, h, x, n, o, z
  <1>8. CASE Call(<<f, g>>) /\ transform' = transform
    <2>1. stack' = <<f, g>>
      <3>1. <<f, g>> \in Seq(Frames)
        BY <1>7
      <3>2. <<f, g>> \o <<>> = <<f, g>>
        BY <3>1, ConcatEmptySeq
      <3> QED BY <1>2, <1>8, <3>2
    <2>2. /\ <<f, g>> \in Seq(Frames) /\ DOMAIN <<f, g>> = 1 .. 2 /\ Len(<<f, g>>) = 2
          /\ <<f, g>>[1] = f /\ <<f, g>>[2] = g /\ Head(<<f, g>>) = f /\ <<f, g>> # <<>>
          /\ \A i \in 1 .. 2 : i = 1 \/ i = 2
      BY <1>7
    <2>3. FrameOK(setting, Full(setting, pool'), f) /\ FrameOK(setting, Full(setting, pool'), g)
      BY <1>2, <1>3, <1>7 DEF FrameOK, ReadableCalls, WritableCalls, TransformCalls, SourceCalls,
             BufferCalls
    <2> DEFINE F == <<f, g>>
    <2> HIDE DEF F
    <2>4. /\ F \in Seq(Frames) /\ DOMAIN F = 1 .. 2 /\ Len(F) = 2 /\ F[1] = f /\ F[2] = g
          /\ Head(F) = f /\ stack' = F
      BY <2>1, <2>2 DEF F
    <2>5. Clearing(F) = {} /\ Finalizers(F) = {x}
      <3>1. \A i \in 1 .. 2 : F[i].call # "clearPendingWrite" /\ (F[i].call = "finalized" <=> i = 2)
        BY <1>7, <2>2, <2>4
      <3>2. Clearing(F) = {}
        BY <2>4, <3>1 DEF Clearing
      <3>3. {j \in DOMAIN F : F[j].call = "finalized"} = {2}
        BY <2>4, <3>1
      <3>4. Finalizers(F) = {F[2].of}
        BY <3>3 DEF Finalizers
      <3> QED BY <1>7, <2>4, <3>2, <3>4
    <2>6. StackInv'
      <3>1. \A i \in 1 .. 2 : /\ FrameOK(setting, Full(setting, pool'), F[i])
                              /\ F[i].call \notin {"write", "clearPendingWrite", "afterWork"}
        BY <1>7, <2>2, <2>3, <2>4
      <3>2. StackOK(setting, Full(setting, pool'), F)
        BY <2>4, <3>1 DEF StackOK
      <3>3. WriteOnTop(F)
        BY <2>4, <3>1 DEF WriteOnTop
      <3>4. ~Running("write")'
        BY <1>7, <2>4 DEF Running
      <3> QED BY <1>1, <2>4, <3>2, <3>3, <3>4 DEF StackInv
    <2>7. TypesInv'
      BY <1>1, <1>3, <1>5, <1>8, Typed, TypesKept
    <2>8. \A b : HeldByFrames(F, b) = 0
      <3>1. ASSUME NEW b PROVE HeldByFrames(<<f, g>>, b) = Owed(f, b) + Owed(g, b)
        BY <1>7, TwoFrames
      <3>2. \A b : Owed(f, b) = 0 /\ Owed(g, b) = 0
        BY <1>7 DEF Owed, Holds, HoldingCalls
      <3> QED BY <3>1, <3>2 DEF F
    <2>9. ASSUME NEW b \in BuffersOf(setting)
          PROVE  pool'.refs[b] + KeptOf(b) + HeldByFrames(stack, b)
                 >= pool.refs[b] + KeptOf(b)' + HeldByFrames(stack', b)
      <3>1. TransformsBut(transform, transform, Finalizers(stack), {x}, x)
        BY <1>2 DEF TransformsBut
      <3>2. Kept(readable, writable, request, transform, pipe.pending, Clearing(stack), {x}, b)
            = KeptOf(b) - Parts(transform, Finalizers(stack), x, b) + Parts(transform, {x}, x, b)
        BY <1>2, <3>1, KeptParts
      <3>3. Parts(transform, {x}, x, b) = 0
        BY <1>1 DEF Parts, Input, Output
      <3>4. KeptOf(b)' = KeptOf(b) - Is(o, b)
        <4>1. KeptOf(b)' = Kept(readable, writable, request, transform, pipe.pending,
                                Clearing(stack), {x}, b)
          BY <1>1, <1>2, <1>8, <2>4, <2>5 DEF KeptOf
        <4>2. KeptOf(b) \in Nat
          BY KeptTyped
        <4> HIDE DEF KeptOf, Kept
        <4> QED BY <1>6, <3>2, <3>3, <4>1, <4>2
      <3>5. KeptOf(b) \in Nat /\ pool.refs[b] \in Int /\ pool'.refs[b] = pool.refs[b] - Is(o, b)
            /\ HeldByFrames(stack, b) = 0 /\ HeldByFrames(stack', b) = 0 /\ Is(o, b) \in Nat
        BY <1>2, <1>3, <1>5, <1>6, <2>4, <2>8, KeptTyped DEF Pools
      <3> HIDE DEF KeptOf
      <3> QED BY <3>4, <3>5
    <2> QED BY <1>1, <2>6, <2>7, <2>9, Rebalanced
  <1>9. CASE transform' = WithTransform(x, "Paused", n, o) /\ Call(<<h>>)
    <2>1. /\ transform' \in TransformsOver(setting)
          /\ TransformsReady(setting, Full(setting, pool), transform')
          /\ transform'[x].state = "Paused"
          /\ TransformsBut(transform, transform', fin, fin, x)
      <3> DEFINE v == "Paused"
      <3>1. v \in TransformStates /\ transform' = WithTransform(x, v, n, o)
            /\ v \notin {"Processing", "Finalizing"} /\ v # "Processing"
        BY <1>9 DEF TransformStates
      <3> HIDE DEF v, fin
      <3>2. /\ transform' \in TransformsOver(setting)
            /\ TransformsReady(setting, Full(setting, pool), transform')
            /\ transform'[x].state = v
            /\ TransformsBut(transform, transform', fin, fin, x)
        BY <1>2, <1>4, <3>1, TransformWorks
      <3> QED BY <3>2 DEF v
    <2>2. h \in HarmlessFrames
      <3>1. FrameOK(setting, Full(setting, pool), h) /\ Plain(h)
        BY <1>2, <1>3, <1>7 DEF FrameOK, ReadableCalls, WritableCalls, TransformCalls, SourceCalls,
             BufferCalls, Plain, HoldingCalls
      <3> QED BY <1>1, <1>7, <3>1 DEF HarmlessFrames, Harmless
    <2>3. <<h>> \in Seq(HarmlessFrames)
      BY <2>2
    <2>4. ASSUME NEW b \in BuffersOf(setting)
          PROVE  pool'.refs[b] + Parts(transform, fin, x, b) + Owed(Head(stack), b)
                 >= pool.refs[b] + Parts(transform', fin, x, b)
      <3>1. Parts(transform', fin, x, b) = 0
        BY <2>1, PartsOf
      <3>2. pool.refs[b] \in Int /\ pool'.refs[b] = pool.refs[b] - Is(o, b)
            /\ Owed(Head(stack), b) = 0
        BY <1>2, <1>3, <1>5 DEF Pools
      <3> QED BY <1>6, <3>1, <3>2
    <2> QED BY <1>1, <1>2, <1>5, <1>9, <2>1, <2>3, <2>4, TransformSettles DEF fin
  <1> QED BY <1>1, <1>8, <1>9 DEF f, g, h, x, n, o, z

LEMMA FinalizedKeeps == IInv /\ Finalized => IInv'
  <1> SUFFICES ASSUME IInv, Finalized PROVE IInv'
    OBVIOUS
  <1> DEFINE x == this
             n == transform[this].input
             o == transform[this].output
             v == "Finalized"
             st == Tail(stack)
             fin == Finalizers(stack)
             fin2 == Finalizers(st)
  <1>1. /\ stack # <<>> /\ Head(stack).call = "finalized"
        /\ transform' = WithTransform(x, v, n, o) /\ stack' = <<>> \o st
        /\ UNCHANGED <<setting, pool, readable, writable, request, pipe, log>>
    BY DEF Finalized, Running, Working, WithTransform, data, T, Return, Call
  <1>2. /\ setting \in Settings /\ pool \in Pools(setting) /\ transform \in TransformsOver(setting)
        /\ TransformsReady(setting, Full(setting, pool), transform)
        /\ StackOK(setting, Full(setting, pool), stack)
    BY Typed
  <1>3. x \in UsedTransforms(setting) /\ x \in Transforms
    BY <1>1, TopCall DEF TransformCalls
  <1>4. n \in BuffersOf(setting) \cup {NoBuffer} /\ o \in BuffersOf(setting) \cup {NoBuffer}
    BY <1>2, <1>3 DEF TransformsOver
  <1>5. /\ StackOK(setting, Full(setting, pool), st) /\ NoWrite(st)
        /\ \A b : HeldByFrames(stack, b)
                  = HeldByFrames(st, b) + (IF Holds(Head(stack), b) THEN 1 ELSE 0)
        /\ Clearing(stack) = Clearing(st) \cup {} /\ fin = fin2 \cup {x}
    <2>1. WriteOnTop(stack)
      BY DEF IInv, StackInv
    <2>2. /\ StackOK(setting, Full(setting, pool), Tail(stack))
          /\ WriteOnTop(stack) => NoWrite(Tail(stack))
          /\ \A b : HeldByFrames(stack, b)
                    = HeldByFrames(Tail(stack), b) + (IF Holds(Head(stack), b) THEN 1 ELSE 0)
          /\ Clearing(stack) = Clearing(Tail(stack))
                \cup (IF Head(stack).call = "clearPendingWrite" THEN {Head(stack).arg} ELSE {})
          /\ Finalizers(stack) = Finalizers(Tail(stack))
                \cup (IF Head(stack).call = "finalized" THEN {Head(stack).of} ELSE {})
      BY <1>1, <1>2, Popped
    <2>3. Head(stack).of = x /\ Head(stack).call # "clearPendingWrite"
      BY <1>1 DEF this
    <2> HIDE DEF x
    <2> QED BY <1>1, <2>1, <2>2, <2>3
  <1>6. \A b : HeldByFrames(stack, b) = HeldByFrames(st, b) /\ HeldByFrames(st, b) \in Nat
    <2>1. \A b : ~Holds(Head(stack), b)
      BY <1>1 DEF Holds, HoldingCalls
    <2>2. ASSUME NEW b PROVE HeldByFrames(st, b) \in Nat
      BY <1>5, FramesCount DEF StackOK
    <2> QED BY <1>5, <2>1, <2>2
  <1>7. stack' = st
    <2>1. st \in Seq(Frames)
      BY <1>5 DEF StackOK
    <2>2. <<>> \o st = st
      BY <2>1, ConcatEmptySeq
    <2> QED BY <1>1, <2>2
  <1>8. /\ transform' \in TransformsOver(setting)
        /\ TransformsReady(setting, Full(setting, pool), transform')
        /\ transform'[x].state = v
        /\ \A s : TransformsBut(transform, transform', s, s, x)
    <2>1. v \in TransformStates /\ v \notin {"Processing", "Finalizing"} /\ v # "Processing"
      BY DEF TransformStates
    <2> HIDE DEF v, x, n, o
    <2> QED BY <1>1, <1>3, <1>4, <2>1, TransformWorks
  <1>9. TransformsBut(transform, transform', fin, fin2, x)
    <2>1. \A y \in Transforms \ {x} : transform'[y] = transform[y]
      BY <1>8 DEF TransformsBut
    <2> HIDE DEF fin, fin2, x
    <2> QED BY <1>5, <2>1 DEF TransformsBut
  <1>10. TypesInv'
    BY <1>1, <1>2, <1>8, Typed, TypesKept
  <1>11. StackInv'
    <2>1. st # <<>> => Head(st).call # "write"
      BY <1>5, NoWriteRuns DEF StackOK
    <2>2. WriteOnTop(st)
      BY <1>5 DEF NoWrite, WriteOnTop
    <2> HIDE DEF st
    <2> QED BY <1>1, <1>5, <1>7, <2>1, <2>2 DEF StackInv, Running
  <1>12. ASSUME NEW b \in BuffersOf(setting)
         PROVE  pool'.refs[b] + KeptOf(b) + HeldByFrames(stack, b)
                >= pool.refs[b] + KeptOf(b)' + HeldByFrames(stack', b)
    <2> DEFINE after == Kept(readable, writable, request, transform', pipe.pending,
                             Clearing(stack), fin2, b)
    <2>1. after = KeptOf(b) - Parts(transform, fin, x, b) + Parts(transform', fin2, x, b)
      BY <1>3, <1>9, KeptParts
    <2>2. Parts(transform', fin2, x, b) = 0 /\ Parts(transform, fin, x, b) \in Nat
      BY <1>8, PartsOf
    <2>3. KeptOf(b)' = after
      BY <1>1, <1>5, <1>7 DEF KeptOf
    <2>4. KeptOf(b) \in Nat /\ pool.refs[b] \in Int /\ pool' = pool
      BY <1>1, <1>2, KeptTyped DEF Pools
    <2> HIDE DEF after, KeptOf, st, fin, fin2, x
    <2>5. KeptOf(b)' <= KeptOf(b) /\ KeptOf(b)' \in Int
      BY <2>1, <2>2, <2>3, <2>4
    <2>6. HeldByFrames(stack', b) = HeldByFrames(stack, b) /\ HeldByFrames(stack, b) \in Nat
      BY <1>6, <1>7
    <2> QED BY <2>4, <2>5, <2>6
  <1> QED BY <1>1, <1>10, <1>11, <1>12, Rebalanced

-----------------------------------------------------------------------------
(* The pipeline                                                            *)

LEMMA LeastOfSet ==
    ASSUME NEW S \in SUBSET Nat, S # {}
    PROVE  Min(S) \in S
  BY Least DEF Min

\* Frames that hold nothing take the place of one that does: a reference is lost.
LEMMA Leaks ==
    ASSUME IInv, stack # <<>>, Head(stack).call \notin {"clearPendingWrite", "finalized"},
           pool' \in Pools(setting), Full(setting, pool') = Full(setting, pool),
           \A b \in BuffersOf(setting) : pool'.refs[b] >= pool.refs[b],
           NEW F \in Seq(HarmlessFrames), Call(F),
           UNCHANGED <<setting, readable, writable, request, transform, pipe, log>>
    PROVE  IInv'
  <1>1. TypesInv'
    BY Typed, TypesKept
  <1>2. /\ readable' = readable /\ writable' = writable /\ request' = request
        /\ transform' = transform /\ pipe' = pipe /\ setting' = setting
    OBVIOUS
  <1>3. ASSUME NEW b \in BuffersOf(setting)
        PROVE  pool'.refs[b] + KeptOf(b) + Owed(Head(stack), b)
               >= pool.refs[b] + Kept(readable', writable', request', transform', pipe'.pending,
                                      Clearing(stack), Finalizers(stack), b)
    <2>1. Kept(readable', writable', request', transform', pipe'.pending,
               Clearing(stack), Finalizers(stack), b) = KeptOf(b)
      BY <1>2 DEF KeptOf
    <2>2. /\ KeptOf(b) \in Nat /\ Owed(Head(stack), b) \in Nat /\ pool.refs[b] \in Int
          /\ pool'.refs[b] \in Int /\ pool'.refs[b] >= pool.refs[b]
      BY KeptTyped, OwedNat, Typed DEF Pools
    <2> HIDE DEF KeptOf, Kept
    <2> QED BY <2>1, <2>2
  <1> QED BY <1>1, <1>2, <1>3, Settles

LEMMA SlotFound ==
    ASSUME IInv, NEW w
    PROVE  SlotFor(w) \in 1 .. Len(pipe.pending) + 1
  <1>1. Len(pipe.pending) \in Nat /\ DOMAIN pipe.pending = 1 .. Len(pipe.pending)
    BY Typed, LenProperties DEF Pipes
  <1> DEFINE own  == {i \in Pending(pipe.pending) : pipe.pending[i].writable = w}
             free == DOMAIN pipe.pending \ Pending(pipe.pending)
  <1>2. /\ own \subseteq 1 .. Len(pipe.pending) /\ free \subseteq 1 .. Len(pipe.pending)
        /\ own \in SUBSET Nat /\ free \in SUBSET Nat
    BY <1>1 DEF Pending
  <1>3. SlotFor(w) = IF own # {} THEN Min(own) ELSE IF free # {} THEN Min(free)
                     ELSE Len(pipe.pending) + 1
    BY DEF SlotFor
  <1> HIDE DEF own, free
  <1>4. /\ own # {} => Min(own) \in own
        /\ free # {} => Min(free) \in free
    BY <1>2, LeastOfSet
  <1>5. CASE own # {}
    <2>1. SlotFor(w) \in 1 .. Len(pipe.pending)
      BY <1>2, <1>3, <1>4, <1>5
    <2> QED BY <1>1, <2>1
  <1>6. CASE own = {} /\ free # {}
    <2>1. SlotFor(w) \in 1 .. Len(pipe.pending)
      BY <1>2, <1>3, <1>4, <1>6
    <2> QED BY <1>1, <2>1
  <1>7. CASE own = {} /\ free = {}
    BY <1>1, <1>3, <1>7
  <1> QED BY <1>5, <1>6, <1>7

\* A slot is filled, or one is added for it.
Filling(q, i, s) == IF i > Len(q) THEN Append(q, s) ELSE [q EXCEPT ![i] = s]

LEMMA FilledSlot ==
    ASSUME NEW X, NEW q \in Seq(X), NEW s \in X, NEW i \in 1 .. Len(q) + 1
    PROVE  /\ Filling(q, i, s) \in Seq(X) /\ i \in DOMAIN Filling(q, i, s)
           /\ Filling(q, i, s)[i] = s
           /\ \A clearing : SlotsBut(q, Filling(q, i, s), clearing, clearing, i)
  <1>1. Len(q) \in Nat /\ DOMAIN q = 1 .. Len(q)
    BY LenProperties
  <1>2. CASE i > Len(q)
    <2>1. i = Len(q) + 1 /\ Filling(q, i, s) = Append(q, s)
      BY <1>1, <1>2 DEF Filling
    <2>2. /\ Append(q, s) \in Seq(X) /\ Len(Append(q, s)) = Len(q) + 1
          /\ \A k \in 1 .. Len(q) : Append(q, s)[k] = q[k]
          /\ Append(q, s)[Len(q) + 1] = s
      BY AppendProperties
    <2>3. DOMAIN Append(q, s) = 1 .. Len(q) + 1
      BY <2>2, LenProperties
    <2> DEFINE u == Append(q, s)
    <2> HIDE DEF u
    <2>4. /\ u \in Seq(X) /\ DOMAIN u = 1 .. Len(q) + 1 /\ Filling(q, i, s) = u
          /\ \A k \in 1 .. Len(q) : u[k] = q[k]
          /\ u[Len(q) + 1] = s
      BY <2>1, <2>2, <2>3 DEF u
    <2>5. \A clearing : SlotsBut(q, u, clearing, clearing, i)
      BY <1>1, <2>1, <2>4 DEF SlotsBut
    <2> QED BY <1>1, <2>1, <2>4, <2>5
  <1>3. CASE ~(i > Len(q))
    <2>1. i \in 1 .. Len(q) /\ Filling(q, i, s) = [q EXCEPT ![i] = s]
      BY <1>1, <1>3 DEF Filling
    <2>2. [q EXCEPT ![i] = s] \in Seq(X)
      BY <2>1, ExceptSeq
    <2>3. \A clearing : SlotsBut(q, [q EXCEPT ![i] = s], clearing, clearing, i)
      BY <1>1, <2>1 DEF SlotsBut
    <2> QED BY <1>1, <2>1, <2>2, <2>3
  <1> QED BY <1>2, <1>3

LEMMA PipeSettles ==
    ASSUME IInv, stack # <<>>, Head(stack).call \notin {"clearPendingWrite", "finalized"}, NEW k,
           pipe' \in Pipes(setting, Full(setting, pool)),
           SlotsBut(pipe.pending, pipe'.pending, Clearing(stack), Clearing(stack), k),
           pool' \in Pools(setting), Full(setting, pool') = Full(setting, pool),
           NEW F \in Seq(HarmlessFrames), Call(F),
           \A b \in BuffersOf(setting) :
               pool'.refs[b] >= pool.refs[b] + Slot(pipe'.pending, Clearing(stack), k, b),
           UNCHANGED <<setting, readable, writable, request, transform, log>>
    PROVE  IInv'
  <1>1. TypesInv'
    BY Typed, TypesKept
  <1>2. /\ readable' = readable /\ writable' = writable /\ request' = request
        /\ transform' = transform /\ setting' = setting
    OBVIOUS
  <1>3. ASSUME NEW b \in BuffersOf(setting)
        PROVE  pool'.refs[b] + KeptOf(b) + Owed(Head(stack), b)
               >= pool.refs[b] + Kept(readable', writable', request', transform', pipe'.pending,
                                      Clearing(stack), Finalizers(stack), b)
    <2> DEFINE old == Slot(pipe.pending, Clearing(stack), k, b)
               new == Slot(pipe'.pending, Clearing(stack), k, b)
               after == Kept(readable', writable', request', transform', pipe'.pending,
                             Clearing(stack), Finalizers(stack), b)
               kept == KeptOf(b)
               owed == Owed(Head(stack), b)
               r == pool.refs[b]
               r2 == pool'.refs[b]
    <2>1. pipe'.pending \in Seq(Slots(setting, Full(setting, pool)))
      BY DEF Pipes
    <2>2. after = kept - old + new /\ old \in Nat /\ new \in Nat
      BY <1>2, <2>1, KeptPending
    <2>3. kept \in Nat /\ owed \in Nat /\ r \in Int /\ r2 \in Int /\ r2 >= r + new
      BY KeptTyped, OwedNat, Typed DEF Pools
    <2> HIDE DEF old, new, after, kept, owed, r, r2
    <2>4. r2 + kept + owed >= r + after
      BY <2>2, <2>3
    <2> QED BY <2>4 DEF after, kept, owed, r, r2
  <1> QED BY <1>1, <1>2, <1>3, Settles

\* A write that the stream can take is made at once.
LEMMA WritesNow ==
    ASSUME IInv, stack # <<>>, Head(stack).call \notin {"clearPendingWrite", "finalized"},
           Head(stack).call \notin WriteCalls,
           NEW x, x \in UsedWritables(setting), NEW a, a \in Full(setting, pool), CanAcceptWrite(x),
           pool' = Ref(pool, a), Call(<<Frame("write", x, a)>>),
           UNCHANGED <<setting, readable, writable, request, transform, pipe, log>>
    PROVE  IInv'
  <1> DEFINE f == Frame("write", x, a)
  <1>1. /\ setting \in Settings /\ pool \in Pools(setting) /\ a \in Nat /\ a \in BuffersOf(setting)
    BY Typed DEF BuffersOf
  <1>2. x \in Readables \cup Writables
    BY <1>1, SettingIs
  <1>3. /\ pool' \in Pools(setting) /\ Full(setting, pool') = Full(setting, pool)
        /\ \A c \in BuffersOf(setting) : pool'.refs[c] = pool.refs[c] + Is(a, c)
    BY <1>1, Reffed
  <1>4. \A b : Is(a, b) \in Nat
    BY IsNat
  <1>5. \A b \in BuffersOf(setting) : pool.refs[b] \in Int
    BY <1>1 DEF Pools
  <1>11. /\ f \in Handed(pool) /\ f \in Frames /\ f.call = "write" /\ f.of = x
        /\ \A b : Owed(f, b) = Is(a, b)
    <2>1. /\ "write" \in CallNames \ {"afterWork", "clearPendingWrite", "finalized"}
          /\ "write" \in HoldingCalls /\ "write" \in WriteCalls
          /\ "write" \notin ReadableCalls \cup SourceCalls \cup TransformCalls
      BY DEF CallNames, HoldingCalls, WritableCalls, TransformCalls, SourceCalls, ReadableCalls,
             WriteCalls
    <2> DEFINE c == "write"
               p == pool
    <2>2. /\ c \in CallNames \ {"afterWork", "clearPendingWrite", "finalized"}
          /\ c \in BufferCalls => a \in Full(setting, p)
          /\ c \in ReadableCalls => x \in UsedReadables(setting)
          /\ c \in WritableCalls => x \in UsedWritables(setting)
          /\ c \in TransformCalls => x \in UsedTransforms(setting)
          /\ c \in SourceCalls => x = Source
          /\ c \in WriteCalls \/ Head(stack).call \notin WriteCalls
          /\ c \in HoldingCalls
      BY <1>2, <2>1
    <2> HIDE DEF c, p
    <2>3. Frame(c, x, a) \in Handed(p) /\ Frame(c, x, a).call = c /\ Frame(c, x, a) \in Frames
      BY <1>1, <1>2, <2>2, Hand
    <2>4. \A b : Owed(Frame(c, x, a), b) = Is(a, b)
      BY <2>2, Owes
    <2>5. Frame(c, x, a).of = x
      BY DEF Frame
    <2> QED BY <2>3, <2>4, <2>5 DEF c, p
  <1>12. Handed(pool') = Handed(pool)
    BY <1>3 DEF Handed
  <1> HIDE DEF f
  <1>13. /\ <<f>> \in Seq(Handed(pool')) /\ <<f>>[1] = f
        /\ \A j \in 1 .. Len(<<f>>) : j = 1
    <2> HIDE DEF Handed
    <2> QED BY <1>11, <1>12
  <1>14. CanAcceptWrite(f.of)'
    BY <1>11 DEF CanAcceptWrite
  <1>15. TypesInv'
    BY <1>3, Typed, TypesKept
  <1>16. Covers(<<f>>)
    <2>1. ASSUME NEW b \in BuffersOf(setting)
          PROVE  pool'.refs[b] + KeptOf(b) + Owed(Head(stack), b)
                 >= pool.refs[b] + Kept(readable', writable', request', transform', pipe'.pending,
                                        Clearing(stack), Finalizers(stack), b)
                    + HeldByFrames(<<f>>, b)
      <3>1. Kept(readable', writable', request', transform', pipe'.pending,
                 Clearing(stack), Finalizers(stack), b) = KeptOf(b)
        BY DEF KeptOf
      <3>2. HeldByFrames(<<f>>, b) = Is(a, b)
        <4>1. HeldByFrames(<<f>>, b) = Owed(f, b)
          BY <1>11, OneFrame
        <4> QED BY <1>11, <4>1
      <3>3. KeptOf(b) \in Nat /\ Owed(Head(stack), b) \in Nat /\ pool.refs[b] \in Int
            /\ pool'.refs[b] = pool.refs[b] + Is(a, b) /\ Is(a, b) \in Nat
        BY <1>3, <1>4, <1>5, KeptTyped, OwedNat
      <3> HIDE DEF KeptOf, Kept
      <3> QED BY <3>1, <3>2, <3>3
    <2> QED BY <2>1 DEF Covers
  <1>17. \A j \in 1 .. Len(<<f>>) : <<f>>[j].call = "write" => j = 1 /\ CanAcceptWrite(<<f>>[1].of)'
    BY <1>13, <1>14
  <1> DEFINE F == <<f>>
  <1>18. /\ F \in Seq(Handed(pool')) /\ Call(F) /\ Covers(F)
         /\ \A i \in 1 .. Len(F) : F[i].call = "write" => i = 1 /\ CanAcceptWrite(F[1].of)'
    BY <1>13, <1>16, <1>17 DEF f
  <1>19. setting' = setting /\ Full(setting, pool) \subseteq Full(setting, pool')
    BY <1>3
  <1> HIDE DEF F
  <1> QED BY <1>15, <1>18, <1>19, Moves

LEMMA AsyncWriteWritableKeeps == IInv /\ AsyncWriteWritable => IInv'
  <1> SUFFICES ASSUME IInv, AsyncWriteWritable PROVE IInv'
    OBVIOUS
  <1> DEFINE x == this
             a == arg
             i == SlotFor(this)
             slot == [writable |-> this, buffer |-> arg]
             slots == pipe.pending
             next == Filling(slots, i, slot)
             f == Frame("write", x, a)
             g == Frame("pause", InputOf(x), NoBuffer)
  <1>1. /\ stack # <<>> /\ Head(stack).call = "asyncWriteWritable"
        /\ Head(stack).call \notin {"clearPendingWrite", "finalized"}
        /\ Head(stack).call \notin HoldingCalls \cup WriteCalls
        /\ pool' = Ref(pool, a)
        /\ UNCHANGED <<setting, readable, writable, request, transform, log>>
        /\ \/ CanAcceptWrite(x) /\ Call(<<f>>) /\ pipe' = pipe
           \/ Call(<<Abort("writeAlreadyPending")>>) /\ pipe' = pipe
           \/ /\ pipe' = [pipe EXCEPT !.pending = next]
              /\ Call(<<>>) \/ Call(<<g>>)
    BY DEF AsyncWriteWritable, Running, streams, Filling, HoldingCalls, WriteCalls
  <1>2. /\ setting \in Settings /\ pool \in Pools(setting) /\ pipe \in Pipes(setting, Full(setting, pool))
        /\ x \in UsedWritables(setting) /\ x \in Readables \cup Writables
        /\ a \in Full(setting, pool) /\ a \in BuffersOf(setting) /\ a \in Nat
    BY <1>1, TopCall, Typed DEF WritableCalls, BufferCalls, BuffersOf
  <1>3. /\ pool' \in Pools(setting) /\ Full(setting, pool') = Full(setting, pool)
        /\ \A c \in BuffersOf(setting) : pool'.refs[c] = pool.refs[c] + Is(a, c)
    <2> HIDE DEF a
    <2> QED BY <1>1, <1>2, Reffed
  <1>4. \A b : Is(a, b) \in Nat
    BY IsNat
  <1>5. \A b \in BuffersOf(setting) : pool.refs[b] \in Int
    BY <1>2 DEF Pools
  <1>6. /\ <<Abort("writeAlreadyPending")>> \in Seq(HarmlessFrames)
        /\ <<>> \in Seq(HarmlessFrames) /\ <<g>> \in Seq(HarmlessFrames)
    <2>1. "writeAlreadyPending" \in Assertions /\ "readFailed" \in ErrorMessages
      BY DEF Assertions, ErrorMessages
    <2>2. <<Abort("writeAlreadyPending")>> \in Seq(HarmlessFrames)
      BY <1>2, <2>1, Errors
    <2>3. InputOf(x) \in UsedReadables(setting)
      BY <1>2, Neighbours
    <2>4. g \in HarmlessFrames
      BY <1>1, <1>2, <2>3, ReadablesCalled DEF ReadableCalls, BufferCalls, SourceCalls
    <2> QED BY <2>2, <2>4
  <1>7. CASE CanAcceptWrite(x) /\ Call(<<f>>) /\ pipe' = pipe
    <2>1. PICK y, n : y = x /\ n = a
      OBVIOUS
    <2>2. /\ CanAcceptWrite(y) /\ Call(<<Frame("write", y, n)>>) /\ pool' = Ref(pool, n)
          /\ y \in UsedWritables(setting) /\ n \in Full(setting, pool)
      BY <1>1, <1>2, <1>7, <2>1
    <2> QED BY <1>1, <1>7, <2>2, WritesNow
  <1>8. CASE Call(<<Abort("writeAlreadyPending")>>) /\ pipe' = pipe
    <2>1. \A b \in BuffersOf(setting) : pool'.refs[b] >= pool.refs[b]
      BY <1>3, <1>4, <1>5
    <2> QED BY <1>1, <1>3, <1>6, <1>8, <2>1, Leaks
  <1>9. CASE pipe' = [pipe EXCEPT !.pending = next] /\ (Call(<<>>) \/ Call(<<g>>))
    <2>1. /\ slots \in Seq(Slots(setting, Full(setting, pool))) /\ i \in 1 .. Len(slots) + 1
          /\ slot \in Slots(setting, Full(setting, pool)) /\ slot.buffer = a
      BY <1>2, SlotFound DEF Pipes, Slots
    <2>2. \E F \in Seq(HarmlessFrames) : Call(F)
      BY <1>6, <1>9
    <2> HIDE DEF a, i, slot, slots
    <2>3. /\ next \in Seq(Slots(setting, Full(setting, pool))) /\ next[i] = slot
          /\ \A clearing : SlotsBut(slots, next, clearing, clearing, i)
      BY <2>1, FilledSlot
    <2> HIDE DEF next
    <2>4. pipe' \in Pipes(setting, Full(setting, pool)) /\ pipe'.pending = next
      BY <1>2, <1>9, <2>3 DEF Pipes
    <2>5. ASSUME NEW b \in BuffersOf(setting)
          PROVE  pool'.refs[b] >= pool.refs[b] + Slot(pipe'.pending, Clearing(stack), i, b)
      <3>1. Slot(next, Clearing(stack), i, b) <= Is(a, b) /\ Slot(next, Clearing(stack), i, b) \in Nat
        BY <2>1, <2>3 DEF Slot, Is
      <3> QED BY <1>3, <1>4, <1>5, <2>4, <3>1
    <2>6. SlotsBut(pipe.pending, pipe'.pending, Clearing(stack), Clearing(stack), i)
      BY <2>3, <2>4 DEF slots
    <2> QED BY <1>1, <1>3, <2>2, <2>4, <2>5, <2>6, PipeSettles
  <1> QED BY <1>1, <1>7, <1>8, <1>9

LEMMA AfterWriteKeeps == IInv /\ AfterWrite => IInv'
  <1> SUFFICES ASSUME IInv, AfterWrite PROVE IInv'
    OBVIOUS
  <1> DEFINE x == this
             f == Frame("retryPendingWrites", x, 1)
             g == Frame("afterRetry", x, NoBuffer)
  <1>1. /\ stack # <<>> /\ Head(stack).call = "afterWrite" /\ Head(stack).call \in HoldingCalls
        /\ Head(stack).call \notin {"clearPendingWrite", "finalized"}
        /\ Head(stack).call \notin WriteCalls
        /\ UNCHANGED <<setting, readable, writable, request, transform, pipe, log>>
        /\ \/ Call(<<Abort("sourceIsNull")>>) /\ pool' = pool
           \/ pool' = Unref(pool, arg) /\ Call(<<f, g>>)
    BY DEF AfterWrite, Running, streams, HoldingCalls, WriteCalls, Do
  <1>2. /\ setting \in Settings /\ pool \in Pools(setting) /\ log' \in Logs(setting)
        /\ x \in UsedWritables(setting) /\ x \in Readables \cup Writables
    BY <1>1, TopCall, Typed DEF WritableCalls
  <1>3. CASE Call(<<Abort("sourceIsNull")>>) /\ pool' = pool
    <2>1. "sourceIsNull" \in Assertions /\ "readFailed" \in ErrorMessages
      BY DEF Assertions, ErrorMessages
    <2>2. <<Abort("sourceIsNull")>> \in Seq(HarmlessFrames)
      BY <1>2, <2>1, Errors
    <2>3. /\ \A b \in BuffersOf(setting) : pool'.refs[b] >= pool.refs[b]
          /\ pool' \in Pools(setting) /\ Full(setting, pool') = Full(setting, pool)
      BY <1>2, <1>3 DEF Pools
    <2> QED BY <1>1, <1>3, <2>2, <2>3, Leaks
  <1>4. CASE pool' = Unref(pool, arg) /\ Call(<<f, g>>)
    <2>1. /\ {"retryPendingWrites", "afterRetry"}
             \subseteq WritableCalls \ (BufferCalls \cup {"clearPendingWrite"})
      BY DEF WritableCalls, BufferCalls
    <2>2. 1 \in Nat /\ NoBuffer \in Nat
      BY DEF NoBuffer
    <2> HIDE DEF x
    <2>3. f \in HarmlessFrames /\ g \in HarmlessFrames
      BY <1>1, <1>2, <2>1, <2>2, WritablesCalled
    <2>4. <<f, g>> \in Seq(HarmlessFrames)
      BY <2>3
    <2> QED BY <1>1, <1>2, <1>4, <2>4, Released
  <1> QED BY <1>1, <1>3, <1>4

LEMMA ThreeAndMore ==
    ASSUME NEW X, NEW f \in X, NEW g \in X, NEW h \in X, NEW t \in Seq(X)
    PROVE  <<f, g, h>> \o t = On(f, On(g, On(h, t)))
  <1> DEFINE s1 == <<f>>
             s2 == <<g>>
             s3 == <<h>>
             u == <<f, g, h>>
  <1>1. /\ s1 \in Seq(X) /\ s2 \in Seq(X) /\ s3 \in Seq(X) /\ u \in Seq(X)
        /\ Len(s1) = 1 /\ Len(s2) = 1 /\ Len(s3) = 1 /\ Len(u) = 3
        /\ s1[1] = f /\ s2[1] = g /\ s3[1] = h /\ u[1] = f /\ u[2] = g /\ u[3] = h
    OBVIOUS
  <1> HIDE DEF s1, s2, s3, u
  <1> DEFINE v == s3 \o t
             w == s2 \o v
             z == s1 \o w
             n == Len(t)
  <1>2. n \in Nat
    BY LenProperties
  <1>3. v \in Seq(X) /\ Len(v) = 1 + n /\ \A i \in 1 .. 1 + n : v[i] = IF i <= 1 THEN h ELSE t[i - 1]
    <2>1. /\ v \in Seq(X) /\ Len(v) = Len(s3) + n
          /\ \A i \in 1 .. Len(s3) + n : v[i] = IF i <= Len(s3) THEN s3[i] ELSE t[i - Len(s3)]
      BY <1>1, ConcatProperties
    <2> QED BY <1>1, <1>2, <2>1
  <1> HIDE DEF v
  <1>4. w \in Seq(X) /\ Len(w) = 2 + n /\ \A i \in 1 .. 2 + n : w[i] = IF i <= 1 THEN g ELSE v[i - 1]
    <2>1. /\ w \in Seq(X) /\ Len(w) = Len(s2) + Len(v)
          /\ \A i \in 1 .. Len(s2) + Len(v) : w[i] = IF i <= Len(s2) THEN s2[i] ELSE v[i - Len(s2)]
      <3>1. s2 \in Seq(X) /\ v \in Seq(X)
        BY <1>1, <1>3
      <3> QED BY <3>1, ConcatProperties
    <2> QED BY <1>1, <1>2, <1>3, <2>1
  <1> HIDE DEF w
  <1>5. z \in Seq(X) /\ Len(z) = 3 + n /\ \A i \in 1 .. 3 + n : z[i] = IF i <= 1 THEN f ELSE w[i - 1]
    <2>1. /\ z \in Seq(X) /\ Len(z) = Len(s1) + Len(w)
          /\ \A i \in 1 .. Len(s1) + Len(w) : z[i] = IF i <= Len(s1) THEN s1[i] ELSE w[i - Len(s1)]
      <3>1. s1 \in Seq(X) /\ w \in Seq(X)
        BY <1>1, <1>4
      <3> QED BY <3>1, ConcatProperties
    <2> QED BY <1>1, <1>2, <1>4, <2>1
  <1> HIDE DEF z
  <1>6. /\ u \o t \in Seq(X) /\ Len(u \o t) = 3 + n
        /\ \A i \in 1 .. 3 + n : (u \o t)[i] = IF i <= 3 THEN u[i] ELSE t[i - 3]
    <2>1. /\ u \o t \in Seq(X) /\ Len(u \o t) = Len(u) + n
          /\ \A i \in 1 .. Len(u) + n : (u \o t)[i] = IF i <= Len(u) THEN u[i] ELSE t[i - Len(u)]
      BY <1>1, ConcatProperties
    <2> QED BY <1>1, <1>2, <2>1
  <1> HIDE DEF n
  <1>7. ASSUME NEW i \in 1 .. 3 + n PROVE (u \o t)[i] = z[i]
    <2>1. CASE i = 1
      BY <1>1, <1>2, <1>5, <1>6, <2>1
    <2>2. CASE i = 2
      <3>1. z[i] = w[1] /\ w[1] = g
        BY <1>2, <1>4, <1>5, <2>2
      <3> QED BY <1>1, <1>2, <1>6, <2>2, <3>1
    <2>3. CASE i = 3
      <3>1. z[i] = w[2] /\ w[2] = v[1] /\ v[1] = h
        BY <1>2, <1>3, <1>4, <1>5, <2>3
      <3> QED BY <1>1, <1>2, <1>6, <2>3, <3>1
    <2>4. CASE i > 3
      <3>1. i - 1 \in 2 .. 2 + n /\ i - 2 \in 2 .. 1 + n /\ i - 1 - 1 = i - 2 /\ i - 2 - 1 = i - 3
        BY <1>2, <2>4
      <3>2. z[i] = w[i - 1]
        BY <1>5, <2>4
      <3>3. w[i - 1] = v[i - 2]
        BY <1>2, <1>4, <2>4, <3>1
      <3>4. v[i - 2] = t[i - 3]
        BY <1>2, <1>3, <2>4, <3>1
      <3> QED BY <1>6, <2>4, <3>2, <3>3, <3>4
    <2>5. i = 1 \/ i = 2 \/ i = 3 \/ i > 3
      BY <1>2
    <2> QED BY <2>1, <2>2, <2>3, <2>4, <2>5
  <1>8. u \o t = z
    BY <1>5, <1>6, <1>7, SeqEqual
  <1> QED BY <1>8 DEF u, z, w, v, s1, s2, s3, On

\* A pending write is made.  Until write has returned the slot holds its reference no more.
LEMMA RetriesNow ==
    ASSUME IInv, stack # <<>>, Head(stack).call = "retryPendingWrites",
           NEW x, x \in UsedWritables(setting), NEW m, m \in Pending(pipe.pending), m \in Nat,
           NEW y, NEW n, y = pipe.pending[m].writable, n = pipe.pending[m].buffer,
           CanAcceptWrite(y),
           Call(<<Frame("write", y, n), Frame("clearPendingWrite", x, m),
                  Frame("retryPendingWrites", x, m + 1)>>),
           UNCHANGED <<setting, pool, readable, writable, request, transform, pipe, log>>
    PROVE  IInv'
  <1> DEFINE f == Frame("write", y, n)
             g == Frame("clearPendingWrite", x, m)
             h == Frame("retryPendingWrites", x, m + 1)
             t == Tail(stack)
             full == Full(setting, pool)
             top == Head(stack)
  <1>1. /\ setting \in Settings /\ pipe.pending \in Seq(Slots(setting, full))
        /\ full \subseteq BuffersOf(setting) /\ full \subseteq Nat
        /\ StackOK(setting, full, stack) /\ WriteOnTop(stack) /\ pool \in Pools(setting)
    BY Typed DEF IInv, StackInv, Pipes, BuffersOf
  <1>2. m \in DOMAIN pipe.pending /\ n # NoBuffer
    BY DEF Pending
  <1>3. pipe.pending[m] \in Slots(setting, full)
    BY <1>1, <1>2, ElementOfSeq, LenProperties
  <1>4. y \in UsedWritables(setting) /\ n \in full /\ n \in Nat
    BY <1>1, <1>2, <1>3 DEF Slots
  <1>5. UsedWritables(setting) \subseteq Writables
    BY <1>1, SettingIs
  <1>6. /\ f \in Frames /\ g \in Frames /\ h \in Frames
        /\ FrameOK(setting, full, f) /\ FrameOK(setting, full, g) /\ FrameOK(setting, full, h)
    <2> HIDE DEF full
    <2>1. {"write", "clearPendingWrite", "retryPendingWrites"} \subseteq CallNames
      BY DEF CallNames, WritableCalls
    <2>2. x \in Readables \cup Writables /\ y \in Readables \cup Writables /\ m + 1 \in Nat
      BY <1>4, <1>5
    <2>3. f \in Frames /\ g \in Frames /\ h \in Frames
      BY <1>4, <2>1, <2>2 DEF Frames, Frame
    <2>4. FrameOK(setting, full, f)
      BY <1>4 DEF FrameOK, Frame, ReadableCalls, TransformCalls, SourceCalls
    <2>5. FrameOK(setting, full, g)
      BY DEF FrameOK, Frame, ReadableCalls, TransformCalls, SourceCalls, BufferCalls
    <2>6. FrameOK(setting, full, h)
      BY DEF FrameOK, Frame, ReadableCalls, TransformCalls, SourceCalls, BufferCalls
    <2> QED BY <2>3, <2>4, <2>5, <2>6
  <1>7. /\ f.call = "write" /\ g.call = "clearPendingWrite" /\ h.call = "retryPendingWrites"
        /\ f.of = y /\ g.arg = m /\ f.arg = n
    BY DEF Frame
  <1>8. /\ "write" \in HoldingCalls /\ "write" \in WriteCalls
        /\ "clearPendingWrite" \notin HoldingCalls /\ "retryPendingWrites" \notin HoldingCalls
        /\ "retryPendingWrites" \notin WriteCalls
    BY DEF HoldingCalls, WriteCalls
  <1>9. \A b : /\ Holds(f, b) <=> n = b
               /\ ~Holds(g, b) /\ ~Holds(h, b) /\ ~Holds(top, b)
    BY <1>7, <1>8 DEF Holds
  <1>10. top.call = "retryPendingWrites"
    OBVIOUS
  <1> DEFINE s3 == On(h, t)
             s2 == On(g, s3)
             s1 == On(f, s2)
             set == setting
  <1>11. /\ StackOK(set, full, t) /\ NoWrite(t) /\ t \in Seq(Frames)
         /\ Clearing(t) = {} /\ Clearing(stack) = {} /\ Finalizers(stack) = Finalizers(t)
         /\ \A b : HeldByFrames(stack, b) = HeldByFrames(t, b) + (IF Holds(top, b) THEN 1 ELSE 0)
    <2>1. /\ StackOK(set, full, stack) /\ WriteOnTop(stack) /\ stack # <<>>
          /\ top = Head(stack) /\ t = Tail(stack)
          /\ Head(stack).call \notin WriteCalls /\ Head(stack).call # "clearPendingWrite"
          /\ Head(stack).call # "finalized"
      BY <1>1, <1>8
    <2> HIDE DEF set, full, top, t
    <2>2. /\ StackOK(set, full, t) /\ NoWrite(t) /\ Clearing(t) = {}
          /\ Clearing(stack) = Clearing(t) /\ Finalizers(stack) = Finalizers(t)
          /\ \A b : HeldByFrames(stack, b) = HeldByFrames(t, b) + (IF Holds(top, b) THEN 1 ELSE 0)
      BY <2>1, Popped
    <2>3. t \in Seq(Frames)
      BY <2>2 DEF StackOK
    <2> QED BY <2>2, <2>3
  <1>12. \A b : HeldByFrames(t, b) \in Nat
    BY <1>11, FramesCount
  <1> HIDE DEF f, g, h, t, full, set, top
  <1>13. \A b : HeldByFrames(stack, b) = HeldByFrames(t, b)
    BY <1>9, <1>11, <1>12
  <1>14. stack' = s1
    <2>1. stack' = <<f, g, h>> \o t
      BY DEF Call, f, g, h, t
    <2>2. f \in Frames /\ g \in Frames /\ h \in Frames /\ t \in Seq(Frames)
      BY <1>6, <1>11
    <2>3. <<f, g, h>> \o t = On(f, On(g, On(h, t)))
      BY <2>2, ThreeAndMore
    <2> QED BY <2>1, <2>3
  <1>15. /\ StackOK(set, full, s3) /\ NoWrite(s3) /\ Clearing(s3) = {}
         /\ Finalizers(s3) = Finalizers(t)
         /\ \A b : HeldByFrames(s3, b) = HeldByFrames(t, b) + (IF Holds(h, b) THEN 1 ELSE 0)
    <2>1. /\ StackOK(set, full, t) /\ h \in Frames /\ FrameOK(set, full, h)
          /\ h.call = "afterWork" => t = <<>>
          /\ NoWrite(t)
          /\ h.call \in WriteCalls \/ Clearing(t) = {}
          /\ h.call # "write" /\ h.call # "clearPendingWrite" /\ h.call # "finalized" /\ NoWrite(t)
          /\ Clearing(t) = {}
      BY <1>6, <1>7, <1>11 DEF set
    <2>2. /\ StackOK(set, full, On(h, t)) /\ Head(On(h, t)) = h
          /\ WriteOnTop(On(h, t))
          /\ h.call # "write" => NoWrite(On(h, t))
          /\ \A b : HeldByFrames(On(h, t), b)
                    = HeldByFrames(t, b) + (IF Holds(h, b) THEN 1 ELSE 0)
          /\ Clearing(On(h, t))
             = Clearing(t) \cup (IF h.call = "clearPendingWrite" THEN {h.arg} ELSE {})
          /\ Finalizers(On(h, t))
             = Finalizers(t) \cup (IF h.call = "finalized" THEN {h.of} ELSE {})
      BY <2>1, Pushed
    <2> QED BY <2>1, <2>2
  <1> HIDE DEF s3
  <1>16. /\ StackOK(set, full, s2) /\ NoWrite(s2) /\ Clearing(s2) = {m}
         /\ Finalizers(s2) = Finalizers(t)
         /\ \A b : HeldByFrames(s2, b) = HeldByFrames(s3, b) + (IF Holds(g, b) THEN 1 ELSE 0)
    <2>1. /\ StackOK(set, full, s3) /\ g \in Frames /\ FrameOK(set, full, g)
          /\ g.call = "afterWork" => s3 = <<>>
          /\ NoWrite(s3)
          /\ g.call \in WriteCalls \/ Clearing(s3) = {}
      BY <1>6, <1>7, <1>15 DEF set
    <2>2. /\ StackOK(set, full, On(g, s3)) /\ Head(On(g, s3)) = g
          /\ WriteOnTop(On(g, s3))
          /\ g.call # "write" => NoWrite(On(g, s3))
          /\ \A b : HeldByFrames(On(g, s3), b)
                    = HeldByFrames(s3, b) + (IF Holds(g, b) THEN 1 ELSE 0)
          /\ Clearing(On(g, s3))
             = Clearing(s3) \cup (IF g.call = "clearPendingWrite" THEN {g.arg} ELSE {})
          /\ Finalizers(On(g, s3))
             = Finalizers(s3) \cup (IF g.call = "finalized" THEN {g.of} ELSE {})
      BY <2>1, Pushed
    <2>3. /\ g.call # "write" /\ g.call = "clearPendingWrite" /\ g.call # "finalized"
          /\ NoWrite(s3) /\ Clearing(s3) = {} /\ g.arg = m /\ Finalizers(s3) = Finalizers(t)
      BY <1>7, <1>15
    <2> QED BY <2>1, <2>2, <2>3
  <1> HIDE DEF s2
  <1>17. /\ StackOK(set, full, s1) /\ WriteOnTop(s1) /\ Clearing(s1) = {m}
         /\ Finalizers(s1) = Finalizers(t) /\ Head(s1) = f
         /\ \A b : HeldByFrames(s1, b) = HeldByFrames(s2, b) + (IF Holds(f, b) THEN 1 ELSE 0)
    <2>1. /\ StackOK(set, full, s2) /\ f \in Frames /\ FrameOK(set, full, f)
          /\ f.call = "afterWork" => s2 = <<>>
          /\ NoWrite(s2)
          /\ f.call \in WriteCalls \/ Clearing(s2) = {}
      BY <1>6, <1>7, <1>8, <1>16 DEF set
    <2>2. /\ StackOK(set, full, On(f, s2)) /\ Head(On(f, s2)) = f
          /\ WriteOnTop(On(f, s2))
          /\ f.call # "write" => NoWrite(On(f, s2))
          /\ \A b : HeldByFrames(On(f, s2), b)
                    = HeldByFrames(s2, b) + (IF Holds(f, b) THEN 1 ELSE 0)
          /\ Clearing(On(f, s2))
             = Clearing(s2) \cup (IF f.call = "clearPendingWrite" THEN {f.arg} ELSE {})
          /\ Finalizers(On(f, s2))
             = Finalizers(s2) \cup (IF f.call = "finalized" THEN {f.of} ELSE {})
      BY <2>1, Pushed
    <2>3. /\ f.call # "clearPendingWrite" /\ f.call # "finalized"
          /\ NoWrite(s2) /\ Clearing(s2) = {m} /\ Finalizers(s2) = Finalizers(t)
      BY <1>7, <1>16
    <2> QED BY <2>1, <2>2, <2>3
  <1> HIDE DEF s1
  <1>18. \A b : HeldByFrames(s1, b) = HeldByFrames(stack, b) + Is(n, b)
    BY <1>9, <1>12, <1>13, <1>15, <1>16, <1>17 DEF Is
  <1>19. TypesInv'
    BY <1>1, Typed, TypesKept DEF full
  <1>20. StackInv'
    <2>1. StackOK(setting, Full(setting, pool), stack)' /\ WriteOnTop(stack)'
      BY <1>14, <1>17 DEF set, full
    <2>2. CanAcceptWrite(y)'
      BY DEF CanAcceptWrite
    <2>3. Head(stack') = f
      BY <1>14, <1>17
    <2>4. CanAcceptWrite(f.of)'
      BY <1>7, <2>2
    <2>5. CanAcceptWrite(this)'
      BY <2>3, <2>4 DEF this
    <2> QED BY <2>1, <2>5 DEF StackInv
  <1>21. ASSUME NEW b \in BuffersOf(setting)
         PROVE  pool'.refs[b] + KeptOf(b) + HeldByFrames(stack, b)
                >= pool.refs[b] + KeptOf(b)' + HeldByFrames(stack', b)
    <2>1. SlotsBut(pipe.pending, pipe.pending, Clearing(stack), {m}, m)
      BY <1>11 DEF SlotsBut
    <2>2. /\ Kept(readable, writable, request, transform, pipe.pending, {m}, Finalizers(stack), b)
             = KeptOf(b) - Slot(pipe.pending, Clearing(stack), m, b) + Slot(pipe.pending, {m}, m, b)
      BY <1>1, <2>1, KeptPending
    <2>3. Slot(pipe.pending, Clearing(stack), m, b) = Is(n, b) /\ Slot(pipe.pending, {m}, m, b) = 0
      BY <1>2, <1>11 DEF Slot, Is
    <2>4. KeptOf(b)' = Kept(readable, writable, request, transform, pipe.pending, {m}, Finalizers(stack), b)
      BY <1>11, <1>14, <1>17 DEF KeptOf
    <2>5. /\ KeptOf(b) \in Nat /\ Is(n, b) \in Nat /\ HeldByFrames(stack, b) \in Nat
          /\ pool.refs[b] \in Int /\ pool'.refs[b] = pool.refs[b]
      BY <1>1, <1>12, <1>13, KeptTyped, IsNat DEF Pools
    <2>6. HeldByFrames(stack', b) = HeldByFrames(stack, b) + Is(n, b)
      BY <1>14, <1>18
    <2>7. KeptOf(b)' = KeptOf(b) - Is(n, b)
      BY <2>2, <2>3, <2>4, <2>5
    <2> DEFINE kept == KeptOf(b)
               kept2 == KeptOf(b)'
               held == HeldByFrames(stack, b)
               held2 == HeldByFrames(stack', b)
               r == pool.refs[b]
               r2 == pool'.refs[b]
               one == Is(n, b)
    <2>8. /\ kept2 = kept - one /\ held2 = held + one /\ r2 = r
          /\ kept \in Nat /\ one \in Nat /\ held \in Nat /\ r \in Int
      BY <2>5, <2>6, <2>7
    <2> HIDE DEF kept, kept2, held, held2, r, r2, one
    <2>9. r2 + kept + held >= r + kept2 + held2
      BY <2>8
    <2> QED BY <2>9 DEF kept, kept2, held, held2, r, r2
  <1> QED BY <1>19, <1>20, <1>21, Rebalanced

LEMMA RetryPendingWritesKeeps == IInv /\ RetryPendingWrites => IInv'
  <1> SUFFICES ASSUME IInv, RetryPendingWrites PROVE IInv'
    OBVIOUS
  <1> DEFINE ready == {i \in Pending(pipe.pending) :
                           i >= arg /\ CanAcceptWrite(pipe.pending[i].writable)}
             least == Min(ready)
             slot == pipe.pending[least]
  <1>1. /\ stack # <<>> /\ Head(stack).call = "retryPendingWrites" /\ Plain(Head(stack))
        /\ UNCHANGED <<setting, pool, readable, writable, request, transform, pipe, log>>
        /\ ready = {} => Call(<<>>)
        /\ ready # {} => Call(<<Frame("write", slot.writable, slot.buffer),
                                Frame("clearPendingWrite", this, least),
                                Frame("retryPendingWrites", this, least + 1)>>)
    BY DEF RetryPendingWrites, Running, streams, Plain, HoldingCalls
  <1>2. pipe.pending \in Seq(Slots(setting, Full(setting, pool))) /\ this \in UsedWritables(setting)
    BY <1>1, TopCall, Typed DEF Pipes, WritableCalls
  <1>3. CASE ready = {}
    <2>1. Call(<<>>) /\ <<>> \in Seq(HarmlessFrames)
      BY <1>1, <1>3
    <2> QED BY <1>1, <2>1, OnlyCalls
  <1>4. CASE ready # {}
    <2>1. ready \in SUBSET Nat
      BY <1>2, LenProperties DEF Pending
    <2>2. \A i \in ready : i \in Pending(pipe.pending) /\ i \in Nat
                           /\ CanAcceptWrite(pipe.pending[i].writable)
      BY <2>1
    <2> HIDE DEF ready
    <2>3. least \in ready
      BY <1>4, <2>1, LeastOfSet
    <2>4. PICK x, m, y, n : x = this /\ m = least /\ y = slot.writable /\ n = slot.buffer
      OBVIOUS
    <2>5. /\ m \in Pending(pipe.pending) /\ m \in Nat
          /\ y = pipe.pending[m].writable /\ n = pipe.pending[m].buffer
          /\ CanAcceptWrite(y) /\ x \in UsedWritables(setting)
      BY <1>2, <2>2, <2>3, <2>4
    <2>6. Call(<<Frame("write", y, n), Frame("clearPendingWrite", x, m),
                 Frame("retryPendingWrites", x, m + 1)>>)
      BY <1>1, <1>4, <2>4
    <2> QED BY <1>1, <2>5, <2>6, RetriesNow
  <1> QED BY <1>3, <1>4

LEMMA ClearPendingWriteKeeps == IInv /\ ClearPendingWrite => IInv'
  <1> SUFFICES ASSUME IInv, ClearPendingWrite PROVE IInv'
    OBVIOUS
  <1> DEFINE m == arg
             slots == pipe.pending
             next == [slots EXCEPT ![m].buffer = NoBuffer]
             t == Tail(stack)
             full == Full(setting, pool)
             top == Head(stack)
  <1>1. /\ stack # <<>> /\ top.call = "clearPendingWrite" /\ stack' = <<>> \o Tail(stack)
        /\ pipe' = [pipe EXCEPT !.pending = next]
        /\ UNCHANGED <<setting, pool, readable, writable, request, transform, log>>
    BY DEF ClearPendingWrite, Running, streams, Return, Call
  <1>2. /\ setting \in Settings /\ pipe \in Pipes(setting, full)
        /\ slots \in Seq(Slots(setting, full))
        /\ StackOK(setting, full, stack) /\ WriteOnTop(stack) /\ pool \in Pools(setting)
    BY Typed DEF IInv, StackInv, Pipes
  <1>3. /\ next \in Seq(Slots(setting, full)) /\ DOMAIN next = DOMAIN slots
        /\ \A i \in DOMAIN slots : /\ i # m => next[i] = slots[i]
                                   /\ next[m].buffer = NoBuffer \/ m \notin DOMAIN slots
    <2>1. CASE m \in DOMAIN slots
      <3>1. slots[m] \in Slots(setting, full) /\ m \in 1 .. Len(slots)
        BY <1>2, <2>1, ElementOfSeq, LenProperties
      <3> DEFINE s == [slots[m] EXCEPT !.buffer = NoBuffer]
      <3>2. s \in Slots(setting, full) /\ s.buffer = NoBuffer
        BY <3>1 DEF Slots
      <3>3. next = [slots EXCEPT ![m] = s]
        BY <1>2
      <3> HIDE DEF s, m, next
      <3>4. [slots EXCEPT ![m] = s] \in Seq(Slots(setting, full))
        BY <1>2, <3>1, <3>2, ExceptSeq
      <3> QED BY <2>1, <3>2, <3>3, <3>4
    <2>2. CASE m \notin DOMAIN slots
      <3>1. next = slots
        BY <1>2, <2>2
      <3> QED BY <1>2, <2>2, <3>1
    <2> QED BY <2>1, <2>2
  <1> HIDE DEF next
  <1>4. pipe' \in Pipes(setting, full) /\ pipe'.pending = next
    BY <1>1, <1>2, <1>3 DEF Pipes
  <1>5. /\ StackOK(setting, full, t) /\ NoWrite(t) /\ t \in Seq(Frames)
        /\ Clearing(stack) = Clearing(t) \cup {m} /\ Finalizers(stack) = Finalizers(t)
        /\ \A b : HeldByFrames(stack, b) = HeldByFrames(t, b) + (IF Holds(top, b) THEN 1 ELSE 0)
    <2>1. /\ StackOK(setting, full, stack) /\ WriteOnTop(stack) /\ stack # <<>>
          /\ top = Head(stack) /\ t = Tail(stack) /\ m = top.arg
          /\ top.call = "clearPendingWrite" /\ top.call # "finalized"
      BY <1>1, <1>2 DEF arg
    <2> HIDE DEF full, top, t, m
    <2>2. /\ StackOK(setting, full, t) /\ NoWrite(t)
          /\ Clearing(stack) = Clearing(t) \cup (IF top.call = "clearPendingWrite" THEN {top.arg} ELSE {})
          /\ Finalizers(stack) = Finalizers(t) \cup (IF top.call = "finalized" THEN {top.of} ELSE {})
          /\ \A b : HeldByFrames(stack, b) = HeldByFrames(t, b) + (IF Holds(top, b) THEN 1 ELSE 0)
      BY <2>1, Popped
    <2>3. t \in Seq(Frames)
      BY <2>2 DEF StackOK
    <2> QED BY <2>1, <2>2, <2>3
  <1>6. \A b : ~Holds(top, b) /\ HeldByFrames(t, b) \in Nat
    BY <1>1, <1>5, FramesCount DEF Holds, HoldingCalls
  <1>7. stack' = t
    BY <1>1, <1>5, ConcatEmptySeq
  <1>8. \A b : HeldByFrames(stack, b) = HeldByFrames(stack', b) /\ HeldByFrames(stack, b) \in Nat
    <2> HIDE DEF t, top
    <2> QED BY <1>5, <1>6, <1>7
  <1>9. TypesInv'
    BY <1>1, <1>2, <1>4, Typed, TypesKept
  <1>10. StackInv'
    <2>1. StackOK(setting, Full(setting, pool), stack)'
      BY <1>1, <1>5, <1>7
    <2>2. WriteOnTop(stack') /\ (stack' # <<>> => Head(stack').call # "write")
      BY <1>5, <1>7, NoWriteRuns DEF NoWrite, WriteOnTop
    <2> QED BY <2>1, <2>2 DEF StackInv, Running
  <1>11. ASSUME NEW b \in BuffersOf(setting)
         PROVE  pool'.refs[b] + KeptOf(b) + HeldByFrames(stack, b)
                >= pool.refs[b] + KeptOf(b)' + HeldByFrames(stack', b)
    <2>1. SlotsBut(slots, next, Clearing(stack), Clearing(t), m)
      BY <1>3, <1>5 DEF SlotsBut
    <2>2. Kept(readable, writable, request, transform, next, Clearing(t), Finalizers(stack), b)
          = KeptOf(b) - Slot(slots, Clearing(stack), m, b) + Slot(next, Clearing(t), m, b)
      BY <1>2, <1>3, <2>1, KeptPending
    <2>3. Slot(slots, Clearing(stack), m, b) = 0 /\ Slot(next, Clearing(t), m, b) = 0
      <3>1. b # NoBuffer
        BY <1>2, SettingIs DEF NoBuffer
      <3> QED BY <1>3, <1>5, <3>1 DEF Slot
    <2>4. KeptOf(b)' = Kept(readable, writable, request, transform, next, Clearing(t),
                            Finalizers(stack), b)
      BY <1>1, <1>4, <1>5, <1>7 DEF KeptOf
    <2>5. /\ KeptOf(b) \in Nat /\ pool.refs[b] \in Int /\ pool'.refs[b] = pool.refs[b]
      BY <1>1, <1>2, KeptTyped DEF Pools
    <2>6. KeptOf(b)' = KeptOf(b)
      BY <2>2, <2>3, <2>4, <2>5
    <2> HIDE DEF KeptOf
    <2> QED BY <1>8, <2>5, <2>6
  <1> QED BY <1>1, <1>9, <1>10, <1>11, Rebalanced

\* The references of the pending writes are given back, and no slot is being cleared.
LEMMA SlotsReleased ==
    ASSUME IInv, stack # <<>>, Head(stack).call = "unpipe", NEW held,
           held = [i \in DOMAIN pipe.pending |-> pipe.pending[i].buffer]
    PROVE  /\ held \in Seq(Full(setting, pool) \cup {NoBuffer})
           /\ \A b : /\ Count(held, b) = HeldByPending(pipe.pending, Clearing(stack), b)
                     /\ HeldByPending(<<>>, Clearing(stack), b) = 0
  <1>1. /\ pipe.pending \in Seq(Slots(setting, Full(setting, pool)))
        /\ StackOK(setting, Full(setting, pool), stack)
    BY Typed DEF Pipes
  <1>2. Clearing(stack) = {}
    <2>1. Head(stack).call \notin WriteCalls /\ Head(stack).call # "clearPendingWrite"
      BY DEF WriteCalls
    <2>2. /\ Clearing(Tail(stack)) = {}
          /\ Clearing(stack) = Clearing(Tail(stack))
      BY <1>1, <2>1, Popped
    <2> QED BY <2>2
  <1>3. /\ Len(pipe.pending) \in Nat /\ DOMAIN pipe.pending = 1 .. Len(pipe.pending)
        /\ \A i \in DOMAIN pipe.pending :
               pipe.pending[i].buffer \in Full(setting, pool) \cup {NoBuffer}
    <2>1. \A i \in DOMAIN pipe.pending : pipe.pending[i] \in Slots(setting, Full(setting, pool))
      BY <1>1, ElementOfSeq, LenProperties
    <2> QED BY <1>1, <2>1, LenProperties DEF Slots
  <1>4. held \in Seq(Full(setting, pool) \cup {NoBuffer})
    BY <1>3, IsASeq
  <1>5. ASSUME NEW b PROVE Count(held, b) = HeldByPending(pipe.pending, Clearing(stack), b)
    <2>1. {i \in DOMAIN held : held[i] = b}
          = {i \in DOMAIN pipe.pending : i \notin Clearing(stack) /\ pipe.pending[i].buffer = b}
      BY <1>2
    <2> QED BY <2>1 DEF Count, HeldByPending
  <1>6. ASSUME NEW b PROVE HeldByPending(<<>>, Clearing(stack), b) = 0
    <2>1. {i \in DOMAIN <<>> : i \notin Clearing(stack) /\ <<>>[i].buffer = b} = {}
      OBVIOUS
    <2> QED BY <2>1, FS_EmptySet DEF HeldByPending
  <1> QED BY <1>4, <1>5, <1>6

LEMMA UnpipeKeeps == IInv /\ Unpipe => IInv'
  <1> SUFFICES ASSUME IInv, Unpipe PROVE IInv'
    OBVIOUS
  <1> DEFINE held == [i \in DOMAIN pipe.pending |-> pipe.pending[i].buffer]
             slots == pipe.pending
  <1>1. /\ stack # <<>> /\ Head(stack).call = "unpipe" /\ Plain(Head(stack))
        /\ Head(stack).call \notin {"clearPendingWrite", "finalized"}
        /\ UNCHANGED <<setting, readable, writable, request, transform, log>>
        /\ \/ Call(<<Abort("unpipeSourceIsNull")>>) /\ pool' = pool /\ pipe' = pipe
           \/ /\ pool' = UnrefAll(pool, held) /\ Call(<<>>)
              /\ pipe' = [pipe EXCEPT !.piped = FALSE, !.pending = <<>>,
                                      !.shouldEndWhenDrained = FALSE, !.endingPipes = FALSE]
    BY DEF Unpipe, Running, streams, Return, Plain, HoldingCalls
  <1>2. /\ setting \in Settings /\ pool \in Pools(setting) /\ pipe \in Pipes(setting, Full(setting, pool))
        /\ Head(stack) \in Frames
    BY <1>1, TopCall, Typed
  <1>3. CASE Call(<<Abort("unpipeSourceIsNull")>>) /\ pool' = pool /\ pipe' = pipe
    <2>1. "unpipeSourceIsNull" \in Assertions /\ "readFailed" \in ErrorMessages
      BY DEF Assertions, ErrorMessages
    <2>2. Source \in Readables \cup Writables
      BY DEF Readables
    <2>3. <<Abort("unpipeSourceIsNull")>> \in Seq(HarmlessFrames)
      BY <2>1, <2>2, Errors
    <2> QED BY <1>1, <1>3, <2>3, OnlyCalls
  <1>4. CASE /\ pool' = UnrefAll(pool, held) /\ Call(<<>>)
             /\ pipe' = [pipe EXCEPT !.piped = FALSE, !.pending = <<>>,
                                     !.shouldEndWhenDrained = FALSE, !.endingPipes = FALSE]
    <2>1. pipe' \in Pipes(setting, Full(setting, pool)) /\ pipe'.pending = <<>>
      <3> DEFINE all == Slots(setting, Full(setting, pool))
      <3>1. <<>> \in Seq(all)
        OBVIOUS
      <3>2. pipe \in [piped : BOOLEAN, pending : Seq(all), shouldEndWhenDrained : BOOLEAN,
                      endingPipes : BOOLEAN, finishing : SUBSET Sinks]
        BY <1>2 DEF Pipes
      <3> HIDE DEF all
      <3>3. /\ pipe' \in [piped : BOOLEAN, pending : Seq(all), shouldEndWhenDrained : BOOLEAN,
                           endingPipes : BOOLEAN, finishing : SUBSET Sinks]
            /\ pipe'.pending = <<>>
        BY <1>4, <3>1, <3>2
      <3> QED BY <3>3 DEF Pipes, all
    <2>2. /\ held \in Seq(Full(setting, pool) \cup {NoBuffer})
          /\ \A b : /\ Count(held, b) = HeldByPending(slots, Clearing(stack), b)
                    /\ HeldByPending(<<>>, Clearing(stack), b) = 0
      BY <1>1, SlotsReleased
    <2> HIDE DEF held
    <2>3. /\ pool' \in Pools(setting) /\ Full(setting, pool') = Full(setting, pool)
          /\ \A c \in BuffersOf(setting) : pool'.refs[c] = pool.refs[c] - Count(held, c)
      BY <1>2, <1>4, <2>2, AllUnreffed
    <2>4. TypesInv'
      BY <1>1, <2>1, <2>3, Typed, TypesKept
    <2>5. ASSUME NEW b \in BuffersOf(setting)
          PROVE  pool'.refs[b] + KeptOf(b) + Owed(Head(stack), b)
                 >= pool.refs[b] + Kept(readable', writable', request', transform', pipe'.pending,
                                        Clearing(stack), Finalizers(stack), b)
      <3> DEFINE after == Kept(readable', writable', request', transform', pipe'.pending,
                               Clearing(stack), Finalizers(stack), b)
                 kept == KeptOf(b)
                 owed == Owed(Head(stack), b)
                 n == HeldByPending(slots, Clearing(stack), b)
                 r == pool.refs[b]
                 r2 == pool'.refs[b]
      <3>1. /\ ByQueues(readable, writable, b) \in Nat /\ ByRequests(request, b) \in Nat
            /\ ByTransforms(transform, Finalizers(stack), b) \in Nat
            /\ n \in Nat /\ kept \in Nat
        BY KeptTyped
      <3>2. after = kept - n
        <4>1. /\ kept = ByQueues(readable, writable, b) + ByRequests(request, b)
                        + ByTransforms(transform, Finalizers(stack), b) + n
              /\ after = ByQueues(readable, writable, b) + ByRequests(request, b)
                         + ByTransforms(transform, Finalizers(stack), b) + 0
          BY <1>1, <2>1, <2>2 DEF KeptOf, Kept
        <4> HIDE DEF after, kept, n
        <4> QED BY <3>1, <4>1
      <3>3. /\ owed \in Nat /\ r \in Int /\ r2 = r - n
        BY <1>2, <2>2, <2>3, OwedNat DEF Pools
      <3> HIDE DEF after, kept, owed, n, r, r2
      <3>4. r2 + kept + owed >= r + after
        BY <3>1, <3>2, <3>3
      <3> QED BY <3>4 DEF after, kept, owed, r, r2
    <2>6. /\ Full(setting, pool) \subseteq Full(setting, pool') /\ <<>> \in Seq(HarmlessFrames)
          /\ setting' = setting
      BY <1>1, <2>3
    <2> QED BY <1>1, <1>4, <2>4, <2>5, <2>6, Settles
  <1> QED BY <1>1, <1>3, <1>4

-----------------------------------------------------------------------------
(* Whole behaviours                                                        *)

LEMMA NoneHeld ==
    ASSUME NEW b,
           NEW r, NEW w, \A x \in DOMAIN r : r[x].queue = <<>>, \A x \in DOMAIN w : w[x].queue = <<>>,
           NEW q, \A x \in {Source} \cup Sinks : q[x].buffer # b,
           NEW t, \A x \in Transforms : t[x].state = "None",
           NEW st, \A i \in DOMAIN st : st[i].call \notin HoldingCalls
    PROVE  Held(r, w, q, t, <<>>, st, b) = 0
  <1>1. ASSUME NEW f, \A x \in DOMAIN f : f[x].queue = <<>> PROVE InQueues(f, b) = 0
    <2>1. \A x \in DOMAIN f : {i \in DOMAIN f[x].queue : f[x].queue[i] = b} = {}
      BY <1>1
    <2>2. UNION {{x} \X {i \in DOMAIN f[x].queue : f[x].queue[i] = b} : x \in DOMAIN f} = {}
      BY <2>1
    <2> QED BY <2>2, FS_EmptySet DEF InQueues
  <1>2. InQueues(r, b) = 0 /\ InQueues(w, b) = 0
    BY <1>1
  <1>3. Is(q[Source].buffer, b) = 0
    BY DEF Is
  <1>4. HeldBySinks(q, b) = 0
    <2>1. {k \in Sinks : q[k].buffer = b} = {}
      OBVIOUS
    <2> QED BY <2>1, FS_EmptySet DEF HeldBySinks
  <1>5. HeldAsInput(t, b) = 0
    <2>1. {x \in Transforms : t[x].state = "Processing" /\ t[x].input = b} = {}
      OBVIOUS
    <2> QED BY <2>1, FS_EmptySet DEF HeldAsInput
  <1>6. HeldAsOutput(t, Finalizers(st), b) = 0
    <2>1. {x \in Transforms : /\ x \notin Finalizers(st)
                              /\ t[x].state \in {"Processing", "Finalizing"} /\ t[x].output = b} = {}
      OBVIOUS
    <2> QED BY <2>1, FS_EmptySet DEF HeldAsOutput
  <1>7. HeldByPending(<<>>, Clearing(st), b) = 0
    <2>1. {i \in DOMAIN <<>> : i \notin Clearing(st) /\ <<>>[i].buffer = b} = {}
      OBVIOUS
    <2> QED BY <2>1, FS_EmptySet DEF HeldByPending
  <1>8. HeldByFrames(st, b) = 0
    <2>1. {i \in DOMAIN st : st[i].call \in HoldingCalls /\ st[i].arg = b} = {}
      OBVIOUS
    <2> QED BY <2>1, FS_EmptySet DEF HeldByFrames
  <1> QED BY <1>2, <1>3, <1>4, <1>5, <1>6, <1>7, <1>8 DEF Held

LEMMA InitTypes == Init => TypesInv
  <1> SUFFICES ASSUME Init PROVE TypesInv
    OBVIOUS
  <1> DEFINE full == Full(setting, pool)
             all == Slots(setting, full)
  <1>1. /\ setting \in Settings
        /\ setting.readQueue \in Nat \ {0} /\ setting.writeQueue \in Nat \ {0}
    BY SettingIs DEF Init
  <1>2. pool \in Pools(setting)
    BY DEF Init, Pools, BuffersOf, Buffers
  <1>3. <<>> \in Seq(full) /\ <<>> \in Seq(all) /\ <<>> \in Seq(Nat) /\ Len(<<>>) = 0
    OBVIOUS
  <1> HIDE DEF full, all
  <1>4. /\ readable \in ReadablesOver(full) /\ writable \in WritablesOver(full)
        /\ WithinQueues(setting, readable, writable)
    BY <1>1, <1>3 DEF Init, ReadablesOver, WritablesOver, WithinQueues, ReadableStates, WritableStates
  <1>5. request \in Requests(setting) /\ RequestsReady(setting, full, request)
    BY DEF Init, Requests, RequestsReady, NoBuffer
  <1>6. transform \in TransformsOver(setting) /\ TransformsReady(setting, full, transform)
    BY DEF Init, TransformsOver, TransformsReady, TransformStates, NoBuffer
  <1>7. pipe \in Pipes(setting, full)
    BY <1>3 DEF Init, Pipes, all
  <1>8. log \in Logs(setting)
    BY <1>3 DEF Init, Logs
  <1> QED BY <1>1, <1>2, <1>4, <1>5, <1>6, <1>7, <1>8 DEF TypesInv, full

\* start() makes no calls but resumeReading.
LEMMA Resumes ==
    ASSUME setting \in Settings, NEW st,
           st = [i \in 1 .. ChainLength |-> Frame("resumeReading", setting.transforms[i], NoBuffer)]
                \o <<Frame("resumeReading", Source, NoBuffer)>>
    PROVE  /\ st \in Seq(Frames)
           /\ \A i \in DOMAIN st : /\ st[i].call = "resumeReading"
                                   /\ st[i].of \in UsedReadables(setting)
  <1> DEFINE F == {Frame("resumeReading", x, NoBuffer) : x \in UsedReadables(setting)}
             s == [i \in 1 .. ChainLength |-> Frame("resumeReading", setting.transforms[i], NoBuffer)]
             u == <<Frame("resumeReading", Source, NoBuffer)>>
  <1>1. /\ ChainLength \in Nat /\ UsedReadables(setting) \subseteq Readables
        /\ Source \in UsedReadables(setting)
        /\ \A i \in 1 .. ChainLength : setting.transforms[i] \in UsedReadables(setting)
    BY SettingIs DEF ChainLength, UsedReadables
  <1>2. "resumeReading" \in CallNames
    BY DEF CallNames, ReadableCalls
  <1>3. F \subseteq Frames
    BY <1>1, <1>2 DEF Frames, Frame, NoBuffer
  <1>4. \A f \in F : f.call = "resumeReading" /\ f.of \in UsedReadables(setting)
    BY DEF Frame
  <1>5. \A i \in 1 .. ChainLength : s[i] \in F
    BY <1>1
  <1>6. s \in Seq(F)
    BY <1>1, <1>5, IsASeq
  <1>7. u \in Seq(F)
    BY <1>1
  <1> HIDE DEF F, s, u
  <1>8. s \o u \in Seq(F)
    BY <1>6, <1>7, ConcatProperties
  <1>9. st \in Seq(F)
    BY <1>8 DEF s, u
  <1>11. st \in Seq(Frames)
    BY <1>3, <1>9
  <1>10. \A i \in DOMAIN st : st[i] \in F
    BY <1>9, ElementOfSeq, LenProperties
  <1> QED BY <1>4, <1>10, <1>11

LEMMA InitKeeps == PipelineInit => IInv
  <1> SUFFICES ASSUME PipelineInit PROVE IInv
    OBVIOUS
  <1>1. TypesInv
    BY InitTypes DEF PipelineInit
  <1>2. setting \in Settings
    BY <1>1 DEF TypesInv
  <1>3. /\ stack \in Seq(Frames)
        /\ \A i \in DOMAIN stack : /\ stack[i].call = "resumeReading"
                                   /\ stack[i].of \in UsedReadables(setting)
    BY <1>2, Resumes DEF PipelineInit
  <1>4. StackInv
    <2>1. "resumeReading" \notin WritableCalls \cup TransformCalls \cup SourceCalls \cup BufferCalls
      BY DEF WritableCalls, TransformCalls, SourceCalls, BufferCalls
    <2>2. \A i \in DOMAIN stack : FrameOK(setting, Full(setting, pool), stack[i])
      BY <1>3, <2>1 DEF FrameOK
    <2>3. StackOK(setting, Full(setting, pool), stack) /\ NoWrite(stack)
      BY <1>3, <2>2 DEF StackOK, NoWrite
    <2>4. WriteOnTop(stack) /\ (stack # <<>> => Head(stack).call # "write")
      BY <1>3, <2>3, NoWriteRuns DEF NoWrite, WriteOnTop
    <2> QED BY <2>3, <2>4 DEF StackInv, Running
  <1>5. RefsInv
    <2>1. ASSUME NEW b \in BuffersOf(setting)
          PROVE  pool.refs[b] >= Held(readable, writable, request, transform, pipe.pending, stack, b)
      <3>1. b # NoBuffer
        BY <1>2, SettingIs DEF NoBuffer
      <3>2. /\ \A x \in DOMAIN readable : readable[x].queue = <<>>
            /\ \A x \in DOMAIN writable : writable[x].queue = <<>>
            /\ \A x \in {Source} \cup Sinks : request[x].buffer # b
            /\ \A x \in Transforms : transform[x].state = "None"
            /\ pipe.pending = <<>> /\ pool.refs[b] = 0
        BY <3>1 DEF PipelineInit, Init, BuffersOf, Buffers
      <3>3. \A i \in DOMAIN stack : stack[i].call \notin HoldingCalls
        BY <1>3 DEF HoldingCalls
      <3>4. Held(readable, writable, request, transform, <<>>, stack, b) = 0
        BY <3>2, <3>3, NoneHeld
      <3> QED BY <3>2, <3>4
    <2> QED BY <2>1 DEF RefsInv
  <1> QED BY <1>1, <1>4, <1>5 DEF IInv

LEMMA CallsKeep == IInv /\ Calls => IInv'
  <1> SUFFICES ASSUME IInv, Calls PROVE IInv'
    OBVIOUS
  <1>1. CASE EmitError
    BY <1>1, EmitErrorKeeps
  <1>2. CASE ReadableStep
    BY <1>2, EmitOnDataKeeps, AfterDataKeeps, MaybeDestroyEndedKeeps, PushKeeps, PushedSyncKeeps,
       PushedAsyncKeeps, UnshiftKeeps, ReactivateKeeps, PauseKeeps, ResumeReadingKeeps,
       ExecuteReadKeeps, ReadLoopKeeps, AfterAsyncReadKeeps, PushEndKeeps, DestroyReadableKeeps,
       FinishedDestroyingReadableKeeps
       DEF ReadableStep
  <1>3. CASE WritableStep
    BY <1>3, WriteKeeps, UnshiftWriteKeeps, ResumeWritingKeeps, EndQuietlyKeeps, UnrefWrittenKeeps,
       FinishedWritingKeeps, EndIfPossibleKeeps, AfterCallbackKeeps, EndKeeps, EndNowKeeps,
       DestroyWritableKeeps, FinishedDestroyingWritableKeeps
       DEF WritableStep
  <1>4. CASE RequestStep
    BY <1>4, AsyncReadKeeps, AsyncReadSyncKeeps, AfterSyncPushKeeps, AfterPushKeeps,
       AsyncWriteKeeps, CanEndSinkKeeps, AsyncDestroyKeeps
       DEF RequestStep
  <1>5. CASE TransformStep
    BY <1>5, AsyncWriteTransformKeeps, CanEndTransformKeeps, AfterProcessKeeps, AfterFinalizeKeeps,
       TryFinalizeAgainKeeps, FinalizedKeeps, DuplexCallsKeeps
       DEF TransformStep
  <1>6. CASE PipelineStep
    BY <1>6, EventDataKeeps, AsyncWriteWritableKeeps, AfterWriteKeeps, RetryPendingWritesKeeps,
       ClearPendingWriteKeeps, AfterRetryKeeps, ResumeTransformKeeps, ResumeSourceKeeps,
       EventEndKeeps, EventCloseReadableKeeps, EndPipesKeeps, EventFinishKeeps,
       EventCloseWritableKeeps, UnpipeKeeps
       DEF PipelineStep
  <1> QED BY <1>1, <1>2, <1>3, <1>4, <1>5, <1>6 DEF Calls

LEMMA LoopKeeps == IInv /\ LoopStep => IInv'
  <1> SUFFICES ASSUME IInv, LoopStep PROVE IInv'
    OBVIOUS
  <1>1. CASE ReadCompletes \/ ReadEnds \/ ReadFails
    BY <1>1, ReadCompletesKeeps, ReadEndsKeeps, ReadFailsKeeps
  <1>2. CASE StopCompletes(Source)
    BY <1>2, StopCompletesKeeps
  <1>3. CASE \E s \in Sinks : WriteDone(s) \/ WriteFails(s) \/ StopCompletes(s)
    <2>1. PICK s \in Sinks : WriteDone(s) \/ WriteFails(s) \/ StopCompletes(s)
      BY <1>3
    <2> QED BY <2>1, WriteDoneKeeps, WriteFailsKeeps, StopCompletesKeeps
  <1> QED BY <1>1, <1>2, <1>3 DEF LoopStep

LEMMA NextKeeps == IInv /\ [Next]_vars => IInv'
  <1> SUFFICES ASSUME IInv, [Next]_vars PROVE IInv'
    OBVIOUS
  <1>1. CASE Calls
    BY <1>1, CallsKeep
  <1>2. CASE LoopStep
    BY <1>2, LoopKeeps
  <1>3. CASE WorkCompletes
    <2>1. PICK t \in Transforms : ProcessCompletes(t) \/ FinalizeCompletes(t)
      BY <1>3 DEF WorkCompletes
    <2> QED BY <2>1, ProcessCompletesKeeps, FinalizeCompletesKeeps
  <1>4. CASE UserStep
    BY <1>4, UserStepKeeps
  <1>5. CASE UNCHANGED vars
    BY <1>5 DEF vars, IInv, TypesInv, StackInv, RefsInv, Running, this, CanAcceptWrite
  <1> QED BY <1>1, <1>2, <1>3, <1>4, <1>5 DEF Next

\* Every reachable state keeps to the invariant.
THEOREM Invariant == Spec => []IInv
  BY InitKeeps, NextKeeps, PTL DEF Spec

LEMMA TypesAreOK == IInv => TypeOK
  <1> SUFFICES ASSUME IInv PROVE TypeOK
    OBVIOUS
  <1> DEFINE full == Full(setting, pool)
  <1>1. /\ setting \in Settings /\ pool \in Pools(setting)
        /\ readable \in ReadablesOver(full) /\ writable \in WritablesOver(full)
        /\ WithinQueues(setting, readable, writable)
        /\ request \in Requests(setting) /\ transform \in TransformsOver(setting)
        /\ pipe \in Pipes(setting, full) /\ log \in Logs(setting)
        /\ full \subseteq BuffersOf(setting) /\ UsedWritables(setting) \subseteq Writables
        /\ BuffersOf(setting) = Buffers
    BY Typed, SettingIs DEF BuffersOf, Buffers
  <1> HIDE DEF full
  <1>2. pool \in [refs : [Buffers -> Nat], data : [Buffers -> Nat]]
    <2>1. ASSUME NEW b \in Buffers PROVE pool.refs[b] \in Nat
      <3>1. /\ pool.refs[b] \in Int
            /\ pool.refs[b] >= Held(readable, writable, request, transform, pipe.pending, stack, b)
        BY <1>1 DEF Pools, IInv, RefsInv
      <3>2. Held(readable, writable, request, transform, pipe.pending, stack, b)
            = KeptOf(b) + HeldByFrames(stack, b)
        BY HeldIsKept DEF KeptOf
      <3>3. KeptOf(b) \in Nat /\ HeldByFrames(stack, b) \in Nat
        BY KeptTyped, Typed, FramesCount
      <3> HIDE DEF KeptOf
      <3> QED BY <3>1, <3>2, <3>3
    <2>2. pool \in [refs : [Buffers -> Int], data : [Buffers -> Nat]]
      BY <1>1 DEF Pools
    <2> QED BY <2>1, <2>2
  <1>3. /\ readable \in [Readables ->
               [state : ReadableStates, destroyed : BOOLEAN, queue : Seq(Buffers)]]
        /\ writable \in [Writables ->
               [state : WritableStates, destroyed : BOOLEAN, queue : Seq(Buffers)]]
    BY <1>1, Wider DEF ReadablesOver, WritablesOver
  <1>4. /\ \A s \in Readables : Len(readable[s].queue) <= setting.readQueue
        /\ \A s \in Writables : Len(writable[s].queue) <= setting.writeQueue
    BY <1>1 DEF WithinQueues
  <1>5. /\ request \in [{Source} \cup Sinks ->
               [state : {"free", "active", "stopping"}, buffer : Maybe]]
        /\ transform \in [Transforms ->
               [state : TransformStates, input : Maybe, output : Maybe, made : Nat, final : Nat]]
    BY <1>1 DEF Requests, TransformsOver, Maybe
  <1>6. /\ pipe.pending \in Seq([writable : Writables, buffer : Maybe])
        /\ {pipe.piped, pipe.shouldEndWhenDrained, pipe.endingPipes} \subseteq BOOLEAN
        /\ pipe.finishing \subseteq Sinks
    <2>1. Slots(setting, full) \subseteq [writable : Writables, buffer : Maybe]
      BY <1>1 DEF Slots, Maybe
    <2>2. pipe.pending \in Seq(Slots(setting, full))
      BY <1>1 DEF Pipes
    <2>3. pipe.pending \in Seq([writable : Writables, buffer : Maybe])
      <3> DEFINE X == Slots(setting, full)
                 Y == [writable : Writables, buffer : Maybe]
                 q == pipe.pending
      <3>1. X \subseteq Y /\ q \in Seq(X)
        BY <2>1, <2>2
      <3> HIDE DEF X, Y, q
      <3>2. q \in Seq(Y)
        BY <3>1
      <3> QED BY <3>2 DEF Y, q
    <2>4. /\ pipe.piped \in BOOLEAN /\ pipe.shouldEndWhenDrained \in BOOLEAN
          /\ pipe.endingPipes \in BOOLEAN /\ pipe.finishing \subseteq Sinks
      BY <1>1 DEF Pipes
    <2> QED BY <2>3, <2>4
  <1>7. /\ log.read \in Nat /\ log.written \in [Sinks -> Seq(Nat)]
        /\ log.closed \in [Readables \cup Sinks -> Nat]
        /\ log.errors \subseteq ErrorMessages /\ log.asked \subseteq setting.usage
    BY <1>1 DEF Logs
  <1> QED BY <1>1, <1>2, <1>3, <1>4, <1>5, <1>6, <1>7 DEF TypeOK

\* Without calls, what the invariant counts is what the property does.
LEMMA HoldersAreHeld ==
    ASSUME IInv, stack = <<>>, NEW b \in BuffersOf(setting)
    PROVE  Holders(b) = Held(readable, writable, request, transform, pipe.pending, stack, b)
  <1>1. b # NoBuffer
    BY Typed, SettingIs DEF NoBuffer
  <1>2. Clearing(stack) = {} /\ Finalizers(stack) = {}
    BY DEF Clearing, Finalizers
  <1> DEFINE n1 == InQueues(readable, b)
             n2 == InQueues(writable, b)
             n3 == Cardinality({i \in Pending(pipe.pending) : pipe.pending[i].buffer = b})
             n4 == Cardinality({s \in {Source} : request[s].buffer = b})
             n5 == Cardinality({k \in Sinks : request[k].buffer = b})
             n6 == Cardinality({t \in Transforms :
                       transform[t].state = "Processing" /\ transform[t].input = b})
             n7 == Cardinality({t \in Transforms :
                       transform[t].state \in {"Processing", "Finalizing"} /\ transform[t].output = b})
             n8 == HeldByFrames(stack, b)
  <1>3. n3 = HeldByPending(pipe.pending, Clearing(stack), b)
    <2>1. {i \in Pending(pipe.pending) : pipe.pending[i].buffer = b}
          = {i \in DOMAIN pipe.pending : i \notin Clearing(stack) /\ pipe.pending[i].buffer = b}
      BY <1>1, <1>2 DEF Pending
    <2> QED BY <2>1 DEF HeldByPending
  <1>4. n4 = Is(request[Source].buffer, b)
    <2>1. CASE request[Source].buffer = b
      <3>1. {s \in {Source} : request[s].buffer = b} = {Source}
        BY <2>1
      <3> QED BY <2>1, <3>1, FS_Singleton DEF Is
    <2>2. CASE request[Source].buffer # b
      <3>1. {s \in {Source} : request[s].buffer = b} = {}
        BY <2>2
      <3> QED BY <2>2, <3>1, FS_EmptySet DEF Is
    <2> QED BY <2>1, <2>2
  <1>5. n5 = HeldBySinks(request, b) /\ n6 = HeldAsInput(transform, b)
    BY DEF HeldBySinks, HeldAsInput
  <1>6. n7 = HeldAsOutput(transform, Finalizers(stack), b)
    <2>1. {t \in Transforms :
              transform[t].state \in {"Processing", "Finalizing"} /\ transform[t].output = b}
          = {t \in Transforms :
                /\ t \notin Finalizers(stack)
                /\ transform[t].state \in {"Processing", "Finalizing"} /\ transform[t].output = b}
      BY <1>2
    <2> QED BY <2>1 DEF HeldAsOutput
  <1>7. n8 = 0
    BY FewFrames
  <1>8. /\ n1 \in Nat /\ n2 \in Nat /\ n3 \in Nat /\ n4 \in Nat /\ n5 \in Nat /\ n6 \in Nat /\ n7 \in Nat
    BY <1>3, <1>4, <1>5, <1>6, KeptTyped
  <1>9. Holders(b) = n1 + 2 * n2 + n3 + n4 + 2 * n5 + n6 + n7
    BY DEF Holders
  <1>10. Held(readable, writable, request, transform, pipe.pending, stack, b)
         = (n1 + 2 * n2) + (n4 + 2 * n5) + (n6 + n7) + n3 + n8
    BY <1>3, <1>4, <1>5, <1>6 DEF Held
  <1> HIDE DEF n1, n2, n3, n4, n5, n6, n7, n8
  <1> QED BY <1>7, <1>8, <1>9, <1>10

LEMMA HoldersKeep == IInv => NoneReused
  <1>1. ASSUME IInv, stack = <<>>, NEW b \in Buffers PROVE pool.refs[b] >= Holders(b)
    <2>1. b \in BuffersOf(setting)
      BY DEF Buffers, BuffersOf
    <2>2. pool.refs[b] >= Held(readable, writable, request, transform, pipe.pending, stack, b)
      BY <1>1, <2>1 DEF IInv, RefsInv
    <2> QED BY <1>1, <2>1, <2>2, HoldersAreHeld
  <1> QED BY <1>1 DEF NoneReused

\* Whatever a pipeline is made of and whatever fails, its state is well-formed: a queue
\* never holds more than it has room for, and no count of references goes below zero.
THEOREM TypeCorrect == Spec => []TypeOK
  BY Invariant, TypesAreOK, PTL

\* AsyncBuffersPool: a buffer has a reference for each of its holders, so that none is
\* reused while a queue, a request, a transform or a pending write still has it.
THEOREM BuffersKept == Spec => []NoneReused
  BY Invariant, HoldersKeep, PTL
=============================================================================
