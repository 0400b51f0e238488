-------------------------- MODULE PrimitivesProofs --------------------------
(***************************************************************************)
(* The pieces that stand alone: RWLock, Semaphore, EventObject and Barrier *)
(* for any finite set of threads, CircularQueue for any size of the ring   *)
(* (B, S, E and Q are the instances of MCPrimitives), and, with what       *)
(* FiberSyncProofs shows, all of them as MCPrimitives runs them.           *)
(***************************************************************************)
EXTENDS MCPrimitives, FiniteSetTheorems, SequenceTheorems, TLAPS

-----------------------------------------------------------------------------
(* RWLock: types, exact counters, exclusion, no lost wakeup, and the       *)
(* implementation of ReadersWriters.                                       *)

\* Only threads inside lockRead or lockWrite can be asleep.
SleepersBlocked ==
    /\ readersQ \subseteq BlockedReaders
    /\ writersQ \subseteq BlockedWriters

\* The inductive invariant: exclusion follows from exact counters, and that
\* no wakeup is lost needs to know who may be asleep.
LockInv ==
    /\ TypeOK
    /\ CountersExact
    /\ MutualExclusion
    /\ SleepersBlocked
    /\ NoLostWakeup

-----------------------------------------------------------------------------

\* What moving one thread does to the set of the threads at a location.
At(f, loc) == {t \in Threads : f[t] = loc}

LEMMA MoveTo ==
    ASSUME NEW f \in [Threads -> Locations], NEW t \in Threads,
           NEW from \in Locations, NEW to \in Locations,
           f[t] = from
    PROVE  LET g == [f EXCEPT ![t] = to]
           IN  /\ g \in [Threads -> Locations]
               /\ At(g, to) = At(f, to) \cup {t}
               /\ from # to => At(g, from) = At(f, from) \ {t}
               /\ \A loc \in Locations \ {from, to} : At(g, loc) = At(f, loc)
  BY DEF At

LEMMA CountTo ==
    ASSUME NEW f \in [Threads -> Locations], NEW t \in Threads,
           NEW loc \in Locations
    PROVE  /\ Cardinality(At(f, loc)) \in Nat
           /\ Cardinality(At(f, loc)) = 0 <=> At(f, loc) = {}
           /\ f[t] # loc =>
                Cardinality(At(f, loc) \cup {t}) = Cardinality(At(f, loc)) + 1
           /\ f[t] = loc =>
                Cardinality(At(f, loc) \ {t}) = Cardinality(At(f, loc)) - 1
  <1>1. IsFiniteSet(At(f, loc))
    <2>1. At(f, loc) \in SUBSET Threads
      BY DEF At
    <2> QED BY <2>1, ThreadsAssumption, FS_Subset
  <1>2. t \in At(f, loc) <=> f[t] = loc
    BY DEF At
  <1>3. Cardinality(At(f, loc)) \in Nat
    BY <1>1, FS_CardinalityType
  <1>4. Cardinality(At(f, loc)) = 0 <=> At(f, loc) = {}
    BY <1>1, FS_EmptySet
  <1>5. f[t] # loc => Cardinality(At(f, loc) \cup {t}) = Cardinality(At(f, loc)) + 1
    BY <1>1, <1>2, FS_AddElement
  <1>6. f[t] = loc => Cardinality(At(f, loc) \ {t}) = Cardinality(At(f, loc)) - 1
    BY <1>1, <1>2, FS_RemoveElement
  <1> QED BY <1>3, <1>4, <1>5, <1>6

LEMMA SetsAt ==
    /\ Readers = At(pc, "reading")
    /\ Writers = At(pc, "writing")
    /\ BlockedReaders = At(pc, "readBlocked")
    /\ BlockedWriters = At(pc, "writeBlocked")
  BY DEF Readers, Writers, BlockedReaders, BlockedWriters, At

\* The same of the four sets the invariant counts.
LEMMA Counts ==
    ASSUME pc \in [Threads -> Locations], NEW t \in Threads,
           NEW R \in {Readers, Writers, BlockedReaders, BlockedWriters}
    PROVE  /\ Cardinality(R) \in Nat
           /\ Cardinality(R) = 0 <=> R = {}
           /\ t \notin R => Cardinality(R \cup {t}) = Cardinality(R) + 1
           /\ t \in R => Cardinality(R \ {t}) = Cardinality(R) - 1
  <1>1. PICK loc \in Locations : R = At(pc, loc)
    BY SetsAt DEF Locations
  <1>2. t \in R <=> pc[t] = loc
    BY <1>1 DEF At
  <1> QED BY <1>1, <1>2, CountTo

LEMMA SignalShrinks ==
    ASSUME NEW sleepers, NEW R \in Signal(sleepers)
    PROVE  /\ R \subseteq sleepers
           /\ sleepers # {} => \E t \in sleepers : R = sleepers \ {t}
           /\ sleepers = {} => R = {}
  BY DEF Signal

-----------------------------------------------------------------------------

LEMMA LockInitInvariant == Init => LockInv
  <1> SUFFICES ASSUME Init PROVE LockInv
    OBVIOUS
  <1>1. Readers = {} /\ Writers = {} /\ BlockedReaders = {} /\ BlockedWriters = {}
    BY DEF Init, Readers, Writers, BlockedReaders, BlockedWriters
  <1>2. TypeOK
    BY DEF Init, TypeOK, Locations
  <1> QED
    BY <1>1, <1>2, FS_EmptySet
    DEF Init, LockInv, CountersExact, MutualExclusion, SleepersBlocked, NoLostWakeup

\* A thread starts or goes on with lockRead.
LEMMA ReadStep ==
    ASSUME LockInv, NEW t \in Threads, LockRead(t) \/ RetryRead(t)
    PROVE  LockInv'
  <1> USE DEF Locations
  <1> DEFINE from == IF pc[t] = "out" THEN "out" ELSE "readBlocked"
  <1>0. /\ pc \in [Threads -> Locations]
        /\ pc[t] = from
        /\ t \notin readersQ
        /\ UNCHANGED <<waitingWriters, writerActive, writersQ>>
        /\ ReadLoop(t)
    BY DEF LockInv, TypeOK, LockRead, RetryRead, SleepersBlocked, BlockedReaders
  <1>1. CASE ReaderMustWait
    <2>1. /\ readersQ' = readersQ \cup {t}
          /\ pc' = [pc EXCEPT ![t] = "readBlocked"]
          /\ activeReaders' = activeReaders
      BY <1>0, <1>1 DEF ReadLoop
    <2>2. /\ BlockedReaders' = BlockedReaders \cup {t}
          /\ Readers' = Readers /\ Writers' = Writers
          /\ BlockedWriters' = BlockedWriters
      BY <2>1, <1>0, MoveTo DEF Readers, Writers, BlockedReaders, BlockedWriters, At
    <2>3. TypeOK'
      BY <2>1, <1>0 DEF LockInv, TypeOK
    <2>4. CountersExact' /\ MutualExclusion'
      BY <2>1, <2>2, <1>0 DEF LockInv, CountersExact, MutualExclusion
    <2>5. SleepersBlocked'
      BY <2>1, <2>2, <1>0 DEF LockInv, SleepersBlocked
    <2>6. NoLostWakeup'
      BY <2>1, <2>2, <1>0, <1>1 DEF LockInv, NoLostWakeup, ReaderMustWait, WriterMustWait
    <2> QED BY <2>3, <2>4, <2>5, <2>6 DEF LockInv
  <1>2. CASE ~ReaderMustWait
    <2>1. /\ activeReaders' = activeReaders + 1
          /\ pc' = [pc EXCEPT ![t] = "reading"]
          /\ readersQ' = readersQ
      BY <1>0, <1>2 DEF ReadLoop
    <2>2. /\ Readers' = Readers \cup {t}
          /\ Writers' = Writers
          /\ BlockedReaders' = BlockedReaders \ {t}
          /\ BlockedWriters' = BlockedWriters
          /\ t \notin Readers
      BY <2>1, <1>0, MoveTo DEF Readers, Writers, BlockedReaders, BlockedWriters, At
    <2>3. TypeOK'
      BY <2>1, <1>0 DEF LockInv, TypeOK
    <2>4. Writers = {} /\ waitingWriters = 0
      BY <1>2 DEF ReaderMustWait, LockInv, CountersExact, TypeOK
    <2>5. CountersExact'
      <3>1. Cardinality(Readers \cup {t}) = Cardinality(Readers) + 1
        BY <2>2, <1>0, Counts
      <3> QED BY <3>1, <2>1, <2>2, <1>0 DEF LockInv, CountersExact
    <2>6. MutualExclusion' /\ SleepersBlocked'
      BY <2>1, <2>2, <2>4, <1>0 DEF LockInv, MutualExclusion, SleepersBlocked
    <2>7. NoLostWakeup'
      BY <2>1, <2>2, <2>4, <1>0, <1>2 DEF LockInv, TypeOK, NoLostWakeup, ReaderMustWait, WriterMustWait
    <2> QED BY <2>3, <2>5, <2>6, <2>7 DEF LockInv
  <1> QED BY <1>1, <1>2

LEMMA UnlockReadStep ==
    ASSUME LockInv, NEW t \in Threads, UnlockRead(t)
    PROVE  LockInv'
  <1> USE DEF Locations
  <1>0. /\ pc \in [Threads -> Locations] /\ pc[t] = "reading"
        /\ activeReaders' = activeReaders - 1
        /\ pc' = [pc EXCEPT ![t] = "out"]
        /\ UNCHANGED <<waitingWriters, writerActive, readersQ>>
        /\ writersQ' \subseteq writersQ
    BY SignalShrinks DEF LockInv, TypeOK, UnlockRead
  <1>1. /\ Readers' = Readers \ {t} /\ t \in Readers
        /\ Writers' = Writers
        /\ BlockedReaders' = BlockedReaders
        /\ BlockedWriters' = BlockedWriters
    BY <1>0, MoveTo DEF Readers, Writers, BlockedReaders, BlockedWriters, At
  <1>2. Cardinality(Readers \ {t}) = Cardinality(Readers) - 1
    BY <1>0, <1>1, Counts
  <1>3. activeReaders # 0
    <2>1. Cardinality(Readers) = 0 <=> Readers = {}
      BY <1>0, Counts
    <2> QED BY <2>1, <1>1 DEF LockInv, CountersExact
  <1>4. TypeOK'
    BY <1>0, <1>3 DEF LockInv, TypeOK
  <1>5. CountersExact'
    BY <1>0, <1>1, <1>2 DEF LockInv, CountersExact
  <1>6. MutualExclusion' /\ SleepersBlocked'
    BY <1>0, <1>1 DEF LockInv, MutualExclusion, SleepersBlocked
  <1>7. NoLostWakeup'
    <2>1. (readersQ # {} => ReaderMustWait)'
      BY <1>0 DEF LockInv, NoLostWakeup, ReaderMustWait
    <2>2. ASSUME writersQ' # {}, activeReaders' = 0
          PROVE  (BlockedWriters \ writersQ)' # {}
      <3>1. waitingWriters > 0
        <4>1. BlockedWriters # {}
          BY <1>0, <2>2 DEF LockInv, SleepersBlocked
        <4>2. Cardinality(BlockedWriters) # 0
          BY <4>1, <1>0, Counts
        <4> QED BY <4>2 DEF LockInv, CountersExact, TypeOK
      <3>2. writersQ' \in Signal(writersQ)
        BY <2>2, <3>1 DEF UnlockRead
      <3>3. PICK u \in writersQ : writersQ' = writersQ \ {u}
        BY <3>2, <2>2, SignalShrinks
      <3> QED BY <3>3, <1>1 DEF LockInv, SleepersBlocked
    <2> QED BY <1>4, <2>1, <2>2 DEF NoLostWakeup, WriterMustWait, TypeOK
  <1> QED BY <1>4, <1>5, <1>6, <1>7 DEF LockInv

\* A thread starts or goes on with lockWrite.
LEMMA WriteStep ==
    ASSUME LockInv, NEW t \in Threads, LockWrite(t) \/ RetryWrite(t)
    PROVE  LockInv'
  <1> USE DEF Locations
  <1> DEFINE from == IF pc[t] = "out" THEN "out" ELSE "writeBlocked"
             inside == IF pc[t] = "out" THEN waitingWriters + 1 ELSE waitingWriters
  <1>0. /\ pc \in [Threads -> Locations]
        /\ pc[t] = from
        /\ t \notin writersQ
        /\ UNCHANGED <<activeReaders, readersQ>>
        /\ WriteLoop(t, inside)
    BY DEF LockInv, TypeOK, LockWrite, RetryWrite, SleepersBlocked, BlockedWriters
  <1>1. /\ inside \in Nat \ {0}
        /\ inside = Cardinality(BlockedWriters \cup {t})
    <2>1. CASE pc[t] = "out"
      <3>1. t \notin BlockedWriters
        BY <2>1 DEF BlockedWriters
      <3>2. Cardinality(BlockedWriters \cup {t}) = Cardinality(BlockedWriters) + 1
        BY <3>1, <1>0, Counts
      <3> QED BY <2>1, <3>2 DEF LockInv, TypeOK, CountersExact
    <2>2. CASE pc[t] = "writeBlocked"
      <3>1. t \in BlockedWriters
        BY <2>2 DEF BlockedWriters
      <3>2. Cardinality(BlockedWriters) # 0
        BY <3>1, <1>0, Counts
      <3>3. BlockedWriters \cup {t} = BlockedWriters
        BY <3>1
      <3> QED BY <2>2, <3>2, <3>3 DEF LockInv, TypeOK, CountersExact
    <2> QED BY <2>1, <2>2, <1>0
  <1>2. CASE WriterMustWait
    <2>1. /\ waitingWriters' = inside
          /\ writersQ' = writersQ \cup {t}
          /\ pc' = [pc EXCEPT ![t] = "writeBlocked"]
          /\ writerActive' = writerActive
      BY <1>0, <1>2 DEF WriteLoop
    <2>2. /\ BlockedWriters' = BlockedWriters \cup {t}
          /\ Readers' = Readers /\ Writers' = Writers
          /\ BlockedReaders' = BlockedReaders
      BY <2>1, <1>0, MoveTo DEF Readers, Writers, BlockedReaders, BlockedWriters, At
    <2>3. TypeOK'
      BY <2>1, <1>0, <1>1 DEF LockInv, TypeOK
    <2>4. CountersExact' /\ MutualExclusion'
      BY <2>1, <2>2, <1>0, <1>1 DEF LockInv, CountersExact, MutualExclusion
    <2>5. SleepersBlocked'
      BY <2>1, <2>2, <1>0 DEF LockInv, SleepersBlocked
    <2>6. NoLostWakeup'
      BY <2>1, <1>0, <1>1, <1>2 DEF LockInv, NoLostWakeup, ReaderMustWait, WriterMustWait
    <2> QED BY <2>3, <2>4, <2>5, <2>6 DEF LockInv
  <1>3. CASE ~WriterMustWait
    <2>1. /\ waitingWriters' = inside - 1
          /\ writerActive' = TRUE
          /\ pc' = [pc EXCEPT ![t] = "writing"]
          /\ writersQ' = writersQ
      BY <1>0, <1>3 DEF WriteLoop
    <2>2. /\ Readers' = Readers
          /\ Writers' = Writers \cup {t}
          /\ BlockedReaders' = BlockedReaders
          /\ BlockedWriters' = BlockedWriters \ {t}
      BY <2>1, <1>0, MoveTo DEF Readers, Writers, BlockedReaders, BlockedWriters, At
    <2>3. Writers = {} /\ Readers = {}
      <3>1. Cardinality(Readers) = 0 <=> Readers = {}
        BY <1>0, Counts
      <3> QED BY <3>1, <1>3 DEF WriterMustWait, LockInv, CountersExact, TypeOK
    <2>4. TypeOK'
      BY <2>1, <1>0, <1>1 DEF LockInv, TypeOK
    <2>5. CountersExact'
      <3>1. Cardinality(BlockedWriters \ {t}) = inside - 1
        <4>1. CASE pc[t] = "out"
          <5>1. BlockedWriters \ {t} = BlockedWriters
            BY <4>1 DEF BlockedWriters
          <5>2. inside - 1 = waitingWriters
            BY <4>1 DEF LockInv, TypeOK
          <5>3. waitingWriters = Cardinality(BlockedWriters)
            BY DEF LockInv, CountersExact
          <5> QED BY <5>1, <5>2, <5>3
        <4>2. CASE pc[t] = "writeBlocked"
          <5>1. t \in BlockedWriters
            BY <4>2 DEF BlockedWriters
          <5>2. Cardinality(BlockedWriters \ {t}) = Cardinality(BlockedWriters) - 1
            BY <5>1, <1>0, Counts
          <5> QED BY <4>2, <5>2 DEF LockInv, CountersExact
        <4> QED BY <4>1, <4>2, <1>0
      <3> QED BY <3>1, <2>1, <2>2, <1>0 DEF LockInv, CountersExact
    <2>6. MutualExclusion' /\ SleepersBlocked'
      BY <2>1, <2>2, <2>3, <1>0 DEF LockInv, MutualExclusion, SleepersBlocked
    <2>7. NoLostWakeup'
      BY <2>1 DEF NoLostWakeup, ReaderMustWait, WriterMustWait
    <2> QED BY <2>4, <2>5, <2>6, <2>7 DEF LockInv
  <1> QED BY <1>2, <1>3

LEMMA UnlockWriteStep ==
    ASSUME LockInv, NEW t \in Threads, UnlockWrite(t)
    PROVE  LockInv'
  <1> USE DEF Locations
  <1>0. /\ pc \in [Threads -> Locations] /\ pc[t] = "writing"
        /\ writerActive' = FALSE
        /\ pc' = [pc EXCEPT ![t] = "out"]
        /\ UNCHANGED <<activeReaders, waitingWriters>>
        /\ writersQ' \subseteq writersQ
        /\ readersQ' \subseteq readersQ
    BY SignalShrinks DEF LockInv, TypeOK, UnlockWrite, Broadcast
  <1>1. /\ Writers = {t} /\ Writers' = {}
        /\ Readers = {} /\ Readers' = Readers
        /\ BlockedReaders' = BlockedReaders
        /\ BlockedWriters' = BlockedWriters
    <2>1. /\ Writers' = Writers \ {t} /\ t \in Writers
          /\ Readers' = Readers
          /\ BlockedReaders' = BlockedReaders
          /\ BlockedWriters' = BlockedWriters
      BY <1>0, MoveTo DEF Readers, Writers, BlockedReaders, BlockedWriters, At
    <2> QED BY <2>1 DEF LockInv, MutualExclusion
  <1>2. TypeOK'
    BY <1>0 DEF LockInv, TypeOK
  <1>3. CountersExact' /\ MutualExclusion' /\ SleepersBlocked'
    BY <1>0, <1>1 DEF LockInv, CountersExact, MutualExclusion, SleepersBlocked
  <1>4. NoLostWakeup'
    <2>1. CASE waitingWriters = 0
      <3>1. BlockedWriters = {}
        BY <2>1, <1>0, Counts DEF LockInv, CountersExact
      <3>2. readersQ' = {} /\ writersQ' = {}
        BY <2>1, <3>1, <1>0 DEF UnlockWrite, Broadcast, LockInv, SleepersBlocked
      <3> QED BY <3>2 DEF NoLostWakeup
    <2>2. CASE waitingWriters > 0
      <3>1. BlockedWriters # {}
        <4>1. Cardinality(BlockedWriters) # 0
          BY <2>2 DEF LockInv, CountersExact
        <4> QED BY <4>1, <1>0, Counts
      <3>2. writersQ' \in Signal(writersQ)
        BY <2>2 DEF UnlockWrite
      <3>3. BlockedWriters \ writersQ' # {}
        <4>1. CASE writersQ = {}
          BY <4>1, <3>1, <1>0
        <4>2. CASE writersQ # {}
          <5>1. PICK u \in writersQ : writersQ' = writersQ \ {u}
            BY <3>2, <4>2, SignalShrinks
          <5> QED BY <5>1 DEF LockInv, SleepersBlocked
        <4> QED BY <4>1, <4>2
      <3> QED BY <3>3, <2>2, <1>0, <1>1 DEF NoLostWakeup, ReaderMustWait
    <2> QED BY <2>1, <2>2 DEF LockInv, TypeOK
  <1> QED BY <1>2, <1>3, <1>4 DEF LockInv

LEMMA LockSpuriousStep ==
    ASSUME LockInv, NEW t \in Threads, SpuriousWakeup(t)
    PROVE  LockInv'
  <1>1. /\ readersQ' \subseteq readersQ /\ writersQ' \subseteq writersQ
        /\ UNCHANGED <<activeReaders, waitingWriters, writerActive, pc>>
    BY DEF SpuriousWakeup
  <1>2. /\ UNCHANGED <<Readers, Writers, BlockedReaders, BlockedWriters>>
        /\ UNCHANGED <<ReaderMustWait, WriterMustWait>>
    BY <1>1 DEF Readers, Writers, BlockedReaders, BlockedWriters,
                ReaderMustWait, WriterMustWait
  <1>3. TypeOK' /\ CountersExact' /\ MutualExclusion' /\ SleepersBlocked'
    BY <1>1, <1>2 DEF LockInv, TypeOK, CountersExact, MutualExclusion, SleepersBlocked
  <1>4. NoLostWakeup'
    BY <1>1, <1>2 DEF LockInv, NoLostWakeup, SleepersBlocked
  <1> QED BY <1>3, <1>4 DEF LockInv

LEMMA LockStepInvariant == LockInv /\ [Next]_vars => LockInv'
  <1> SUFFICES ASSUME LockInv, [Next]_vars PROVE LockInv'
    OBVIOUS
  <1>1. CASE UNCHANGED vars
    BY <1>1 DEF vars, LockInv, TypeOK, CountersExact, MutualExclusion, SleepersBlocked,
                NoLostWakeup, Readers, Writers, BlockedReaders, BlockedWriters,
                ReaderMustWait, WriterMustWait
  <1>2. CASE Next
    <2>1. PICK t \in Threads : Acquire(t) \/ Proceed(t) \/ SpuriousWakeup(t)
      BY <1>2 DEF Next
    <2> QED BY <2>1, ReadStep, UnlockReadStep, WriteStep, UnlockWriteStep, LockSpuriousStep
            DEF Acquire, Proceed
  <1> QED BY <1>1, <1>2

LEMMA LockInvariant == Spec => []LockInv
  BY LockInitInvariant, LockStepInvariant, PTL DEF Spec

\* The state of RWLock stays within its types.
THEOREM LockTypes == Spec => []TypeOK
  <1>1. LockInv => TypeOK
    BY DEF LockInv
  <1> QED BY <1>1, LockInvariant, PTL

\* RWLock: a writer is alone, for any number of threads.
THEOREM LockExclusion == Spec => []MutualExclusion
  <1>1. LockInv => MutualExclusion
    BY DEF LockInv
  <1> QED BY <1>1, LockInvariant, PTL

\* RWLock: the counters that decide who waits count what they are named for.
THEOREM LockCounts == Spec => []CountersExact
  <1>1. LockInv => CountersExact
    BY DEF LockInv
  <1> QED BY <1>1, LockInvariant, PTL

\* RWLock: no interleaving of lock and unlock leaves a free lock with all the
\* threads that want it asleep.
THEOREM LockWakeups == Spec => []NoLostWakeup
  <1>1. LockInv => NoLostWakeup
    BY DEF LockInv
  <1> QED BY <1>1, LockInvariant, PTL

-----------------------------------------------------------------------------
(* The implementation of the abstract lock: a step of RWLock is a step of  *)
(* ReadersWriters or leaves its readers, writers and announced unchanged.  *)

LEMMA LockInitRefines == Init => Promise!Init
  BY DEF Init, Promise!Init, Readers, Writers, BlockedWriters

LEMMA LockStepRefines == LockInv /\ [Next]_vars => [Promise!Next]_(Promise!vars)
  <1> USE DEF Locations
  <1> SUFFICES ASSUME LockInv, [Next]_vars PROVE [Promise!Next]_(Promise!vars)
    OBVIOUS
  <1>0. pc \in [Threads -> Locations]
    BY DEF LockInv, TypeOK
  <1>1. CASE UNCHANGED vars
    BY <1>1 DEF vars, Promise!vars, Readers, Writers, BlockedWriters
  <1>2. ASSUME NEW t \in Threads, LockRead(t) \/ RetryRead(t)
        PROVE  Promise!BeginRead(t) \/ UNCHANGED Promise!vars
    <2>1. /\ pc[t] \in {"out", "readBlocked"} /\ ReadLoop(t)
          /\ UNCHANGED <<waitingWriters, writerActive>>
      BY <1>2 DEF LockRead, RetryRead
    <2>2. CASE ReaderMustWait
      BY <2>1, <2>2, <1>0
      DEF ReadLoop, Promise!vars, Readers, Writers, BlockedWriters
    <2>3. CASE ~ReaderMustWait
      <3>1. pc' = [pc EXCEPT ![t] = "reading"]
        BY <2>1, <2>3 DEF ReadLoop
      <3>2. Writers = {} /\ waitingWriters = 0
        BY <2>3 DEF ReaderMustWait, LockInv, CountersExact, TypeOK
      <3>3. BlockedWriters = {}
        BY <3>2, <1>0, Counts DEF LockInv, CountersExact
      <3>4. /\ Readers' = Readers \cup {t}
            /\ Writers' = Writers /\ BlockedWriters' = BlockedWriters
        BY <3>1, <2>1, <1>0 DEF Readers, Writers, BlockedWriters
      <3> QED BY <3>2, <3>3, <3>4 DEF Promise!BeginRead
    <2> QED BY <2>2, <2>3
  <1>3. ASSUME NEW t \in Threads, UnlockRead(t)
        PROVE  Promise!EndRead(t)
    BY <1>3, <1>0 DEF UnlockRead, Promise!EndRead, Readers, Writers, BlockedWriters
  <1>4. ASSUME NEW t \in Threads, LockWrite(t) \/ RetryWrite(t)
        PROVE  Promise!Announce(t) \/ Promise!BeginWrite(t)
    <2>1. PICK inside : /\ pc[t] \in {"out", "writeBlocked"}
                         /\ WriteLoop(t, inside)
      BY <1>4 DEF LockWrite, RetryWrite
    <2>2. CASE WriterMustWait
      BY <2>1, <2>2, <1>0
      DEF WriteLoop, Promise!Announce, Readers, Writers, BlockedWriters
    <2>3. CASE ~WriterMustWait
      <3>1. pc' = [pc EXCEPT ![t] = "writing"]
        BY <2>1, <2>3 DEF WriteLoop
      <3>2. Readers = {}
        <4>1. Cardinality(Readers) = 0
          BY <2>3 DEF WriterMustWait, LockInv, CountersExact, TypeOK
        <4> QED BY <4>1, <1>0, Counts
      <3>3. Writers = {}
        BY <2>3 DEF WriterMustWait, LockInv, CountersExact
      <3>4. /\ Readers' = Readers /\ Writers' = Writers \cup {t}
            /\ BlockedWriters' = BlockedWriters \ {t}
        BY <3>1, <2>1, <1>0 DEF Readers, Writers, BlockedWriters
      <3> QED BY <3>2, <3>3, <3>4 DEF Promise!BeginWrite
    <2> QED BY <2>2, <2>3
  <1>5. ASSUME NEW t \in Threads, UnlockWrite(t)
        PROVE  Promise!EndWrite(t)
    <2>1. t \in Writers /\ pc' = [pc EXCEPT ![t] = "out"]
      BY <1>5 DEF UnlockWrite, Writers
    <2>2. Writers = {t}
      BY <2>1 DEF LockInv, MutualExclusion
    <2>3. Writers' = {} /\ Readers' = Readers /\ BlockedWriters' = BlockedWriters
      BY <2>1, <2>2, <1>0 DEF Readers, Writers, BlockedWriters
    <2> QED BY <2>2, <2>3 DEF Promise!EndWrite
  <1>6. ASSUME NEW t \in Threads, SpuriousWakeup(t)
        PROVE  UNCHANGED Promise!vars
    BY <1>6 DEF SpuriousWakeup, Promise!vars, Readers, Writers, BlockedWriters
  <1> QED BY <1>1, <1>2, <1>3, <1>4, <1>5, <1>6
          DEF Next, Acquire, Proceed, Promise!Next

\* RWLock implements the readers-writers promise for any set of threads.
THEOREM LockImplementation == Spec => ImplementsPromise
  BY LockInitRefines, LockStepRefines, LockInvariant, PTL DEF Spec, ImplementsPromise, Promise!Spec

-----------------------------------------------------------------------------
(* Semaphore: as long as somebody sleeps, there are at least as many woken *)
(* threads as resources, also when a late thread takes one first.          *)

\* Semaphore counts with an operator of its own instance of FiniteSets, which is the same.
LEMMA SemaphoreCardinality == \A T : S!Cardinality(T) = Cardinality(T)
  <1> SUFFICES ASSUME NEW T PROVE S!Cardinality(T) = Cardinality(T)
    OBVIOUS
  <1> QED BY Zenon DEF S!Cardinality, Cardinality

\* Woken, and not yet back from acquire.
Awake == acquiring \ semaphoreQ

SemaphoreInv == S!TypeOK /\ S!EnoughAwake

LEMMA AwakeSize ==
    ASSUME S!TypeOK, NEW t \in Threads
    PROVE  /\ Cardinality(Awake) \in Nat
           /\ t \notin Awake => Cardinality(Awake \cup {t}) = Cardinality(Awake) + 1
           /\ t \in Awake => Cardinality(Awake \ {t}) = Cardinality(Awake) - 1
  <1>1. IsFiniteSet(Awake)
    BY ThreadsAssumption, FS_Subset DEF S!TypeOK, Awake
  <1> QED
    BY <1>1, FS_CardinalityType, FS_AddElement, FS_RemoveElement

LEMMA SemaphoreTypes ==
    S!SemaphoreAssumption /\ S!TypeOK /\ [S!Next]_(S!vars) => S!TypeOK'
  <1> SUFFICES ASSUME S!SemaphoreAssumption, S!TypeOK, [S!Next]_(S!vars) PROVE S!TypeOK'
    OBVIOUS
  <1>1. CASE UNCHANGED S!vars
    BY <1>1 DEF S!TypeOK, S!vars
  <1>2. ASSUME NEW t \in Threads, S!Acquire(t) \/ S!RetryAcquire(t) PROVE S!TypeOK'
    BY <1>2 DEF S!TypeOK, S!Acquire, S!RetryAcquire, S!AcquireLoop
  <1>3. ASSUME NEW t \in Threads, S!Release(t) PROVE S!TypeOK'
    BY <1>3 DEF S!TypeOK, S!Release, S!Signal, S!SemaphoreAssumption
  <1>4. ASSUME NEW t \in Threads, S!SpuriousWakeup(t) PROVE S!TypeOK'
    BY <1>4 DEF S!TypeOK, S!SpuriousWakeup
  <1> QED
    BY <1>1, <1>2, <1>3, <1>4 DEF S!Next

\* Acquiring takes one resource, and at most one of the woken threads with it.
LEMMA SemaphoreAcquireStep ==
    ASSUME SemaphoreInv, NEW t \in Threads, S!Acquire(t) \/ S!RetryAcquire(t)
    PROVE  S!EnoughAwake'
  <1>1. CASE count = 0
    <2>1. count' = 0 /\ S!TypeOK'
      BY <1>1 DEF SemaphoreInv, S!TypeOK, S!Acquire, S!RetryAcquire, S!AcquireLoop
    <2> QED
      BY SemaphoreCardinality, <2>1, AwakeSize, ThreadsAssumption, FS_Subset, FS_CardinalityType
         DEF S!EnoughAwake, S!TypeOK
  <1>2. CASE count # 0
    <2>1. /\ count' = count - 1 /\ semaphoreQ' = semaphoreQ
          /\ acquiring' = acquiring \ {t}
          /\ t \notin semaphoreQ
      BY <1>2 DEF SemaphoreInv, S!TypeOK, S!Acquire, S!RetryAcquire, S!AcquireLoop
    <2>2. Awake' = Awake \/ (t \in Awake /\ Awake' = Awake \ {t})
      BY <2>1 DEF Awake
    <2>3. S!TypeOK
      BY DEF SemaphoreInv
    <2>4. /\ Cardinality(Awake) \in Nat
          /\ t \in Awake => Cardinality(Awake \ {t}) = Cardinality(Awake) - 1
      BY <2>3, AwakeSize
    <2>5. Cardinality(Awake') \in Nat /\ Cardinality(Awake') >= Cardinality(Awake) - 1
      <3>1. CASE Awake' = Awake
        BY <2>4, <3>1
      <3>2. CASE t \in Awake /\ Awake' = Awake \ {t}
        BY <2>2, <2>4, <3>2, FS_CardinalityType, ThreadsAssumption, FS_Subset DEF S!TypeOK, SemaphoreInv, Awake
      <3> QED BY <2>2, <3>1, <3>2
    <2>6. semaphoreQ = {} \/ Cardinality(Awake) >= count
      BY SemaphoreCardinality DEF SemaphoreInv, S!EnoughAwake, Awake
    <2>7. count \in Nat
      BY <2>3 DEF S!TypeOK
    <2>8. semaphoreQ' = {} \/ Cardinality(Awake') >= count'
      BY <2>1, <2>4, <2>5, <2>6, <2>7
    <2> QED
      BY SemaphoreCardinality, <2>8 DEF S!EnoughAwake, Awake
  <1> QED
    BY <1>1, <1>2

\* A release adds a resource and wakes a sleeper, if there is one.
LEMMA SemaphoreReleaseStep ==
    ASSUME SemaphoreInv, NEW t \in Threads, S!Release(t)
    PROVE  S!EnoughAwake'
  <1>1. /\ count' = count + 1 /\ acquiring' = acquiring
        /\ semaphoreQ' \in S!Signal(semaphoreQ)
    BY DEF S!Release
  <1>2. CASE semaphoreQ = {}
    BY <1>1, <1>2 DEF S!Signal, S!EnoughAwake
  <1>3. CASE semaphoreQ # {}
    <2>1. PICK u \in semaphoreQ : semaphoreQ' = semaphoreQ \ {u}
      BY <1>1, <1>3 DEF S!Signal
    <2>2. u \in Threads /\ u \notin Awake /\ Awake' = Awake \cup {u}
      BY <1>1, <2>1 DEF SemaphoreInv, S!TypeOK, Awake
    <2>3. S!TypeOK
      BY DEF SemaphoreInv
    <2>4. /\ Cardinality(Awake') = Cardinality(Awake) + 1
          /\ Cardinality(Awake) \in Nat
      BY <2>2, <2>3, AwakeSize
    <2>5. Cardinality(Awake) >= count /\ count \in Nat
      BY SemaphoreCardinality, <1>3, <2>3 DEF SemaphoreInv, S!EnoughAwake, Awake, S!TypeOK
    <2>6. Cardinality(Awake') >= count'
      BY <1>1, <2>4, <2>5
    <2> QED
      BY SemaphoreCardinality, <2>6 DEF S!EnoughAwake, Awake
  <1> QED
    BY <1>2, <1>3

\* A spurious wake-up makes one more thread awake for the same resources.
LEMMA SemaphoreSpuriousStep ==
    ASSUME SemaphoreInv, NEW t \in Threads, S!SpuriousWakeup(t)
    PROVE  S!EnoughAwake'
  <1>1. /\ t \in semaphoreQ /\ semaphoreQ' = semaphoreQ \ {t}
        /\ count' = count /\ acquiring' = acquiring
    BY DEF S!SpuriousWakeup
  <1>2. t \notin Awake /\ Awake' = Awake \cup {t}
    BY <1>1 DEF SemaphoreInv, S!TypeOK, Awake
  <1>3. S!TypeOK
    BY DEF SemaphoreInv
  <1>4. Cardinality(Awake') = Cardinality(Awake) + 1
    BY <1>2, <1>3, AwakeSize
  <1>5. Cardinality(Awake) >= count /\ count \in Nat /\ Cardinality(Awake) \in Nat
    BY <1>1, <1>3, SemaphoreCardinality, AwakeSize DEF SemaphoreInv, S!TypeOK, S!EnoughAwake, Awake
  <1>6. Cardinality(Awake') >= count'
    BY <1>1, <1>4, <1>5
  <1> QED
    BY <1>6, SemaphoreCardinality DEF S!EnoughAwake, Awake

LEMMA EnoughAwakeStep == SemaphoreInv /\ [S!Next]_(S!vars) => S!EnoughAwake'
  <1> SUFFICES ASSUME SemaphoreInv, [S!Next]_(S!vars) PROVE S!EnoughAwake'
    OBVIOUS
  <1>1. CASE UNCHANGED S!vars
    BY <1>1 DEF SemaphoreInv, S!EnoughAwake, S!vars
  <1>2. CASE S!Next
    BY <1>2, SemaphoreAcquireStep, SemaphoreReleaseStep, SemaphoreSpuriousStep DEF S!Next
  <1> QED
    BY <1>1, <1>2

-----------------------------------------------------------------------------

\* Semaphore: while threads sleep in acquire, at least as many are woken as there are
\* resources, whoever takes them: no resource lies idle beside sleepers only.
THEOREM WokenForResources == S!SemaphoreAssumption => (S!Spec => [](S!TypeOK /\ S!EnoughAwake))
  <1> SUFFICES ASSUME S!SemaphoreAssumption PROVE S!Spec => [](S!TypeOK /\ S!EnoughAwake)
    OBVIOUS
  <1>1. S!Init => SemaphoreInv
    BY DEF S!SemaphoreAssumption, S!Init, SemaphoreInv, S!TypeOK, S!EnoughAwake
  <1>2. SemaphoreInv /\ [S!Next]_(S!vars) => SemaphoreInv'
    BY SemaphoreTypes, EnoughAwakeStep DEF SemaphoreInv
  <1>3. SemaphoreInv => S!TypeOK /\ S!EnoughAwake
    BY DEF SemaphoreInv
  <1> QED
    BY <1>1, <1>2, <1>3, PTL DEF S!Spec

-----------------------------------------------------------------------------
(* EventObject: a signal that is kept has a woken thread to consume it     *)

EventInv == E!TypeOK /\ E!SignalHeard

LEMMA SignalHeardStep == EventInv /\ [E!Next]_(E!vars) => EventInv'
  <1> SUFFICES ASSUME EventInv, [E!Next]_(E!vars) PROVE EventInv'
    OBVIOUS
  <1> USE DEF EventInv, E!TypeOK, E!SignalHeard
  <1>1. CASE UNCHANGED E!vars
    BY <1>1 DEF E!vars
  <1>2. ASSUME NEW t \in Threads, E!Wait(t) \/ E!RetryWait(t) PROVE EventInv'
    <2>1. CASE isSignaled
      BY <1>2, <2>1 DEF E!Wait, E!RetryWait, E!WaitLoop
    <2>2. CASE ~isSignaled
      BY <1>2, <2>2 DEF E!Wait, E!RetryWait, E!WaitLoop
    <2> QED BY <2>1, <2>2
  <1>3. ASSUME NEW t \in Threads, E!SignalEvent(t) PROVE EventInv'
    <2>1. CASE eventQ = {}
      BY <1>3, <2>1 DEF E!SignalEvent, E!Signal
    <2>2. CASE eventQ # {}
      <3>1. PICK u \in eventQ : eventQ' = eventQ \ {u}
        BY <1>3, <2>2 DEF E!SignalEvent, E!Signal
      <3> QED BY <1>3, <3>1 DEF E!SignalEvent
    <2> QED BY <2>1, <2>2
  <1>4. ASSUME NEW t \in Threads, E!SpuriousWakeup(t) PROVE EventInv'
    BY <1>4 DEF E!SpuriousWakeup
  <1> QED
    BY <1>1, <1>2, <1>3, <1>4 DEF E!Next

\* EventObject: a signal that nobody consumed yet never meets sleepers only.
THEOREM KeptSignalHeard == E!Spec => [](E!TypeOK /\ E!SignalHeard)
  <1>1. E!Init => EventInv
    BY DEF E!Init, EventInv, E!TypeOK, E!SignalHeard
  <1>2. EventInv => E!TypeOK /\ E!SignalHeard
    BY DEF EventInv
  <1> QED
    BY <1>1, <1>2, SignalHeardStep, PTL DEF E!Spec

-----------------------------------------------------------------------------
(* Barrier, for any number of generations.  A round is complete only when  *)
(* every thread of the team has arrived, so at that moment nobody is left of *)
(* the round before.  That is why the old generation can be told from the  *)
(* new one although the counter wraps.                                     *)

\* Barrier counts with an operator of its own instance of FiniteSets, which is the same.
LEMMA BarrierCardinality == \A T : B!Cardinality(T) = Cardinality(T)
  <1> SUFFICES ASSUME NEW T PROVE B!Cardinality(T) = Cardinality(T)
    OBVIOUS
  <1> QED BY Zenon DEF B!Cardinality, Cardinality

\* The type invariant with B!RoundsApart is inductive.
BarrierInv == B!TypeOK /\ B!RoundsApart

LEMMA BarrierGatheringFinite == BarrierInv => B!Gathering \in SUBSET Threads /\ IsFiniteSet(B!Gathering)
  BY ThreadsAssumption, FS_Subset DEF BarrierInv, B!TypeOK, B!Gathering

\* Barrier::wait: at the last arrival all the others are gathered.
LEMMA BarrierLastArrival ==
    ASSUME BarrierInv, NEW t \in Threads, t \notin waiting, waitCount + 1 = B!ThreadCount
    PROVE  waiting = Threads \ {t} /\ B!Gathering = waiting
  <1>1. Cardinality(B!Gathering) + 1 = Cardinality(Threads)
    BY BarrierCardinality DEF BarrierInv, B!RoundsApart, B!ThreadCount
  <1>2. B!Gathering \subseteq Threads \ {t}
    BY DEF BarrierInv, B!TypeOK, B!Gathering
  <1>3. IsFiniteSet(Threads \ {t}) /\ Cardinality(Threads \ {t}) = Cardinality(Threads) - 1
    BY ThreadsAssumption, FS_RemoveElement
  <1>4. Cardinality(Threads) \in Nat /\ Cardinality(B!Gathering) \in Nat
    BY ThreadsAssumption, BarrierGatheringFinite, FS_CardinalityType
  <1>5. Cardinality(B!Gathering) = Cardinality(Threads \ {t})
    BY <1>1, <1>3, <1>4
  <1>6. B!Gathering = Threads \ {t}
    BY <1>2, <1>3, <1>5, FS_Subset
  <1> QED
    BY <1>6 DEF BarrierInv, B!TypeOK, B!Gathering

LEMMA BarrierNextGenerationDiffers ==
    ASSUME B!BarrierAssumption, BarrierInv
    PROVE  B!NextGeneration # generation /\ B!NextGeneration \in 0 .. Generations - 1
  <1>1. Generations \in Nat /\ Generations >= 2 /\ generation \in 0 .. Generations - 1
    BY DEF B!BarrierAssumption, BarrierInv, B!TypeOK
  <1>2. CASE generation = Generations - 1
    <2>1. generation + 1 = Generations
      BY <1>1, <1>2
    <2>2. B!NextGeneration = 0
      BY <1>1, <2>1 DEF B!NextGeneration
    <2> QED
      BY <1>1, <1>2, <2>2
  <1>3. CASE generation # Generations - 1
    <2>1. B!NextGeneration = generation + 1
      BY <1>1, <1>3 DEF B!NextGeneration
    <2> QED
      BY <1>1, <1>3, <2>1
  <1> QED
    BY <1>2, <1>3

LEMMA BarrierInitInvariant == B!BarrierAssumption /\ B!Init => BarrierInv
  <1> SUFFICES ASSUME B!BarrierAssumption, B!Init PROVE BarrierInv
    OBVIOUS
  <1>1. Cardinality(Threads) \in Nat /\ Cardinality(Threads) # 0
    BY ThreadsAssumption, FS_CardinalityType, FS_EmptySet DEF B!BarrierAssumption
  <1>2. B!TypeOK
    BY BarrierCardinality, <1>1 DEF B!Init, B!TypeOK, B!ThreadCount, B!BarrierAssumption
  <1>3. B!Gathering = {}
    BY DEF B!Init, B!Gathering
  <1> QED
    BY BarrierCardinality, <1>2, <1>3, FS_EmptySet DEF BarrierInv, B!RoundsApart, B!Init

LEMMA BarrierReleaseStep ==
    ASSUME B!BarrierAssumption, BarrierInv, NEW t \in Threads, B!Release(t)
    PROVE  BarrierInv' /\ B!Gathering' = {} /\ waiting' = Threads \ {t}
  <1>1. waiting = Threads \ {t} /\ B!Gathering = waiting
    BY BarrierLastArrival DEF B!Release
  <1>2. B!Gathering' = {}
    BY <1>1, BarrierNextGenerationDiffers DEF B!Release, B!Gathering
  <1>3. Cardinality(Threads) \in Nat /\ Cardinality(Threads) # 0
    BY ThreadsAssumption, FS_CardinalityType, FS_EmptySet DEF B!BarrierAssumption
  <1>4. B!TypeOK'
    BY <1>3, BarrierNextGenerationDiffers DEF BarrierInv, B!TypeOK, B!Release, B!Broadcast, B!ThreadCount
  <1>5. B!RoundsApart'
    BY BarrierCardinality, <1>2, FS_EmptySet DEF B!RoundsApart, B!Release, B!Broadcast
  <1> QED
    BY <1>1, <1>2, <1>4, <1>5 DEF BarrierInv, B!Release

LEMMA BarrierBlockStep ==
    ASSUME BarrierInv, NEW t \in Threads, B!Block(t)
    PROVE  BarrierInv' /\ B!Gathering' = B!Gathering \cup {t} /\ B!Leaving' = B!Leaving
  <1>1. gen'[t] = generation /\ \A u \in Threads \ {t} : gen'[u] = gen[u]
    BY DEF B!Block, BarrierInv, B!TypeOK
  <1>2. B!Gathering' = B!Gathering \cup {t} /\ t \notin B!Gathering
    BY <1>1 DEF B!Block, B!Gathering, BarrierInv, B!TypeOK
  <1>3. B!Leaving' = B!Leaving
    BY <1>2 DEF B!Leaving, B!Block, B!Gathering
  <1>4. Cardinality(B!Gathering') = Cardinality(B!Gathering) + 1
    BY <1>2, BarrierGatheringFinite, FS_AddElement
  <1>5. Cardinality(Threads) \in Nat
    BY ThreadsAssumption, FS_CardinalityType
  <1>6. waitCount' \in 0 .. B!ThreadCount - 1
    BY BarrierCardinality, <1>5 DEF B!Block, BarrierInv, B!TypeOK, B!ThreadCount
  <1>7. B!TypeOK'
    BY <1>6 DEF B!Block, BarrierInv, B!TypeOK
  <1>8. B!RoundsApart'
    BY BarrierCardinality, <1>2, <1>4 DEF B!RoundsApart, B!Block, BarrierInv
  <1> QED
    BY <1>2, <1>3, <1>7, <1>8 DEF BarrierInv

LEMMA BarrierRetryStep ==
    ASSUME BarrierInv, NEW t \in Threads, B!Retry(t)
    PROVE  /\ BarrierInv' /\ B!Gathering' = B!Gathering
           /\ B!Leaving' = B!Leaving \/ (t \in B!Leaving /\ B!Leaving' = B!Leaving \ {t})
  <1>1. CASE gen[t] = generation
    BY <1>1 DEF B!Retry, BarrierInv, B!TypeOK, B!RoundsApart, B!Gathering, B!Leaving
  <1>2. CASE gen[t] # generation
    <2>1. B!Gathering' = B!Gathering
      BY <1>2 DEF B!Retry, B!Gathering
    <2>2. t \in B!Leaving /\ B!Leaving' = B!Leaving \ {t}
      BY <1>2 DEF B!Retry, B!Gathering, B!Leaving
    <2>3. B!TypeOK'
      BY <1>2 DEF B!Retry, BarrierInv, B!TypeOK
    <2> QED
      BY <1>2, <2>1, <2>2, <2>3 DEF BarrierInv, B!RoundsApart, B!Retry
  <1> QED
    BY <1>1, <1>2

LEMMA BarrierSpuriousStep ==
    ASSUME BarrierInv, NEW t \in Threads, B!SpuriousWakeup(t)
    PROVE  BarrierInv' /\ B!Gathering' = B!Gathering /\ B!Leaving' = B!Leaving
  BY DEF B!SpuriousWakeup, BarrierInv, B!TypeOK, B!RoundsApart, B!Gathering, B!Leaving

LEMMA BarrierStepInvariant == B!BarrierAssumption /\ BarrierInv /\ [B!Next]_(B!vars) => BarrierInv'
  <1> SUFFICES ASSUME B!BarrierAssumption, BarrierInv, [B!Next]_(B!vars) PROVE BarrierInv'
    OBVIOUS
  <1>1. CASE UNCHANGED B!vars
    BY <1>1 DEF B!vars, BarrierInv, B!TypeOK, B!RoundsApart, B!Gathering
  <1>2. CASE B!Next
    BY <1>2, BarrierReleaseStep, BarrierBlockStep, BarrierRetryStep, BarrierSpuriousStep DEF B!Next
  <1> QED
    BY <1>1, <1>2

\* Barrier::wait: the state stays in its types and the arrivals of the current round
\* are counted exactly, for any team and any width of the generation counter.
THEOREM BarrierRounds == B!BarrierAssumption => (B!Spec => [](B!TypeOK /\ B!RoundsApart))
  <1> SUFFICES ASSUME B!BarrierAssumption PROVE B!Spec => [](B!TypeOK /\ B!RoundsApart)
    OBVIOUS
  <1>1. B!Init => BarrierInv
    BY BarrierInitInvariant
  <1>2. BarrierInv /\ [B!Next]_(B!vars) => BarrierInv'
    BY BarrierStepInvariant
  <1>3. BarrierInv => B!TypeOK /\ B!RoundsApart
    BY DEF BarrierInv
  <1> QED
    BY <1>1, <1>2, <1>3, PTL DEF B!Spec

LEMMA BarrierStepRefines ==
    B!BarrierAssumption /\ BarrierInv /\ [B!Next]_(B!vars) => [B!Promise!Next]_(B!Promise!vars)
  <1> SUFFICES ASSUME B!BarrierAssumption, BarrierInv, [B!Next]_(B!vars)
               PROVE  [B!Promise!Next]_(B!Promise!vars)
    OBVIOUS
  <1>1. CASE UNCHANGED B!vars
    BY <1>1 DEF B!vars, B!Promise!vars, B!Gathering, B!Leaving
  <1>2. ASSUME NEW t \in Threads, B!Release(t) PROVE B!Promise!Arrive(t)
    <2>1. B!Gathering = waiting /\ t \notin waiting
      BY <1>2, BarrierLastArrival DEF B!Release
    <2>2. B!Leaving = {}
      BY <2>1 DEF B!Leaving
    <2>3. B!Gathering' = {} /\ B!Leaving' = B!Gathering
      BY <1>2, <2>1, BarrierReleaseStep DEF B!Leaving, B!Release
    <2>4. B!Gathering \cup {t} = Threads
      BY <1>2, BarrierLastArrival DEF B!Release
    <2> QED
      BY <2>1, <2>2, <2>3, <2>4 DEF B!Promise!Arrive
  <1>3. ASSUME NEW t \in Threads, B!Block(t) PROVE B!Promise!Arrive(t)
    <2>1. t \notin B!Gathering \cup B!Leaving
      BY <1>3 DEF B!Block, B!Gathering, B!Leaving
    <2>2. Cardinality(B!Gathering \cup {t}) = Cardinality(B!Gathering) + 1
      BY <2>1, BarrierGatheringFinite, FS_AddElement
    <2>3. Cardinality(B!Gathering) + 1 # Cardinality(Threads)
      BY BarrierCardinality, <1>3 DEF B!Block, BarrierInv, B!RoundsApart, B!ThreadCount
    <2>4. B!Gathering \cup {t} # Threads
      BY <2>2, <2>3
    <2> QED
      BY <1>3, <2>1, <2>4, BarrierBlockStep DEF B!Promise!Arrive
  <1>4. ASSUME NEW t \in Threads, B!Retry(t) PROVE B!Promise!Leave(t) \/ UNCHANGED B!Promise!vars
    BY <1>4, BarrierRetryStep DEF B!Promise!Leave, B!Promise!vars
  <1>5. ASSUME NEW t \in Threads, B!SpuriousWakeup(t) PROVE UNCHANGED B!Promise!vars
    BY <1>5, BarrierSpuriousStep DEF B!Promise!vars
  <1>6. CASE B!Next
    BY <1>2, <1>3, <1>4, <1>5, <1>6 DEF B!Next, B!Promise!Next
  <1> QED
    BY <1>1, <1>6

\* Barrier::wait: every team keeps the promise of a reusable barrier, with threads of
\* the last round still leaving and the generation counter wrapping around.
THEOREM BarrierImplementation == B!BarrierAssumption => (B!Spec => B!ImplementsPromise)
  <1> SUFFICES ASSUME B!BarrierAssumption PROVE B!Spec => B!ImplementsPromise
    OBVIOUS
  <1>1. B!Init => B!Promise!Init
    BY DEF B!Init, B!Promise!Init, B!Gathering, B!Leaving
  <1>2. B!Init => BarrierInv
    BY BarrierInitInvariant
  <1>3. BarrierInv /\ [B!Next]_(B!vars) => BarrierInv'
    BY BarrierStepInvariant
  <1>4. BarrierInv /\ [B!Next]_(B!vars) => [B!Promise!Next]_(B!Promise!vars)
    BY BarrierStepRefines
  <1> QED
    BY <1>1, <1>2, <1>3, <1>4, PTL DEF B!Spec, B!ImplementsPromise, B!Promise!Spec

-----------------------------------------------------------------------------
(* CircularQueue: a deque of at most Size - 1 items, for every size of the *)
(* ring and any items.                                                     *)

\* The successor of a slot wraps at the end of the ring.
LEMMA AfterWraps ==
    ASSUME Q!CircularQueueAssumption, NEW i \in Q!Slots
    PROVE  Q!After(i) = IF i = Size - 1 THEN 0 ELSE i + 1
  <1>1. CASE i = Size - 1
    BY <1>1, SMT DEF Q!CircularQueueAssumption, Q!Slots, Q!After
  <1>2. CASE i # Size - 1
    BY <1>2, SMT DEF Q!CircularQueueAssumption, Q!Slots, Q!After
  <1> QED BY <1>1, <1>2

\* The predecessor of a slot is a slot, and its successor is that slot again.
LEMMA BeforeWraps ==
    ASSUME Q!CircularQueueAssumption, NEW i \in Q!Slots
    PROVE  Q!Before(i) \in Q!Slots /\ Q!After(i) \in Q!Slots
  BY AfterWraps, SMT DEF Q!CircularQueueAssumption, Q!Slots, Q!Before

\* The type invariant is inductive.
LEMMA QueueTypeInductive ==
    ASSUME Q!CircularQueueAssumption
    PROVE  (Q!Init => Q!TypeOK) /\ (Q!TypeOK /\ [Q!Next]_(Q!vars) => Q!TypeOK')
  <1>1. Q!Init => Q!TypeOK
    BY SMT DEF Q!CircularQueueAssumption, Q!Init, Q!TypeOK, Q!Slots
  <1>2. ASSUME Q!TypeOK, [Q!Next]_(Q!vars) PROVE Q!TypeOK'
    <2> USE Q!CircularQueueAssumption, Q!TypeOK
    <2>0. readIndex \in Q!Slots /\ writeIndex \in Q!Slots
      BY DEF Q!TypeOK
    <2>1. /\ Q!Before(readIndex) \in Q!Slots
          /\ Q!After(readIndex) \in Q!Slots
          /\ Q!After(writeIndex) \in Q!Slots
      BY <2>0, BeforeWraps
    <2>2. ASSUME NEW x \in Items, Q!PushBack(x) PROVE Q!TypeOK'
      BY <2>1, <2>2 DEF Q!PushBack, Q!TypeOK
    <2>3. ASSUME NEW x \in Items, Q!PushFront(x) PROVE Q!TypeOK'
      BY <2>1, <2>3 DEF Q!PushFront, Q!TypeOK
    <2>4. CASE Q!PopFront
      BY <2>1, <2>4 DEF Q!PopFront, Q!TypeOK
    <2>5. CASE UNCHANGED Q!vars
      BY <2>5 DEF Q!vars, Q!TypeOK
    <2> QED BY <1>2, <2>2, <2>3, <2>4, <2>5 DEF Q!Next
  <1> QED BY <1>1, <1>2

\* Both indices stay within the ring and a slot holds an item or nothing.
THEOREM QueueTypes ==
    ASSUME Q!CircularQueueAssumption
    PROVE  Q!Spec => []Q!TypeOK
  BY QueueTypeInductive, PTL DEF Q!Spec

-----------------------------------------------------------------------------
(* The sequence that a ring stands for.                                    *)

\* It has as many items as the indices are apart, from slots of the ring.
LEMMA QueueShape ==
    ASSUME Q!CircularQueueAssumption, Q!TypeOK
    PROVE  /\ Q!Count \in 0 .. Size - 1
           /\ \A i \in 1 .. Q!Count : Q!SlotOf(i) \in Q!Slots /\ Q!SlotOf(i) # writeIndex
           /\ Q!Contents \in Seq(Items \cup {Nothing})
           /\ Len(Q!Contents) = Q!Count
           /\ \A i \in 1 .. Q!Count : Q!Contents[i] = buffer[Q!SlotOf(i)]
  <1>1. Size \in Nat \ {0} /\ readIndex \in 0 .. Size - 1 /\ writeIndex \in 0 .. Size - 1
    BY DEF Q!CircularQueueAssumption, Q!TypeOK, Q!Slots
  <1>2. Q!Count \in 0 .. Size - 1
    BY <1>1 DEF Q!Count
  <1>3. ASSUME NEW i \in 1 .. Q!Count PROVE Q!SlotOf(i) \in Q!Slots /\ Q!SlotOf(i) # writeIndex
    BY <1>1, <1>2 DEF Q!Count, Q!SlotOf, Q!Slots
  <1>4. Q!Contents \in [1 .. Q!Count -> Items \cup {Nothing}]
    BY <1>3 DEF Q!Contents, Q!TypeOK
  <1>5. Q!Count \in Nat
    BY <1>2, <1>1
  <1>6. Q!Contents \in Seq(Items \cup {Nothing}) /\ Len(Q!Contents) = Q!Count
    BY <1>4, <1>5
  <1> QED BY <1>2, <1>3, <1>6 DEF Q!Contents

\* A sequence is the function of its items.
LEMMA OneByOne ==
    ASSUME NEW T, NEW s \in Seq(T)
    PROVE  s = [i \in 1 .. Len(s) |-> s[i]]
  BY LenProperties

\* What appending, prepending and taking the tail do to the items one by one.
LEMMA AppendOneByOne ==
    ASSUME NEW T, NEW s \in Seq(T), NEW x \in T
    PROVE  Append(s, x) = [i \in 1 .. Len(s) + 1 |-> IF i = Len(s) + 1 THEN x ELSE s[i]]
  <1>1. Append(s, x) \in Seq(T) /\ Len(Append(s, x)) = Len(s) + 1
    BY AppendProperties
  <1>2. \A i \in 1 .. Len(s) + 1 : Append(s, x)[i] = IF i = Len(s) + 1 THEN x ELSE s[i]
    <2> TAKE i \in 1 .. Len(s) + 1
    <2>1. CASE i = Len(s) + 1
      BY <2>1, AppendProperties
    <2>2. CASE i # Len(s) + 1
      <3>1. i \in 1 .. Len(s)
        BY <2>2
      <3> QED BY <3>1, <2>2, AppendProperties
    <2> QED BY <2>1, <2>2
  <1>3. Append(s, x) = [i \in 1 .. Len(s) + 1 |-> Append(s, x)[i]]
    BY <1>1, OneByOne
  <1> QED BY <1>2, <1>3

LEMMA PrependOneByOne ==
    ASSUME NEW T, NEW s \in Seq(T), NEW x \in T
    PROVE  <<x>> \o s = [i \in 1 .. Len(s) + 1 |-> IF i = 1 THEN x ELSE s[i - 1]]
  <1>1. <<x>> \in Seq(T) /\ Len(<<x>>) = 1 /\ <<x>>[1] = x
    OBVIOUS
  <1>2. <<x>> \o s \in Seq(T) /\ Len(<<x>> \o s) = Len(s) + 1
    BY <1>1, ConcatProperties
  <1>3. \A i \in 1 .. Len(s) + 1 : (<<x>> \o s)[i] = IF i = 1 THEN x ELSE s[i - 1]
    <2> TAKE i \in 1 .. Len(s) + 1
    <2>1. i \in 1 .. Len(<<x>>) + Len(s)
      BY <1>1
    <2>2. (<<x>> \o s)[i] = IF i <= Len(<<x>>) THEN <<x>>[i] ELSE s[i - Len(<<x>>)]
      BY <1>1, <2>1, ConcatProperties
    <2> QED BY <1>1, <2>2
  <1>4. <<x>> \o s = [i \in 1 .. Len(s) + 1 |-> (<<x>> \o s)[i]]
    BY <1>2, OneByOne
  <1> QED BY <1>3, <1>4

LEMMA TailOneByOne ==
    ASSUME NEW T, NEW s \in Seq(T), s # <<>>
    PROVE  Tail(s) = [i \in 1 .. Len(s) - 1 |-> s[i + 1]]
  <1>1. Tail(s) \in Seq(T) /\ Len(Tail(s)) = Len(s) - 1
    BY HeadTailProperties
  <1>2. \A i \in 1 .. Len(s) - 1 : Tail(s)[i] = s[i + 1]
    BY <1>1
  <1>3. Tail(s) = [i \in 1 .. Len(s) - 1 |-> Tail(s)[i]]
    BY <1>1, OneByOne
  <1> QED BY <1>2, <1>3

\* The queue starts empty.
LEMMA EmptyQueueRefines ==
    ASSUME Q!CircularQueueAssumption, Q!Init
    PROVE  Q!Deque!Init
  <1>1. Q!Count = 0
    BY DEF Q!Init, Q!Count
  <1>2. Q!Contents = <<>>
    BY <1>1 DEF Q!Contents
  <1> QED BY <1>2 DEF Q!Init, Q!Deque!Init

\* A push at the back: the slot of the write index comes after all the others.
LEMMA PushBackRefines ==
    ASSUME Q!CircularQueueAssumption, Q!TypeOK, NEW x \in Items, Q!PushBack(x)
    PROVE  Q!Deque!PushBack(x) \/ Q!Deque!Refuse
  <1>1. Size \in Nat \ {0} /\ readIndex \in 0 .. Size - 1 /\ writeIndex \in 0 .. Size - 1
    BY DEF Q!CircularQueueAssumption, Q!TypeOK, Q!Slots
  <1>2. Q!After(writeIndex) = IF writeIndex = Size - 1 THEN 0 ELSE writeIndex + 1
    BY AfterWraps DEF Q!TypeOK
  <1>3. Len(Q!Contents) = Q!Count
    BY QueueShape
  <1>4. CASE Q!After(writeIndex) = readIndex
    <2>1. Q!Count = Size - 1
      BY <1>1, <1>2, <1>4 DEF Q!Count
    <2>2. ~Q!Deque!Room
      BY <1>1, <1>3, <2>1 DEF Q!Deque!Room
    <2>3. result' = FALSE /\ UNCHANGED <<buffer, readIndex, writeIndex>>
      BY <1>4 DEF Q!PushBack
    <2>4. UNCHANGED Q!Contents
      BY <2>3 DEF Q!Contents, Q!Count, Q!SlotOf
    <2> QED BY <2>2, <2>3, <2>4 DEF Q!Deque!Refuse
  <1>5. CASE Q!After(writeIndex) # readIndex
    <2>1. /\ buffer' = [buffer EXCEPT ![writeIndex] = x]
          /\ writeIndex' = Q!After(writeIndex) /\ readIndex' = readIndex /\ result' = TRUE
      BY <1>5 DEF Q!PushBack
    <2>2. Q!Count < Size - 1 /\ Q!Count' = Q!Count + 1
      BY <1>1, <1>2, <1>5, <2>1 DEF Q!Count
    <2>3. Q!SlotOf(Q!Count + 1) = writeIndex
      BY <1>1, <1>2, <1>5 DEF Q!Count, Q!SlotOf
    <2>4. Q!Count \in Nat
      BY <1>1, QueueShape
    <2>5. ASSUME NEW i \in 1 .. Q!Count + 1
          PROVE  buffer'[Q!SlotOf(i)'] = IF i = Q!Count + 1 THEN x ELSE Q!Contents[i]
      <3>1. Q!SlotOf(i)' = Q!SlotOf(i)
        BY <2>1 DEF Q!SlotOf
      <3>2. CASE i = Q!Count + 1
        BY <3>1, <3>2, <2>1, <2>3 DEF Q!TypeOK
      <3>3. CASE i # Q!Count + 1
        <4>1. i \in 1 .. Q!Count
          BY <3>3, <2>4
        <4>2. Q!SlotOf(i) \in Q!Slots /\ Q!SlotOf(i) # writeIndex /\ Q!Contents[i] = buffer[Q!SlotOf(i)]
          BY <4>1, QueueShape
        <4> QED BY <3>1, <3>3, <4>2, <2>1 DEF Q!TypeOK
      <3> QED BY <3>2, <3>3
    <2>6. Q!Contents' = [i \in 1 .. Q!Count + 1 |-> IF i = Q!Count + 1 THEN x ELSE Q!Contents[i]]
      BY <2>2, <2>5 DEF Q!Contents
    <2>7. Append(Q!Contents, x) =
           [i \in 1 .. Q!Count + 1 |-> IF i = Q!Count + 1 THEN x ELSE Q!Contents[i]]
      <3>1. Q!Contents \in Seq(Items \cup {Nothing}) /\ x \in Items \cup {Nothing}
        BY QueueShape
      <3> QED BY <1>3, <3>1, AppendOneByOne
    <2>8. Q!Deque!Room
      BY <1>3, <2>2 DEF Q!Deque!Room
    <2> QED BY <2>1, <2>6, <2>7, <2>8 DEF Q!Deque!PushBack
  <1> QED BY <1>4, <1>5

\* A push at the front: the slot before the read index comes before all the others.
LEMMA PushFrontRefines ==
    ASSUME Q!CircularQueueAssumption, Q!TypeOK, NEW x \in Items, Q!PushFront(x)
    PROVE  Q!Deque!PushFront(x) \/ Q!Deque!Refuse
  <1>1. Size \in Nat \ {0} /\ readIndex \in 0 .. Size - 1 /\ writeIndex \in 0 .. Size - 1
    BY DEF Q!CircularQueueAssumption, Q!TypeOK, Q!Slots
  <1>3. Len(Q!Contents) = Q!Count
    BY QueueShape
  <1>4. CASE Q!Before(readIndex) = writeIndex
    <2>1. Q!Count = Size - 1
      BY <1>1, <1>4 DEF Q!Count, Q!Before
    <2>2. ~Q!Deque!Room
      BY <1>1, <1>3, <2>1 DEF Q!Deque!Room
    <2>3. result' = FALSE /\ UNCHANGED <<buffer, readIndex, writeIndex>>
      BY <1>4 DEF Q!PushFront
    <2>4. UNCHANGED Q!Contents
      BY <2>3 DEF Q!Contents, Q!Count, Q!SlotOf
    <2> QED BY <2>2, <2>3, <2>4 DEF Q!Deque!Refuse
  <1>5. CASE Q!Before(readIndex) # writeIndex
    <2>1. /\ buffer' = [buffer EXCEPT ![Q!Before(readIndex)] = x]
          /\ readIndex' = Q!Before(readIndex) /\ writeIndex' = writeIndex /\ result' = TRUE
      BY <1>5 DEF Q!PushFront
    <2>2. Q!Count < Size - 1 /\ Q!Count' = Q!Count + 1
      BY <1>1, <1>5, <2>1 DEF Q!Count, Q!Before
    <2>4. Q!Count \in Nat
      BY <1>1, QueueShape
    <2>5. ASSUME NEW i \in 1 .. Q!Count + 1
          PROVE  buffer'[Q!SlotOf(i)'] = IF i = 1 THEN x ELSE Q!Contents[i - 1]
      <3>0. Q!Before(readIndex) \in Q!Slots
        BY BeforeWraps DEF Q!TypeOK
      <3>2. CASE i = 1
        <4>1. Q!SlotOf(i)' = Q!Before(readIndex)
          BY <1>1, <2>1, <3>2 DEF Q!SlotOf, Q!Before
        <4> QED BY <3>0, <3>2, <4>1, <2>1 DEF Q!TypeOK
      <3>3. CASE i # 1
        <4>1. i - 1 \in 1 .. Q!Count
          BY <3>3, <2>4
        <4>2. Q!SlotOf(i)' = Q!SlotOf(i - 1)
          BY <1>1, <2>1, <2>2, <4>1 DEF Q!SlotOf, Q!Before, Q!Count
        <4>3. Q!SlotOf(i - 1) \in Q!Slots /\ Q!Contents[i - 1] = buffer[Q!SlotOf(i - 1)]
          BY <4>1, QueueShape
        <4>4. Q!SlotOf(i - 1) # Q!Before(readIndex)
          BY <1>1, <2>2, <4>1 DEF Q!SlotOf, Q!Before, Q!Count
        <4> QED BY <3>3, <4>2, <4>3, <4>4, <2>1 DEF Q!TypeOK
      <3> QED BY <3>2, <3>3
    <2>6. Q!Contents' = [i \in 1 .. Q!Count + 1 |-> IF i = 1 THEN x ELSE Q!Contents[i - 1]]
      BY <2>2, <2>5 DEF Q!Contents
    <2>7. <<x>> \o Q!Contents = [i \in 1 .. Q!Count + 1 |-> IF i = 1 THEN x ELSE Q!Contents[i - 1]]
      <3>1. Q!Contents \in Seq(Items \cup {Nothing}) /\ x \in Items \cup {Nothing}
        BY QueueShape
      <3> QED BY <1>3, <3>1, PrependOneByOne
    <2>8. Q!Deque!Room
      BY <1>3, <2>2 DEF Q!Deque!Room
    <2> QED BY <2>1, <2>6, <2>7, <2>8 DEF Q!Deque!PushFront
  <1> QED BY <1>4, <1>5

\* A pop: the slot of the read index holds the first item.
LEMMA PopFrontRefines ==
    ASSUME Q!CircularQueueAssumption, Q!TypeOK, Q!PopFront
    PROVE  Q!Deque!PopFront \/ Q!Deque!PopNothing
  <1>1. Size \in Nat \ {0} /\ readIndex \in 0 .. Size - 1 /\ writeIndex \in 0 .. Size - 1
    BY DEF Q!CircularQueueAssumption, Q!TypeOK, Q!Slots
  <1>2. Q!After(readIndex) = IF readIndex = Size - 1 THEN 0 ELSE readIndex + 1
    BY AfterWraps DEF Q!TypeOK
  <1>3. Len(Q!Contents) = Q!Count /\ Q!Contents \in Seq(Items \cup {Nothing})
    BY QueueShape
  <1>4. CASE readIndex = writeIndex
    <2>1. Q!Count = 0
      BY <1>1, <1>4 DEF Q!Count
    <2>2. Q!Contents = <<>>
      BY <2>1 DEF Q!Contents
    <2>3. result' = Nothing /\ UNCHANGED <<buffer, readIndex, writeIndex>>
      BY <1>4 DEF Q!PopFront
    <2>4. UNCHANGED Q!Contents
      BY <2>3 DEF Q!Contents, Q!Count, Q!SlotOf
    <2> QED BY <2>2, <2>3, <2>4 DEF Q!Deque!PopNothing
  <1>5. CASE readIndex # writeIndex
    <2>1. /\ result' = buffer[readIndex] /\ readIndex' = Q!After(readIndex)
          /\ buffer' = buffer /\ writeIndex' = writeIndex
      BY <1>5 DEF Q!PopFront
    <2>2. Q!Count > 0 /\ Q!Count' = Q!Count - 1
      BY <1>1, <1>2, <1>5, <2>1 DEF Q!Count
    <2>4. Q!Count \in Nat
      BY <1>1, QueueShape
    <2>5. Q!Contents # <<>> /\ Head(Q!Contents) = buffer[readIndex]
      <3>1. 1 \in 1 .. Q!Count
        BY <2>2, <2>4
      <3>2. Q!SlotOf(1) = readIndex
        BY <1>1 DEF Q!SlotOf
      <3>3. Q!Contents[1] = buffer[readIndex]
        BY <3>1, <3>2, QueueShape
      <3> QED BY <1>3, <2>2, <3>3
    <2>6. ASSUME NEW i \in 1 .. Q!Count - 1
          PROVE  buffer'[Q!SlotOf(i)'] = Q!Contents[i + 1]
      <3>1. i + 1 \in 1 .. Q!Count
        BY <2>4
      <3>2. Q!SlotOf(i)' = Q!SlotOf(i + 1)
        BY <1>1, <1>2, <2>1, <3>1 DEF Q!SlotOf, Q!Count
      <3> QED BY <2>1, <3>1, <3>2, QueueShape
    <2>7. Q!Contents' = [i \in 1 .. Q!Count - 1 |-> Q!Contents[i + 1]]
      BY <2>2, <2>6 DEF Q!Contents
    <2>8. Tail(Q!Contents) = [i \in 1 .. Q!Count - 1 |-> Q!Contents[i + 1]]
      <3> QED BY <1>3, <2>5, TailOneByOne
    <2> QED BY <2>1, <2>5, <2>7, <2>8 DEF Q!Deque!PopFront
  <1> QED BY <1>4, <1>5

\* The ring implements the bounded deque: whatever its size and however the indices have
\* gone around, items come out in order, and a push is refused exactly when Size - 1 items
\* are held.
THEOREM QueueImplementation ==
    ASSUME Q!CircularQueueAssumption
    PROVE  Q!Spec => Q!ImplementsDeque
  <1>1. ASSUME Q!TypeOK, [Q!Next]_(Q!vars) PROVE [Q!Deque!Next]_(Q!Deque!vars)
    <2>1. ASSUME NEW x \in Items, Q!PushBack(x) PROVE Q!Deque!Next
      BY <1>1, <2>1, PushBackRefines DEF Q!Deque!Next
    <2>2. ASSUME NEW x \in Items, Q!PushFront(x) PROVE Q!Deque!Next
      BY <1>1, <2>2, PushFrontRefines DEF Q!Deque!Next
    <2>3. CASE Q!PopFront
      BY <1>1, <2>3, PopFrontRefines DEF Q!Deque!Next
    <2>4. CASE UNCHANGED Q!vars
      BY <2>4 DEF Q!vars, Q!Deque!vars, Q!Contents, Q!Count, Q!SlotOf
    <2> QED BY <1>1, <2>1, <2>2, <2>3, <2>4 DEF Q!Next
  <1> QED BY <1>1, EmptyQueueRefines, QueueTypes, PTL DEF Q!Spec, Q!ImplementsDeque, Q!Deque!Spec

-----------------------------------------------------------------------------
(* All of them in one behaviour                                            *)

FP == INSTANCE FiberSyncProofs WITH Fibers <- {f1, f2, f3}, pc <- at

\* The steps of MCPrimitives are steps of one primitive, or stutter for it.
LEMMA EachIsRun ==
    MCSpec => Spec /\ B!Spec /\ S!Spec /\ E!Spec /\ Q!Spec /\ F!Spec
  <1>1. MCInit => Init /\ B!Init /\ S!Init /\ E!Init /\ Q!Init /\ F!Init
    BY DEF MCInit
  <1>2. ASSUME [MCNext]_all
        PROVE  /\ [Next]_vars /\ [B!Next]_(B!vars) /\ [S!Next]_(S!vars)
               /\ [E!Next]_(E!vars) /\ [Q!Next]_(Q!vars) /\ [F!Next]_(F!vars)
    <2> USE DEF ofBarrier, ofSemaphore, ofEvent, ofQueue, ofFibers, B!vars, S!vars, E!vars,
          Q!vars, F!vars, F!grants, F!waiters, F!tasks, F!calls
    <2>1. CASE LockStep
      BY <2>1 DEF LockStep
    <2>2. CASE BarrierStep
      BY <2>2 DEF BarrierStep
    <2>3. CASE SemaphoreStep
      BY <2>3 DEF SemaphoreStep
    <2>4. CASE EventStep
      BY <2>4 DEF EventStep
    <2>5. CASE QueueStep
      BY <2>5 DEF QueueStep
    <2>6. CASE FiberStep
      BY <2>6 DEF FiberStep
    <2>7. CASE UNCHANGED all
      BY <2>7 DEF all
    <2> QED
      BY <1>2, <2>1, <2>2, <2>3, <2>4, <2>5, <2>6, <2>7 DEF MCNext
  <1> QED
    BY <1>1, <1>2, PTL DEF MCSpec, Spec, B!Spec, S!Spec, E!Spec, Q!Spec, F!Spec

\* The instance of MCPrimitives and that of the proofs define the same.
LEMMA SameFibers ==
    /\ F!Init <=> FP!Init
    /\ [F!Next]_(F!vars) <=> [FP!Next]_(FP!vars)
  BY DEF
    F!Callers, FP!Callers, F!Uses, FP!Uses, F!kind, FP!kind, F!grants, FP!grants,
    F!waiters, FP!waiters, F!tasks, FP!tasks, F!calls, FP!calls, F!vars, FP!vars,
    F!Locations, FP!Locations, F!Statuses, FP!Statuses, F!Goes, FP!Goes, F!Run, FP!Run,
    F!Yield, FP!Yield, F!Complete, FP!Complete, F!Spawn, FP!Spawn, F!TestCounter,
    FP!TestCounter, F!Suspend, FP!Suspend, F!PublishSuspension, FP!PublishSuspension,
    F!Resume, FP!Resume, F!Cancel, FP!Cancel, F!QueueWaiter, FP!QueueWaiter,
    F!PopWaiter, FP!PopWaiter, F!RemoveWaiter, FP!RemoveWaiter, F!Blocks, FP!Blocks,
    F!EventWait, FP!EventWait, F!AutoResetWait, FP!AutoResetWait, F!SemaphoreWait,
    FP!SemaphoreWait, F!MutexLock, FP!MutexLock, F!Wait, FP!Wait, F!WaitReturns,
    FP!WaitReturns, F!WaitFails, FP!WaitFails, F!Returns, FP!Returns, F!Notify,
    FP!Notify, F!Done, FP!Done, F!EventNotifies, FP!EventNotifies, F!EventSignal,
    FP!EventSignal, F!AutoResetSignal, FP!AutoResetSignal, F!SemaphoreGives,
    FP!SemaphoreGives, F!SemaphoreSignal, FP!SemaphoreSignal, F!MutexUnlock,
    FP!MutexUnlock, F!Signal, FP!Signal, F!Reset, FP!Reset, F!Next, FP!Next, F!Init,
    FP!Init, F!Cardinality, FP!Cardinality, F!Last, FP!Last, F!RemoveFirst,
    FP!RemoveFirst, F!RemoveAt, FP!RemoveAt, F!SelectInSeq, FP!SelectInSeq, F!Min,
    FP!Min

LEMMA SameWaits ==
    /\ F!FiberSyncAssumption /\ F!SoundUsages <=> FP!FiberSyncAssumption /\ FP!SoundUsages
    /\ F!TypeOK <=> FP!TypeOK
    /\ F!WaitsSound <=> FP!WaitsSound
  BY DEF
    F!TypeOK, FP!TypeOK, F!WaitsSound, FP!WaitsSound, F!PermitsKept, FP!PermitsKept,
    F!HandedOver, FP!HandedOver, F!NobodyWaitsInVain, FP!NobodyWaitsInVain,
    F!NodesReached, FP!NodesReached, F!NobodySleepsOn, FP!NobodySleepsOn, F!Granted,
    FP!Granted, F!ToGive, FP!ToGive, F!Contains, FP!Contains, F!FiberSyncAssumption,
    FP!FiberSyncAssumption, F!SoundUsages, FP!SoundUsages, F!IsFiniteSet,
    FP!IsFiniteSet, F!kind, FP!kind, F!Uses, FP!Uses, F!Callers, FP!Callers,
    F!Locations, FP!Locations, F!Statuses, FP!Statuses, F!Cardinality, FP!Cardinality

LEMMA QueueRuns == Q!Spec => []Q!TypeOK /\ Q!ImplementsDeque
  BY QueueValues, QueueTypes, QueueImplementation

LEMMA FibersRun == F!Spec => [](F!TypeOK /\ F!WaitsSound)
  <1>1. FP!FiberSyncAssumption /\ FP!SoundUsages
    BY FiberValues, SameWaits
  <1>2. FP!Spec => []FP!TypeOK
    BY <1>1, FP!TypeCorrect
  <1>3. FP!Spec => []FP!WaitsSound
    BY <1>1, FP!WaitsAreSound
  <1>4. F!Spec => FP!Spec
    BY SameFibers, PTL DEF F!Spec, FP!Spec
  <1> QED
    BY <1>2, <1>3, <1>4, SameWaits, PTL

\* RWLock, Barrier, Semaphore, EventObject, CircularQueue and the fiber primitives: their
\* state stays in its types.
THEOREM TypesCorrect == MCSpec => []TypesOK
  <1>1. S!Spec => [](S!TypeOK /\ S!EnoughAwake)
    BY SemaphoreValues, WokenForResources
  <1>2. B!Spec => [](B!TypeOK /\ B!RoundsApart)
    BY BarrierValues, BarrierRounds
  <1>3. TypeOK /\ B!TypeOK /\ S!TypeOK /\ E!TypeOK /\ Q!TypeOK /\ F!TypeOK => TypesOK
    BY DEF TypesOK
  <1> QED
    BY <1>1, <1>2, <1>3, EachIsRun, LockTypes, KeptSignalHeard, QueueRuns, FibersRun, PTL

\* Semaphore, EventObject and the fiber primitives: whoever can go on has been woken, and
\* no permit, node or wake-up is lost on the way.
THEOREM WaitsAreSound == MCSpec => []WaitsSound
  <1>1. S!Spec => [](S!TypeOK /\ S!EnoughAwake)
    BY SemaphoreValues, WokenForResources
  <1>2. S!EnoughAwake /\ E!SignalHeard /\ F!WaitsSound => WaitsSound
    BY DEF WaitsSound
  <1> QED
    BY <1>1, <1>2, EachIsRun, KeptSignalHeard, FibersRun, PTL

\* Barrier and CircularQueue keep the promises of a reusable barrier and of a bounded deque.
THEOREM PromisesAreKept == MCSpec => PromisesKept
  <1>1. B!Spec => B!ImplementsPromise
    BY BarrierValues, BarrierImplementation
  <1> QED
    BY <1>1, EachIsRun, QueueRuns, PTL DEF PromisesKept
=============================================================================
