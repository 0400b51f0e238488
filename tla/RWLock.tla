------------------------------- MODULE RWLock -------------------------------
(***************************************************************************)
(* SC::RWLock (Libraries/Threading/Threading.cpp): a readers-writer lock   *)
(* built from one mutex and two condition variables.                       *)
(*                                                                         *)
(* Every method body runs under `mutex`, so one step of this module is one *)
(* critical section: from acquiring the mutex to releasing it, either in   *)
(* unlock() or inside ConditionVariable::wait.  A woken thread has to take *)
(* the mutex again before it re-evaluates its loop condition: other        *)
(* threads may run first, and it may have been woken for no reason.        *)
(***************************************************************************)
EXTENDS Naturals, ThreadSet, ConditionVariables

VARIABLES
    activeReaders,   \* threads holding the lock for reading
    waitingWriters,  \* threads inside lockWrite that do not hold the lock yet
    writerActive,    \* TRUE while a thread holds the lock for writing
    readersQ,        \* threads asleep in readersQ.wait
    writersQ,        \* threads asleep in writersQ.wait
    pc               \* where each thread is

vars == <<activeReaders, waitingWriters, writerActive, readersQ, writersQ, pc>>

Locations == {"out", "readBlocked", "reading", "writeBlocked", "writing"}

TypeOK ==
    /\ activeReaders \in Nat
    /\ waitingWriters \in Nat
    /\ writerActive \in BOOLEAN
    /\ readersQ \in SUBSET Threads
    /\ writersQ \in SUBSET Threads
    /\ pc \in [Threads -> Locations]

Init ==
    /\ activeReaders = 0
    /\ waitingWriters = 0
    /\ writerActive = FALSE
    /\ readersQ = {}
    /\ writersQ = {}
    /\ pc = [t \in Threads |-> "out"]

-----------------------------------------------------------------------------

\* Slips these methods could have made, tried by the mutation runs.
ReaderIgnoresWaitingWriters == writerActive
WriterIgnoresWriter == activeReaders > 0

\* The loop conditions of lockRead and lockWrite.
ReaderMustWait == writerActive \/ waitingWriters > 0
WriterMustWait == writerActive \/ activeReaders > 0

\* `while (...) readersQ.wait(mutex); activeReaders++`, from a loop test on.
ReadLoop(t) ==
    \/ /\ ReaderMustWait
       /\ readersQ' = readersQ \cup {t}
       /\ pc' = [pc EXCEPT ![t] = "readBlocked"]
       /\ UNCHANGED activeReaders
    \/ /\ ~ReaderMustWait
       /\ activeReaders' = activeReaders + 1
       /\ pc' = [pc EXCEPT ![t] = "reading"]
       /\ UNCHANGED readersQ

LockRead(t) ==
    /\ pc[t] = "out"
    /\ ReadLoop(t)
    /\ UNCHANGED <<waitingWriters, writerActive, writersQ>>

\* A reader that was woken tests its loop condition again.
RetryRead(t) ==
    /\ pc[t] = "readBlocked" /\ t \notin readersQ
    /\ ReadLoop(t)
    /\ UNCHANGED <<waitingWriters, writerActive, writersQ>>

LastReaderTellsNobody(t) ==
    /\ pc[t] = "reading"
    /\ activeReaders' = activeReaders - 1
    /\ pc' = [pc EXCEPT ![t] = "out"]
    /\ UNCHANGED <<waitingWriters, writerActive, readersQ, writersQ>>

UnlockRead(t) ==
    /\ pc[t] = "reading"
    /\ activeReaders' = activeReaders - 1
    /\ pc' = [pc EXCEPT ![t] = "out"]
    /\ writersQ' \in IF activeReaders' = 0 /\ waitingWriters > 0
                     THEN Signal(writersQ) ELSE {writersQ}
    /\ UNCHANGED <<waitingWriters, writerActive, readersQ>>

\* `while (...) writersQ.wait(mutex); waitingWriters--; writerActive = true`,
\* from a loop test on, with `waiting` writers announced.
WriteLoop(t, waiting) ==
    \/ /\ WriterMustWait
       /\ waitingWriters' = waiting
       /\ writersQ' = writersQ \cup {t}
       /\ pc' = [pc EXCEPT ![t] = "writeBlocked"]
       /\ UNCHANGED writerActive
    \/ /\ ~WriterMustWait
       /\ waitingWriters' = waiting - 1
       /\ writerActive' = TRUE
       /\ pc' = [pc EXCEPT ![t] = "writing"]
       /\ UNCHANGED writersQ

LockWrite(t) ==
    /\ pc[t] = "out"
    /\ WriteLoop(t, waitingWriters + 1)
    /\ UNCHANGED <<activeReaders, readersQ>>

CountedAgain(t) ==
    /\ pc[t] = "writeBlocked" /\ t \notin writersQ
    /\ WriteLoop(t, waitingWriters + 1)
    /\ UNCHANGED <<activeReaders, readersQ>>

RetryWrite(t) ==
    /\ pc[t] = "writeBlocked" /\ t \notin writersQ
    /\ WriteLoop(t, waitingWriters)
    /\ UNCHANGED <<activeReaders, readersQ>>

UnlockWriteWakesOneReader(t) ==
    /\ pc[t] = "writing"
    /\ writerActive' = FALSE
    /\ pc' = [pc EXCEPT ![t] = "out"]
    /\ IF waitingWriters > 0
          THEN writersQ' \in Signal(writersQ) /\ UNCHANGED readersQ
          ELSE readersQ' \in Signal(readersQ) /\ UNCHANGED writersQ
    /\ UNCHANGED <<activeReaders, waitingWriters>>

UnlockWrite(t) ==
    /\ pc[t] = "writing"
    /\ writerActive' = FALSE
    /\ pc' = [pc EXCEPT ![t] = "out"]
    /\ \/ /\ waitingWriters > 0
          /\ writersQ' \in Signal(writersQ)
          /\ UNCHANGED readersQ
       \/ /\ waitingWriters = 0
          /\ readersQ' = Broadcast(readersQ)
          /\ UNCHANGED writersQ
    /\ UNCHANGED <<activeReaders, waitingWriters>>

\* pthread_cond_wait may return although nobody signalled.
SpuriousWakeup(t) ==
    /\ t \in readersQ \cup writersQ
    /\ readersQ' = readersQ \ {t}
    /\ writersQ' = writersQ \ {t}
    /\ UNCHANGED <<activeReaders, waitingWriters, writerActive, pc>>

Acquire(t) == LockRead(t) \/ LockWrite(t)
Proceed(t) == RetryRead(t) \/ UnlockRead(t) \/ RetryWrite(t) \/ UnlockWrite(t)

Next == \E t \in Threads : Acquire(t) \/ Proceed(t) \/ SpuriousWakeup(t)

Spec == Init /\ [][Next]_vars

\* The scheduler runs every runnable thread and a holder releases the lock;
\* nobody has to ask for it, and no wakeup comes for free.
Fairness == \A t \in Threads : WF_vars(Proceed(t))

FairSpec == Spec /\ Fairness

-----------------------------------------------------------------------------

Readers == {t \in Threads : pc[t] = "reading"}
Writers == {t \in Threads : pc[t] = "writing"}
BlockedReaders == {t \in Threads : pc[t] = "readBlocked"}
BlockedWriters == {t \in Threads : pc[t] = "writeBlocked"}

\* RWLock: a writer holds the lock alone, while readers may share it.
MutualExclusion ==
    \A w \in Writers : Writers = {w} /\ Readers = {}

\* RWLock: the counters of the lock count the threads they are named for.
CountersExact ==
    /\ activeReaders = Cardinality(Readers)
    /\ waitingWriters = Cardinality(BlockedWriters)
    /\ writerActive <=> Writers # {}

\* RWLock: a free lock is never left with every interested thread asleep: a
\* writer on its way has been woken, and a reader sleeps only behind a writer.
NoLostWakeup ==
    /\ readersQ # {} => ReaderMustWait
    /\ writersQ # {} /\ ~WriterMustWait => BlockedWriters \ writersQ # {}

Promise == INSTANCE ReadersWriters
    WITH readers <- Readers, writers <- Writers, announced <- BlockedWriters

\* RWLock: the lock implements the readers-writers promise: sharing, exclusion
\* and no new reader while a writer waits, whatever the wakeups do.
ImplementsPromise == Promise!Spec

\* RWLock: a stream of readers cannot keep the waiting writers out.
WritersNotStarved == waitingWriters > 0 ~> writerActive

\* RWLock: once writers stop coming, every blocked reader gets the lock.
ReadersNotForgotten ==
    <>[](waitingWriters = 0 /\ ~writerActive)
        => \A t \in Threads : t \in BlockedReaders ~> t \in Readers
=============================================================================
