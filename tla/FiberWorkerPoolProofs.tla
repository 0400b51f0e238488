------------------------ MODULE FiberWorkerPoolProofs ------------------------
(***************************************************************************)
(* FiberWorkerPool for any finite set of workers, any threads outside and  *)
(* any fibers: pending signals never outnumber the parked workers, and     *)
(* where spawn holds the scheduler lock no ready fiber is left to workers  *)
(* that sleep.                                                             *)
(***************************************************************************)
EXTENDS FiberWorkerPool, FiniteSetTheorems, SequenceTheorems, TLAPS

Locations ==
    {"idle", "reserving", "counted", "loop", "pops", "runs", "suspends", "cancels",
     "observes", "decides", "asksPublishing", "rechecks", "mayExit", "mayExitToo", "waits",
     "tested", "announced", "asleep", "retests", "exited"} \cup Notifying

Inside == {"tested", "announced", "asleep", "retests"}   \* the loop of wait(), with or without the mutex
Parking == Inside \cup {"waits"}
NotifyingOne == {"notifyOne", "lookOne", "signalOne"}
NotifyingAll == {"notifyAll", "lookAll", "signalAll"}

\* What the types say of the variables that the other invariants speak of.
Typed ==
    /\ injectionQueue \in BOOLEAN
    /\ pc \in [Threads -> Locations]
    /\ status \in [Fibers -> {"invalid", "reserved", "counted", "ready", "running",
                              "suspending", "waiting", "completed"}]
    /\ fiber \in [Threads -> Fibers \cup {Null}]
    /\ current \subseteq Workers
    /\ toCancel \subseteq Fibers

\* A signal is for a worker that waited and did not leave wait() since.
Parked == {w \in Workers : pc[w] \in {"announced", "asleep"}}
SignalsCounted ==
    /\ pendingSignals \in Nat
    /\ parked = Cardinality(Parked)
    /\ conditionWaited \subseteq {w \in Workers : pc[w] \in Inside}
    /\ {w \in Workers : pc[w] = "asleep"} \subseteq conditionWaited
    /\ condition \subseteq {w \in Workers : pc[w] = "asleep"}
    /\ pendingSignals <= Cardinality(conditionWaited)

-----------------------------------------------------------------------------
(* Signals                                                                 *)

LEMMA Quiet ==
    ASSUME Typed, SignalsCounted, NEW t \in Threads, NEW to \in Locations \ Inside,
           pc[t] \notin Inside, pc' = [pc EXCEPT ![t] = to],
           UNCHANGED <<parked, pendingSignals, condition, conditionWaited>>
    PROVE  SignalsCounted'
  <1>1. /\ \A u \in Threads : u # t => pc'[u] = pc[u]
        /\ pc'[t] = to
    BY DEF Typed
  <1>2. Parked' = Parked
    BY <1>1 DEF Parked, Inside, Threads
  <1>3. \A w \in Workers : pc'[w] \in Inside <=> pc[w] \in Inside
    BY <1>1 DEF Threads
  <1>4. \A w \in Workers : pc'[w] = "asleep" <=> pc[w] = "asleep"
    BY <1>1 DEF Threads, Inside
  <1> QED
    BY <1>2, <1>3, <1>4 DEF SignalsCounted

LEMMA Sizes ==
    ASSUME SignalsCounted
    PROVE  /\ IsFiniteSet(conditionWaited) /\ Cardinality(conditionWaited) \in Nat
           /\ IsFiniteSet(Parked) /\ parked \in Nat
           /\ MutexFree => parked = Cardinality(conditionWaited)
           /\ parked = 0 => condition = {}
  <1>1. conditionWaited \subseteq Workers /\ Parked \subseteq Workers
    BY DEF SignalsCounted, Parked
  <1>2. IsFiniteSet(conditionWaited) /\ IsFiniteSet(Parked)
    BY <1>1, FS_Subset, FiberWorkerPoolAssumption
  <1>3. Cardinality(conditionWaited) \in Nat /\ Cardinality(Parked) \in Nat
    BY <1>2, FS_CardinalityType
  <1>4. MutexFree => Parked = conditionWaited
    BY DEF MutexFree, Parked, SignalsCounted, Inside
  <1>5. Cardinality(Parked) = 0 => condition = {}
    <2>1. Cardinality(Parked) = 0 => Parked = {}
      BY <1>2, FS_EmptySet
    <2> QED BY <2>1 DEF Parked, SignalsCounted
  <1> QED
    BY <1>2, <1>3, <1>4, <1>5 DEF SignalsCounted

LEMMA TypedStep == Typed /\ [Next]_vars => Typed'
  <1> SUFFICES ASSUME Typed, [Next]_vars PROVE Typed'
    OBVIOUS
  <1> USE DEF Typed, Threads, Locations, Notifying, Goes, Home, fibers, event, stopping
  <1>1. CASE UNCHANGED vars
    BY <1>1 DEF vars
  <1>2. ASSUME NEW t \in Threads, Notify(t) PROVE Typed'
    <2>1. CASE Bump(t)
      BY <2>1 DEF Bump
    <2>2. CASE Look(t) \/ SignalOne(t) \/ SignalAll(t)
      BY <2>2 DEF Look, SignalOne, SignalAll, Notified
    <2> QED BY <1>2, <2>1, <2>2 DEF Notify
  <1>3. ASSUME NEW w \in Workers, Work(w) PROVE Typed'
    <2>1. CASE WaitTest(w) \/ WaitAnnounce(w) \/ WaitSleep(w) \/ WaitWake(w)
      BY <2>1 DEF WaitTest, WaitAnnounce, WaitSleep, WaitWake
    <2>2. CASE CancelAll(w) \/ ReadsReady(w) \/ Observe(w) \/ Decide(w)
      BY <2>2 DEF CancelAll, ReadsReady, Observe, Decide, Active
    <2>3. CASE CancelNext(w)
      BY <2>3 DEF CancelNext
    <2>4. CASE Pop(w)
      <3>1. \/ pc' = [pc EXCEPT ![w] = "loop"] /\ UNCHANGED <<status, fiber>>
            \/ \E f \in Fibers : /\ pc' = [pc EXCEPT ![w] = "runs"]
                               /\ status' = [status EXCEPT ![f] = "running"]
                               /\ fiber' = [fiber EXCEPT ![w] = f]
        BY <2>4 DEF Pop, Ready
      <3> QED BY <2>4, <3>1 DEF Pop
    <2>5. CASE PublishSuspension(w)
      BY <2>5 DEF PublishSuspension
    <2> QED BY <1>3, <2>1, <2>2, <2>3, <2>4, <2>5 DEF Work
  <1>4. ASSUME NEW w \in Workers, Complete(w) \/ Yield(w) \/ Wait(w) PROVE Typed'
    BY <1>4 DEF Complete, Yield, Wait
  <1>5. ASSUME NEW p \in Publishers, Call(p) PROVE Typed'
    <2>1. ASSUME NEW f \in Fibers, SpawnReserve(p, f) \/ SpawnLocked(p, f) \/ Done(p, f)
          PROVE  Typed'
      BY <2>1 DEF SpawnReserve, SpawnLocked, Done
    <2>2. CASE RequestStop(p)
      BY <2>2 DEF RequestStop
    <2> QED BY <1>5, <2>1, <2>2 DEF Call
  <1>6. ASSUME NEW p \in Publishers, GoOn(p) PROVE Typed'
    BY <1>6 DEF GoOn, SpawnCount, SpawnFails, Publish
  <1>7. CASE SpuriousWakeup
    BY <1>7 DEF SpuriousWakeup
  <1> QED
    BY <1>1, <1>2, <1>3, <1>4, <1>5, <1>6, <1>7 DEF Next

LEMMA SignalsStep == Typed /\ SignalsCounted /\ [Next]_vars => SignalsCounted'
  <1> SUFFICES ASSUME Typed, SignalsCounted, [Next]_vars PROVE SignalsCounted'
    OBVIOUS
  <1> DEFINE Same == UNCHANGED <<parked, pendingSignals, condition, conditionWaited>>
             Elsewhere(t) == \E to \in Locations \ Inside :
                                pc[t] \notin Inside /\ pc' = [pc EXCEPT ![t] = to]
  <1>0. ASSUME Same, pc' = pc \/ \E t \in Threads : Elsewhere(t)
        PROVE  SignalsCounted'
    <2>1. CASE pc' = pc
      BY <1>0, <2>1 DEF SignalsCounted, Parked
    <2>2. CASE \E t \in Threads : Elsewhere(t)
      BY <1>0, <2>2, Quiet
    <2> QED BY <1>0, <2>1, <2>2
  <1> HIDE DEF Same, Elsewhere
  <1>1. CASE UNCHANGED vars
    BY <1>1, <1>0 DEF vars, Same, event
  <1>2. ASSUME NEW t \in Threads, Notify(t) PROVE SignalsCounted'
    <2>1. pc[t] \notin Inside /\ (Bump(t) \/ Look(t) => Elsewhere(t))
      BY <1>2 DEF Notify, Bump, Look, Goes, Notified, SignalOne, SignalAll, Home, Elsewhere, Inside,
         Locations, Notifying
    <2>2. CASE Bump(t) \/ Look(t)
      BY <2>1, <2>2, <1>0 DEF Bump, Look, Same, event
    <2>3. CASE SignalOne(t) \/ SignalAll(t)
      <3>1. PICK to \in Locations \ Inside : pc' = [pc EXCEPT ![t] = to]
        BY <2>3 DEF SignalOne, SignalAll, Notified, Home, Inside, Locations
      <3>2. /\ \A u \in Threads : u # t => pc'[u] = pc[u]
            /\ pc'[t] = to
        BY <3>1 DEF Typed
      <3>3. Parked' = Parked
        BY <3>2, <2>1 DEF Parked, Inside, Threads
      <3>4. \A w \in Workers : (pc'[w] \in Inside <=> pc[w] \in Inside)
                               /\ (pc'[w] = "asleep" <=> pc[w] = "asleep")
        BY <3>2, <2>1 DEF Threads, Inside
      <3>5. condition' \subseteq condition /\ UNCHANGED <<parked, conditionWaited>>
        BY <2>3 DEF SignalOne, SignalAll, Signal, Broadcast
      <3>6. pendingSignals' \in Nat /\ pendingSignals' <= Cardinality(conditionWaited)
        BY <2>3, Sizes DEF SignalOne, SignalAll, SignalsCounted
      <3> QED
        BY <3>3, <3>4, <3>5, <3>6 DEF SignalsCounted
    <2> QED BY <1>2, <2>2, <2>3 DEF Notify
  <1>3. ASSUME NEW w \in Workers, Work(w) PROVE SignalsCounted'
    <2>0. w \in Threads
      BY DEF Threads
    <2>1. CASE WaitTest(w)
      <3>1. (pc[w] = "waits" => w \notin conditionWaited) /\ pc[w] # "asleep" /\ pc[w] # "announced"
        BY <2>1 DEF WaitTest, SignalsCounted, Inside
      <3>2. PICK to \in {"tested", "loop"} :
                /\ pc' = [pc EXCEPT ![w] = to] /\ (to = "loop" <=> w \notin current)
        BY <2>1 DEF WaitTest
      <3>3. /\ \A u \in Threads : u # w => pc'[u] = pc[u]
            /\ pc'[w] = to
        BY <2>0, <3>2 DEF Typed
      <3>4. Parked' = Parked /\ parked' = parked /\ condition' = condition
        BY <2>1, <3>1, <3>3 DEF Parked, Threads, WaitTest
      <3>5. \A v \in Workers : pc'[v] = "asleep" <=> pc[v] = "asleep"
        BY <3>1, <3>3 DEF Threads
      <3>6. CASE to = "tested"
        <4>1. UNCHANGED <<pendingSignals, conditionWaited>>
          BY <2>1, <3>2, <3>6 DEF WaitTest
        <4>2. \A v \in Workers : pc[v] \in Inside => pc'[v] \in Inside
          BY <3>3, <3>6 DEF Threads, Inside
        <4> QED
          BY <3>4, <3>5, <4>1, <4>2 DEF SignalsCounted
      <3>7. CASE to = "loop"
        <4>1. pendingSignals' = SignalsLeft(w) /\ conditionWaited' = conditionWaited \ {w}
          BY <2>1, <3>2, <3>7 DEF WaitTest
        <4>2. \A v \in Workers : v # w => pc'[v] = pc[v]
          BY <3>3 DEF Threads
        <4>3. conditionWaited' \subseteq {v \in Workers : pc'[v] \in Inside}
          BY <4>1, <4>2 DEF SignalsCounted
        <4>4. {v \in Workers : pc'[v] = "asleep"} \subseteq conditionWaited'
          BY <4>1, <3>5, <3>1 DEF SignalsCounted
        <4>5. w \in conditionWaited =>
                 Cardinality(conditionWaited') = Cardinality(conditionWaited) - 1
          BY <4>1, Sizes, FS_RemoveElement
        <4>6. w \notin conditionWaited => conditionWaited' = conditionWaited
          BY <4>1
        <4>7. Cardinality(conditionWaited) \in Nat /\ Cardinality(conditionWaited') \in Nat
          BY <4>1, Sizes, FS_CardinalityType, FS_Subset
        <4>8. pendingSignals' \in Nat /\ pendingSignals' <= Cardinality(conditionWaited')
          BY <4>1, <4>5, <4>6, <4>7 DEF SignalsLeft, SignalsCounted
        <4> QED
          BY <3>4, <3>5, <4>3, <4>4, <4>8 DEF SignalsCounted
      <3> QED BY <3>2, <3>6, <3>7
    <2>2. CASE WaitAnnounce(w)
      <3>1. pc[w] = "tested" /\ pc' = [pc EXCEPT ![w] = "announced"] /\ parked' = parked + 1
            /\ UNCHANGED <<pendingSignals, condition, conditionWaited>>
        BY <2>2 DEF WaitAnnounce, Goes
      <3>2. /\ \A u \in Workers : u # w => pc'[u] = pc[u]
            /\ pc'[w] = "announced"
        BY <2>0, <3>1 DEF Typed, Threads
      <3>3. Parked' = Parked \cup {w} /\ w \notin Parked
        BY <3>1, <3>2 DEF Parked
      <3>4. parked' = Cardinality(Parked')
        BY <3>1, <3>3, Sizes, FS_AddElement DEF SignalsCounted
      <3> QED
        BY <3>1, <3>2, <3>4 DEF SignalsCounted, Inside
    <2>3. CASE WaitSleep(w) /\ w \in current
      <3>1. /\ pc[w] = "announced" /\ pc' = [pc EXCEPT ![w] = "asleep"]
            /\ condition' = condition \cup {w} /\ conditionWaited' = conditionWaited \cup {w}
            /\ UNCHANGED <<pendingSignals, parked>>
        BY <2>3 DEF WaitSleep, Goes
      <3>2. /\ \A u \in Workers : u # w => pc'[u] = pc[u]
            /\ pc'[w] = "asleep"
        BY <2>0, <3>1 DEF Typed, Threads
      <3>3. Parked' = Parked
        BY <3>1, <3>2 DEF Parked
      <3>4. Cardinality(conditionWaited) <= Cardinality(conditionWaited')
            /\ Cardinality(conditionWaited') \in Nat
        <4>1. w \in conditionWaited => conditionWaited' = conditionWaited
          BY <3>1
        <4>2. w \notin conditionWaited =>
                 Cardinality(conditionWaited') = Cardinality(conditionWaited) + 1
          BY <3>1, Sizes, FS_AddElement
        <4> QED BY <4>1, <4>2, Sizes
      <3> QED
        BY <3>1, <3>2, <3>3, <3>4, Sizes DEF SignalsCounted, Inside
    <2>4. CASE (WaitSleep(w) /\ w \notin current) \/ WaitWake(w)
      <3>1. /\ pc[w] \in {"announced", "asleep"} /\ pc' = [pc EXCEPT ![w] = "retests"]
            /\ w \notin condition
            /\ parked' = parked - 1
            /\ UNCHANGED <<pendingSignals, condition, conditionWaited>>
        BY <2>4 DEF WaitSleep, WaitWake, Goes, SignalsCounted
      <3>2. /\ \A u \in Workers : u # w => pc'[u] = pc[u]
            /\ pc'[w] = "retests"
        BY <2>0, <3>1 DEF Typed, Threads
      <3>3. Parked' = Parked \ {w} /\ w \in Parked
        BY <3>1, <3>2 DEF Parked
      <3>4. parked' = Cardinality(Parked')
        BY <3>1, <3>3, Sizes, FS_RemoveElement DEF SignalsCounted
      <3> QED
        BY <3>1, <3>2, <3>4 DEF SignalsCounted, Inside
    <2>5. CASE CancelAll(w) \/ CancelNext(w) \/ ReadsReady(w) \/ Pop(w)
      <3>1. Same
        BY <2>5 DEF Same, CancelAll, CancelNext, ReadsReady, Pop, event
      <3>2. pc' = pc \/ Elsewhere(w)
        BY <2>5 DEF Elsewhere, CancelAll, CancelNext, ReadsReady, Pop, Goes, Inside, Locations, Notifying
      <3> QED BY <2>0, <3>1, <3>2, <1>0
    <2>6. CASE PublishSuspension(w) \/ Observe(w) \/ Decide(w)
      <3>1. Same
        BY <2>6 DEF Same, PublishSuspension, Observe, Decide, event
      <3>2. Elsewhere(w)
        BY <2>6 DEF Elsewhere, PublishSuspension, Observe, Decide, Goes, Inside, Locations, Notifying
      <3> QED BY <2>0, <3>1, <3>2, <1>0
    <2> QED BY <1>3, <2>1, <2>2, <2>3, <2>4, <2>5, <2>6 DEF Work
  <1>4. ASSUME NEW w \in Workers, Complete(w) \/ Yield(w) \/ Wait(w) PROVE SignalsCounted'
    <2>1. Same /\ Elsewhere(w)
      BY <1>4 DEF Same, Elsewhere, Complete, Yield, Wait, Goes, Inside, Locations, Notifying, event
    <2> QED BY <2>1, <1>0 DEF Threads
  <1>5. ASSUME NEW p \in Publishers, Call(p) \/ GoOn(p) PROVE SignalsCounted'
    <2>1. Same
      BY <1>5 DEF Same, Call, GoOn, SpawnReserve, SpawnLocked, Done, RequestStop, SpawnCount,
         SpawnFails, Publish, event
    <2>2. pc' = pc \/ Elsewhere(p)
      BY <1>5 DEF Elsewhere, Call, GoOn, SpawnReserve, SpawnLocked, Done, RequestStop, SpawnCount,
         SpawnFails, Publish, Goes, Inside, Locations, Notifying
    <2> QED BY <2>1, <2>2, <1>0 DEF Threads
  <1>6. CASE SpuriousWakeup
    BY <1>6 DEF SpuriousWakeup, SignalsCounted, Parked
  <1> QED
    BY <1>1, <1>2, <1>3, <1>4, <1>5, <1>6 DEF Next

-----------------------------------------------------------------------------
(* The scheduler lock, without an injection queue                          *)

\* Every fiber in hand is in one hand, and is not ready.
FibersHeld ==
    /\ \A t \in Threads : pc[t] \in {"counted", "runs", "suspends"} =>
          fiber[t] \in Fibers /\ status[fiber[t]] \in {"counted", "running", "suspending"}
    /\ \A t, u \in Threads :
          /\ pc[t] \in {"counted", "runs", "suspends"} /\ pc[u] \in {"counted", "runs", "suspends"}
          /\ fiber[t] = fiber[u]
          => t = u

\* Who publishes, and who tells one worker of it, has the scheduler locked.
LockHeld ==
    \A t \in Threads :
        /\ pc[t] # "reserving"
        /\ pc[t] \in NotifyingOne \cup {"counted", "cancels"} => schedulerLock = t

Discipline == ~injectionQueue /\ FibersHeld /\ LockHeld

LEMMA DisciplineStep == Typed /\ Discipline /\ [Next]_vars => Discipline'
  <1> SUFFICES ASSUME Typed, Discipline, [Next]_vars PROVE Discipline'
    OBVIOUS
  <1> USE DEF Typed, Discipline, FibersHeld, LockHeld, Threads, NotifyingOne, Goes, fibers, event,
          stopping
  <1>a. \A t \in Threads : t # Null
    BY FiberWorkerPoolAssumption
  <1>1. CASE UNCHANGED vars
    BY <1>1 DEF vars
  <1>2. ASSUME NEW t \in Threads, Notify(t) PROVE Discipline'
    <2>1. CASE Bump(t)
      BY <2>1 DEF Bump
    <2>2. CASE Look(t) \/ SignalOne(t) \/ SignalAll(t)
      <3>1. UNCHANGED <<injectionQueue, status, fiber>>
        BY <2>2 DEF Look, SignalOne, SignalAll
      <3>2. CASE Notified(t)
        <4>1. \A u \in Threads : u # t => pc'[u] = pc[u]
          BY <3>2 DEF Notified
        <4>2. pc'[t] \in {"cancels", "loop", "idle"}
          BY <3>2 DEF Notified, Home
        <4>3. pc'[t] = "cancels" => schedulerLock' = t
          BY <3>2 DEF Notified, Home
        <4>4. schedulerLock' = schedulerLock \/ schedulerLock = t
          BY <3>2 DEF Notified
        <4> QED
          BY <3>1, <4>1, <4>2, <4>3, <4>4
      <3>3. CASE Goes(t, "lookOne", "signalOne") /\ UNCHANGED schedulerLock
        BY <3>1, <3>3
      <3>4. CASE Goes(t, "lookAll", "signalAll") /\ UNCHANGED schedulerLock
        BY <3>1, <3>4
      <3> QED BY <2>2, <3>2, <3>3, <3>4 DEF Look, SignalOne, SignalAll
    <2> QED BY <1>2, <2>1, <2>2 DEF Notify
  <1>3. ASSUME NEW w \in Workers, Work(w) PROVE Discipline'
    <2>1. CASE WaitTest(w) \/ WaitAnnounce(w) \/ WaitSleep(w) \/ WaitWake(w)
      BY <2>1 DEF WaitTest, WaitAnnounce, WaitSleep, WaitWake
    <2>2. CASE CancelAll(w) \/ ReadsReady(w) \/ Observe(w)
      BY <1>a, <2>2 DEF CancelAll, ReadsReady, Observe
    <2>3. CASE Decide(w)
      BY <2>3 DEF Decide
    <2>4. CASE CancelNext(w)
      BY <1>a, <2>4 DEF CancelNext
    <2>5. CASE Pop(w)
      <3>1. UNCHANGED <<injectionQueue, schedulerLock>> /\ pc[w] = "pops"
            /\ \/ pc' = [pc EXCEPT ![w] = "loop"] /\ UNCHANGED <<status, fiber>>
               \/ \E f \in Fibers : /\ status[f] = "ready"
                                  /\ pc' = [pc EXCEPT ![w] = "runs"]
                                  /\ status' = [status EXCEPT ![f] = "running"]
                                  /\ fiber' = [fiber EXCEPT ![w] = f]
        BY <2>5 DEF Pop, Ready
      <3> QED BY <3>1
    <2>6. CASE PublishSuspension(w)
      BY <1>a, <2>6 DEF PublishSuspension
    <2> QED BY <1>3, <2>1, <2>2, <2>3, <2>4, <2>5, <2>6 DEF Work
  <1>4. ASSUME NEW w \in Workers, Complete(w) \/ Yield(w) \/ Wait(w) PROVE Discipline'
    <2>1. CASE Complete(w)
      BY <2>1 DEF Complete
    <2>2. CASE Yield(w)
      BY <1>a, <2>2 DEF Yield
    <2>3. CASE Wait(w)
      BY <1>a, <2>3 DEF Wait
    <2> QED BY <1>4, <2>1, <2>2, <2>3
  <1>5. ASSUME NEW p \in Publishers, Call(p) \/ GoOn(p) PROVE Discipline'
    <2>1. ASSUME NEW f \in Fibers, SpawnLocked(p, f) PROVE Discipline'
      BY <1>a, <2>1 DEF SpawnLocked
    <2>2. ASSUME NEW f \in Fibers, Done(p, f) PROVE Discipline'
      BY <1>a, <2>2 DEF Done
    <2>3. CASE RequestStop(p)
      BY <2>3 DEF RequestStop
    <2>4. CASE Publish(p)
      BY <2>4 DEF Publish
    <2> QED
      BY <1>5, <2>1, <2>2, <2>3, <2>4 DEF Call, GoOn, SpawnReserve, SpawnCount, SpawnFails
  <1>6. CASE SpuriousWakeup
    BY <1>6 DEF SpuriousWakeup
  <1> QED
    BY <1>1, <1>2, <1>3, <1>4, <1>5, <1>6 DEF Next

-----------------------------------------------------------------------------
(* What a worker that is about to sleep has missed is still to be told.    *)

\* Who tells one worker does so while a fiber is ready.
ReadyAnnounced == \A t \in Threads : pc[t] \in NotifyingOne => Ready # {}

\* A worker sleeps beside a ready fiber only before the generation is counted up.
ReadyUnseen == \A w \in current :
    pc[w] \in Parking /\ Ready # {} => \E t \in Threads : pc[t] = "notifyOne"

\* A worker sleeps with no fiber active only before the generation is counted up.
EndUnseen == \A w \in current :
    pc[w] \in Parking \cup {"rechecks"} /\ Active = {} => \E v \in Workers : pc[v] = "notifyAll"

\* Nobody sleeps beside a stop request once the generation is counted up.
StopUnseen == \A p \in Publishers :
    /\ pc[p] \in NotifyingAll => stopRequested
    /\ pc[p] \in {"lookAll", "signalAll"} =>
          \A w \in current : pc[w] \notin Parking \cup {"rechecks", "asksPublishing"}

Unseen == ReadyAnnounced /\ ReadyUnseen /\ EndUnseen /\ StopUnseen

\* Which worker a step lets go to sleep.
LEMMA Descent ==
    ASSUME Typed, Discipline, [Next]_vars, NEW w \in Workers
    PROVE  /\ pc'[w] \in Parking =>
                 \/ pc[w] \in Parking
                 \/ pc[w] = "rechecks" /\ Ready = {} /\ UNCHANGED <<status, current>>
           /\ pc'[w] = "rechecks" =>
                 \/ pc[w] = "rechecks"
                 \/ pc[w] = "decides" /\ ~stopRequested /\ Active # {} /\ UNCHANGED <<status, current>>
           /\ pc'[w] = "asksPublishing" =>
                 \/ pc[w] = "asksPublishing"
                 \/ pc[w] = "decides" /\ ~stopRequested /\ UNCHANGED current
  <1> USE DEF Typed, Threads, Goes, Parking, Inside
  <1> DEFINE Awake(t) == \A u \in Threads : \/ pc'[u] = pc[u]
                                             \/ /\ u = t
                                                /\ pc'[u] \notin Parking \cup {"rechecks", "asksPublishing"}
  <1>0. ASSUME NEW t, Awake(t) PROVE
          pc'[w] = pc[w] \/ pc'[w] \notin Parking \cup {"rechecks", "asksPublishing"}
    BY <1>0
  <1> HIDE DEF Awake
  <1>1. CASE UNCHANGED vars
    BY <1>1 DEF vars
  <1>2. ASSUME NEW t \in Threads, Notify(t) PROVE Awake(t)
    BY <1>2 DEF Awake, Notify, Bump, Look, SignalOne, SignalAll, Notified, Home
  <1>3. ASSUME NEW v \in Workers,
               WaitTest(v) \/ WaitAnnounce(v) \/ WaitSleep(v) \/ WaitWake(v)
        PROVE  \A u \in Threads : 
                   \/ pc'[u] = pc[u]
                   \/ u = v /\ pc[u] \in Parking /\ pc'[u] \in Parking \cup {"loop"}
    BY <1>3 DEF WaitTest, WaitAnnounce, WaitSleep, WaitWake
  <1>4. ASSUME NEW v \in Workers, Decide(v)
        PROVE  /\ UNCHANGED <<status, current>>
               /\ \A u \in Threads : pc'[u] = pc[u] \/ u = v
               /\ \/ pc[v] = "decides" /\ ~stopRequested /\ Active # {} /\ pc'[v] = "rechecks"
                  \/ pc[v] = "decides" /\ ~stopRequested /\ pc'[v] = "asksPublishing"
                  \/ pc[v] = "rechecks" /\ Ready = {} /\ pc'[v] = "waits"
                  \/ pc'[v] \notin Parking \cup {"rechecks", "asksPublishing"}
    BY <1>4 DEF Decide, fibers, event, Publishing, Discipline
  <1>5. ASSUME NEW v \in Workers,
               \/ CancelAll(v) \/ CancelNext(v) \/ ReadsReady(v) \/ Pop(v) \/ PublishSuspension(v)
               \/ Observe(v) \/ Complete(v) \/ Yield(v) \/ Wait(v)
        PROVE  Awake(v)
    BY <1>5 DEF Awake, CancelAll, CancelNext, ReadsReady, Pop, PublishSuspension, Observe, Complete,
       Yield, Wait
  <1>6. ASSUME NEW p \in Publishers, Call(p) \/ GoOn(p) PROVE Awake(p)
    BY <1>6 DEF Awake, Call, GoOn, SpawnReserve, SpawnLocked, Done, RequestStop, SpawnCount,
       SpawnFails, Publish
  <1>7. CASE SpuriousWakeup
    BY <1>7 DEF SpuriousWakeup
  <1>8. ASSUME NEW v \in Workers, Decide(v)
        PROVE  /\ pc'[w] \in Parking =>
                     \/ pc[w] \in Parking
                     \/ pc[w] = "rechecks" /\ Ready = {} /\ UNCHANGED <<status, current>>
               /\ pc'[w] = "rechecks" =>
                     \/ pc[w] = "rechecks"
                     \/ pc[w] = "decides" /\ ~stopRequested /\ Active # {}
                        /\ UNCHANGED <<status, current>>
               /\ pc'[w] = "asksPublishing" =>
                     \/ pc[w] = "asksPublishing"
                     \/ pc[w] = "decides" /\ ~stopRequested /\ UNCHANGED current
    BY <1>8, <1>4
  <1> QED
    BY <1>0, <1>1, <1>2, <1>3, <1>5, <1>6, <1>7, <1>8 DEF Next, Work

\* A fiber gets ready in front of a notification, and is not taken while one is under way; the
\* end of the last one is notified.
LEMMA Publications ==
    ASSUME Typed, Discipline, [Next]_vars
    PROVE  /\ Ready' \subseteq Ready \/ \E t \in Threads : pc'[t] = "notifyOne"
           /\ (\E t \in Threads : pc[t] \in NotifyingOne) => Ready \subseteq Ready'
           /\ Active' = {} => Active = {} \/ \E v \in Workers : pc'[v] = "notifyAll"
  <1> DEFINE Goal ==
           /\ Ready' \subseteq Ready \/ \E t \in Threads : pc'[t] = "notifyOne"
           /\ (\E t \in Threads : pc[t] \in NotifyingOne) => Ready \subseteq Ready'
           /\ Active' = {} => Active = {} \/ \E v \in Workers : pc'[v] = "notifyAll"
  <1> USE DEF Typed, Threads, Goes
  <1>a. \A t \in Threads : t # Null
    BY FiberWorkerPoolAssumption
  <1>b. schedulerLock = Null => \A t \in Threads : pc[t] \notin NotifyingOne
    BY <1>a DEF Discipline, LockHeld
  <1>0. CASE UNCHANGED status
    BY <1>0 DEF Ready, Active
  <1>1. ASSUME NEW t \in Threads, Notify(t) PROVE UNCHANGED status
    BY <1>1 DEF Notify, Bump, Look, SignalOne, SignalAll, fibers
  <1>2. ASSUME NEW w \in Workers,
               \/ WaitTest(w) \/ WaitAnnounce(w) \/ WaitSleep(w) \/ WaitWake(w)
               \/ CancelAll(w) \/ ReadsReady(w) \/ Observe(w) \/ Decide(w)
        PROVE  UNCHANGED status
    BY <1>2 DEF WaitTest, WaitAnnounce, WaitSleep, WaitWake, CancelAll, ReadsReady, Observe,
       Decide, fibers
  <1>3. ASSUME NEW w \in Workers, CancelNext(w) PROVE Goal
    <2>1. CASE UNCHANGED status
      BY <1>0, <2>1
    <2>2. CASE pc'[w] = "notifyOne" /\ \E f : status' = [status EXCEPT ![f] = "ready"]
      BY <2>2 DEF Ready, Active
    <2> QED BY <1>3, <2>1, <2>2 DEF CancelNext
  <1>4. ASSUME NEW w \in Workers, Pop(w) PROVE Goal
    <2>1. schedulerLock = Null
          /\ (UNCHANGED status \/ \E f : status' = [status EXCEPT ![f] = "running"])
      BY <1>4 DEF Pop
    <2> QED BY <1>b, <2>1 DEF Ready, Active
  <1>5. ASSUME NEW w \in Workers, PublishSuspension(w) PROVE Goal
    <2>1. schedulerLock = Null
          /\ \/ pc'[w] = "notifyOne" /\ status' = [status EXCEPT ![fiber[w]] = "ready"]
             \/ status' = [status EXCEPT ![fiber[w]] = "waiting"]
      BY <1>5 DEF PublishSuspension
    <2> QED BY <1>b, <2>1 DEF Ready, Active
  <1>6. ASSUME NEW w \in Workers, Yield(w) \/ Wait(w) PROVE Goal
    <2>1. schedulerLock = Null
          /\ \/ pc'[w] = "notifyOne" /\ status' = [status EXCEPT ![fiber[w]] = "ready"]
             \/ status' = [status EXCEPT ![fiber[w]] = "suspending"]
      BY <1>6 DEF Yield, Wait
    <2> QED BY <1>b, <2>1 DEF Ready, Active
  <1>7. ASSUME NEW w \in Workers, Complete(w) PROVE Goal
    <2>1. /\ fiber[w] \in Fibers /\ status[fiber[w]] # "ready"
          /\ status' = [status EXCEPT ![fiber[w]] = "completed"]
          /\ Active = {fiber[w]} => pc'[w] = "notifyAll"
      BY <1>7 DEF Complete, Discipline, FibersHeld
    <2>2. Ready' = Ready
      BY <2>1 DEF Ready
    <2>3. Active' = Active \ {fiber[w]}
      BY <2>1 DEF Active
    <2> QED BY <2>1, <2>2, <2>3
  <1>8. ASSUME NEW p \in Publishers, Call(p) \/ GoOn(p) PROVE Goal
    <2>1. ASSUME NEW f \in Fibers, SpawnLocked(p, f) PROVE Goal
      BY <1>b, <2>1 DEF SpawnLocked, Ready, Active
    <2>2. ASSUME NEW f \in Fibers, Done(p, f) PROVE Goal
      BY <1>b, <2>2 DEF Done, Ready, Active
    <2>3. CASE RequestStop(p)
      BY <1>0, <2>3 DEF RequestStop, fibers
    <2>4. CASE Publish(p)
      BY <2>4 DEF Publish, Ready, Active
    <2> QED
      BY <1>8, <2>1, <2>2, <2>3, <2>4 DEF Call, GoOn, SpawnReserve, SpawnCount, SpawnFails,
         Discipline, LockHeld
  <1>9. CASE SpuriousWakeup \/ UNCHANGED vars
    BY <1>0, <1>9 DEF SpuriousWakeup, vars, fibers
  <1> QED
    BY <1>0, <1>1, <1>2, <1>3, <1>4, <1>5, <1>6, <1>7, <1>8, <1>9 DEF Next, Work

\* A notification starts with the generation, beside what it is about.
LEMMA Notifications ==
    ASSUME Typed, Discipline, [Next]_vars, NEW t \in Threads
    PROVE  /\ pc[t] \in {"notifyOne", "notifyAll"} => pc'[t] = pc[t] \/ current' = {}
           /\ pc'[t] = "notifyOne" => pc[t] = "notifyOne" \/ Ready' # {}
           /\ pc'[t] \in {"lookOne", "signalOne"} => pc[t] \in NotifyingOne
           /\ pc'[t] \in {"lookAll", "signalAll"} =>
                 pc[t] \in {"lookAll", "signalAll"} \/ (current' = {} /\ pc[t] = "notifyAll")
           /\ t \in Publishers /\ pc'[t] = "notifyAll" => pc[t] = "notifyAll" \/ stopRequested'
  <1> DEFINE Other(u) == t # u /\ pc'[t] = pc[t]
             Silent(u) == /\ t = u => pc[t] \notin {"notifyOne", "notifyAll"} /\ pc'[t] \notin Notifying
                          /\ t # u => pc'[t] = pc[t]
             Goal ==
               /\ pc[t] \in {"notifyOne", "notifyAll"} => pc'[t] = pc[t] \/ current' = {}
               /\ pc'[t] = "notifyOne" => pc[t] = "notifyOne" \/ Ready' # {}
               /\ pc'[t] \in {"lookOne", "signalOne"} => pc[t] \in NotifyingOne
               /\ pc'[t] \in {"lookAll", "signalAll"} =>
                     pc[t] \in {"lookAll", "signalAll"} \/ (current' = {} /\ pc[t] = "notifyAll")
               /\ t \in Publishers /\ pc'[t] = "notifyAll" => pc[t] = "notifyAll" \/ stopRequested'
  <1> USE DEF Typed, Threads, Goes, NotifyingOne, Notifying
  <1>0. ASSUME pc'[t] = pc[t] \/ \E u \in Threads : Silent(u) \/ Other(u) PROVE Goal
    BY <1>0
  <1>1. ASSUME NEW u \in Threads, Notify(u) PROVE Goal
    BY <1>1 DEF Notify, Bump, Look, SignalOne, SignalAll, Notified, Home
  <1>2. ASSUME NEW w \in Workers,
               \/ WaitTest(w) \/ WaitAnnounce(w) \/ WaitSleep(w) \/ WaitWake(w)
               \/ CancelAll(w) \/ ReadsReady(w) \/ Observe(w) \/ Pop(w) \/ Wait(w)
        PROVE  Silent(w) \/ pc'[t] = pc[t]
    BY <1>2 DEF WaitTest, WaitAnnounce, WaitSleep, WaitWake, CancelAll, ReadsReady, Observe, Pop, Wait
  <1>3. ASSUME NEW w \in Workers, Decide(w) PROVE Silent(w)
    BY <1>3 DEF Decide
  <1>4. ASSUME NEW w \in Workers, CancelNext(w) PROVE Goal
    BY <1>4 DEF CancelNext, Ready
  <1>5. ASSUME NEW w \in Workers, PublishSuspension(w) \/ Yield(w) PROVE Goal
    <2>1. fiber[w] \in Fibers
      BY <1>5 DEF PublishSuspension, Yield, Discipline, FibersHeld
    <2>2. CASE status' = [status EXCEPT ![fiber[w]] = "ready"] /\ pc' = [pc EXCEPT ![w] = "notifyOne"]
               /\ pc[w] \in {"runs", "suspends"}
      BY <2>1, <2>2 DEF Ready
    <2>3. CASE pc' = [pc EXCEPT ![w] = "loop"] /\ pc[w] \in {"runs", "suspends"}
      BY <2>3
    <2> QED BY <1>5, <2>2, <2>3 DEF PublishSuspension, Yield
  <1>6. ASSUME NEW w \in Workers, Complete(w) PROVE Goal
    BY <1>6, FiberWorkerPoolAssumption DEF Complete
  <1>7. ASSUME NEW p \in Publishers, Call(p) \/ GoOn(p) PROVE Goal
    <2>1. ASSUME NEW f \in Fibers, SpawnLocked(p, f) PROVE Goal
      BY <2>1 DEF SpawnLocked
    <2>2. ASSUME NEW f \in Fibers, Done(p, f) PROVE Goal
      BY <2>2 DEF Done, Ready
    <2>3. CASE RequestStop(p)
      BY <2>3 DEF RequestStop
    <2>4. CASE Publish(p)
      BY <2>4 DEF Publish, Ready, Discipline, FibersHeld
    <2> QED
      BY <1>7, <2>1, <2>2, <2>3, <2>4 DEF Call, GoOn, SpawnReserve, SpawnCount, SpawnFails,
         Discipline, LockHeld
  <1>8. CASE SpuriousWakeup \/ UNCHANGED vars
    BY <1>8 DEF SpuriousWakeup, vars
  <1> QED
    BY <1>0, <1>1, <1>2, <1>3, <1>4, <1>5, <1>6, <1>7, <1>8 DEF Next, Work

\* Only a worker that observes gets current, and a stop request stays.
LEMMA Observations ==
    ASSUME Typed, [Next]_vars
    PROVE  /\ \A w \in current' : w \in current \/ pc'[w] = "decides"
           /\ stopRequested => stopRequested'
  <1> USE DEF Typed, Threads, Goes, event, stopping
  <1>1. CASE UNCHANGED vars \/ SpuriousWakeup
    BY <1>1 DEF vars, SpuriousWakeup
  <1>2. ASSUME NEW t \in Threads, Notify(t)
        PROVE  current' \subseteq current /\ UNCHANGED stopRequested
    BY <1>2 DEF Notify, Bump, Look, SignalOne, SignalAll
  <1>3. ASSUME NEW w \in Workers, Work(w) \/ Complete(w) \/ Yield(w) \/ Wait(w)
        PROVE  /\ current' = current \/ (current' = current \cup {w} /\ pc'[w] = "decides")
               /\ UNCHANGED stopRequested
    BY <1>3 DEF Work, WaitTest, WaitAnnounce, WaitSleep, WaitWake, CancelAll, CancelNext, ReadsReady,
       Pop, PublishSuspension, Observe, Decide, Complete, Yield, Wait
  <1>4. ASSUME NEW p \in Publishers, Call(p) \/ GoOn(p)
        PROVE  UNCHANGED current /\ (stopRequested => stopRequested')
    BY <1>4 DEF Call, GoOn, SpawnReserve, SpawnLocked, Done, RequestStop, SpawnCount, SpawnFails, Publish
  <1> QED
    BY <1>1, <1>2, <1>3, <1>4 DEF Next

LEMMA UnseenStep == Typed /\ Discipline /\ Unseen /\ [Next]_vars => Unseen'
  <1> SUFFICES ASSUME Typed, Discipline, Unseen, [Next]_vars PROVE Unseen'
    OBVIOUS
  <1> current \subseteq Workers /\ current' \subseteq Workers
    BY TypedStep DEF Typed
  <1>1. ReadyAnnounced'
    BY Publications, Notifications DEF Unseen, ReadyAnnounced, NotifyingOne, Threads
  <1>2. ReadyUnseen'
    <2> SUFFICES ASSUME NEW w \in current', pc'[w] \in Parking, Ready' # {}
                 PROVE  \E t \in Threads : pc'[t] = "notifyOne"
      BY DEF ReadyUnseen, Threads
    <2>1. w \in current
      BY Observations DEF Parking, Inside
    <2>2. CASE Ready' \subseteq Ready
      <3>1. Ready # {} /\ pc[w] \in Parking
        BY <2>2, Descent
      <3>2. PICK t \in Threads : pc[t] = "notifyOne"
        BY <2>1, <3>1 DEF Unseen, ReadyUnseen
      <3> QED BY <3>2, Notifications
    <2> QED BY <2>2, Publications
  <1>3. EndUnseen'
    <2> SUFFICES ASSUME NEW w \in current', pc'[w] \in Parking \cup {"rechecks"}, Active' = {}
                 PROVE  \E v \in Workers : pc'[v] = "notifyAll"
      BY DEF EndUnseen
    <2>1. w \in current
      BY Observations DEF Parking, Inside
    <2>2. CASE Active = {}
      <3>1. pc[w] \in Parking \cup {"rechecks"}
        BY <2>2, Descent
      <3>2. PICK v \in Workers : pc[v] = "notifyAll"
        BY <2>1, <2>2, <3>1 DEF Unseen, EndUnseen
      <3> QED BY <3>2, Notifications DEF Threads
    <2> QED BY <2>2, Publications
  <1>4. StopUnseen'
    <2> SUFFICES ASSUME NEW p \in Publishers
                 PROVE  /\ pc'[p] \in NotifyingAll => stopRequested'
                        /\ pc'[p] \in {"lookAll", "signalAll"} => \A w \in current' :
                               pc'[w] \notin Parking \cup {"rechecks", "asksPublishing"}
      BY DEF StopUnseen
    <2>1. pc'[p] \in NotifyingAll => stopRequested'
      BY Notifications, Observations DEF Unseen, StopUnseen, NotifyingAll, Threads
    <2>2. ASSUME pc'[p] \in {"lookAll", "signalAll"}, NEW w \in current'
          PROVE  pc'[w] \notin Parking \cup {"rechecks", "asksPublishing"}
      <3>1. pc[p] \in {"lookAll", "signalAll"}
        BY <2>2, Notifications DEF Threads
      <3>2. stopRequested /\ \A u \in current : pc[u] \notin Parking \cup {"rechecks", "asksPublishing"}
        BY <3>1 DEF Unseen, StopUnseen, NotifyingAll
      <3>3. w \in current \/ pc'[w] = "decides"
        BY Observations
      <3> QED BY <3>2, <3>3, Descent DEF Parking, Inside
    <2> QED BY <2>1, <2>2
  <1> QED
    BY <1>1, <1>2, <1>3, <1>4 DEF Unseen

-----------------------------------------------------------------------------
(* Somebody watches over the sleepers.                                     *)

Leaving == {"mayExitToo", "exited"}

\* Workers sleep without active fibers only until the one who ended the last tells them.
EndAnnounced == condition # {} /\ Active = {} => \E v \in Workers : pc[v] \in NotifyingAll

\* Signals are spent when as many are pending as there are workers for them: notifyOne then
\* wakes nobody.  A worker that will sleep again without taking its signal...
SpentBesideCurrent ==
    /\ pendingSignals >= Cardinality(conditionWaited)
    /\ conditionWaited \cap current # {}
    => \E w \in Workers \ conditionWaited : pc[w] \notin Leaving

\* ... or that sleeps already, is not alone.
SpentBesideSleeper ==
    /\ pendingSignals >= Cardinality(conditionWaited)
    /\ condition # {}
    => \E w \in Workers \ condition : pc[w] \notin Leaving

\* A ready fiber is seen by a worker that will not leave, or told of.
Noticed ==
    Ready # {} /\ condition # {} =>
        \/ \E w \in Workers \ condition : pc[w] \notin Leaving
        \/ \E t \in Threads : pc[t] \in Notifying

Watched == EndAnnounced /\ SpentBesideCurrent /\ SpentBesideSleeper /\ Noticed

LockInv == Discipline /\ Unseen /\ Watched

IInv ==
    /\ Typed /\ SignalsCounted
    /\ injectionQueue \/ LockInv

\* A step that puts nobody to sleep, and ends no notification.
Calm ==
    /\ condition' \subseteq condition /\ UNCHANGED <<conditionWaited, pendingSignals>>
    /\ \A t \in Threads :
          /\ pc[t] \in Notifying => pc'[t] \in Notifying
          /\ pc[t] \in NotifyingAll => pc'[t] \in NotifyingAll
          /\ pc'[t] \in Leaving => pc[t] \in Leaving \/ Active = {}

LEMMA CalmStep ==
    ASSUME Typed, SignalsCounted, SignalsCounted', LockInv, [Next]_vars, Calm
    PROVE  Watched'
  <1> USE DEF LockInv, Watched
  <1>a. current \subseteq Workers /\ Workers \subseteq Threads
    BY DEF Typed, Threads
  <1>1. EndAnnounced'
    BY Publications, <1>a DEF EndAnnounced, Calm, NotifyingAll
  <1>2. SpentBesideCurrent'
    <2> SUFFICES ASSUME pendingSignals >= Cardinality(conditionWaited),
                        NEW u \in conditionWaited, u \in current'
                 PROVE  \E w \in Workers \ conditionWaited : pc'[w] \notin Leaving
      BY DEF SpentBesideCurrent, Calm
    <2>1. pc'[u] \in Inside /\ pc[u] \in Inside /\ u \in Workers
      BY DEF SignalsCounted, Calm
    <2>2. u \in current
      BY <2>1, Observations DEF Inside
    <2>3. PICK w \in Workers \ conditionWaited : pc[w] \notin Leaving
      BY <2>2 DEF SpentBesideCurrent
    <2>4. CASE Active = {}
      <3>1. PICK v \in Workers : pc[v] = "notifyAll"
        BY <2>1, <2>2, <2>4 DEF Unseen, EndUnseen, Parking
      <3>2. v \notin conditionWaited /\ pc'[v] \notin Leaving
        BY <3>1, <1>a DEF SignalsCounted, Inside, Calm, NotifyingAll, Leaving
      <3> QED BY <3>2
    <2>5. CASE Active # {}
      BY <2>3, <2>5, <1>a DEF Calm
    <2> QED BY <2>4, <2>5
  <1>3. SpentBesideSleeper'
    <2> SUFFICES ASSUME pendingSignals >= Cardinality(conditionWaited), condition' # {}
                 PROVE  \E w \in Workers \ condition' : pc'[w] \notin Leaving
      BY DEF SpentBesideSleeper, Calm
    <2>1. condition # {}
      BY DEF Calm
    <2>2. CASE Active = {}
      <3>1. PICK v \in Workers : pc[v] \in NotifyingAll
        BY <2>1, <2>2 DEF EndAnnounced
      <3>2. v \notin condition' /\ pc'[v] \notin Leaving
        BY <3>1, <1>a DEF SignalsCounted, Calm, NotifyingAll, Leaving
      <3> QED BY <3>2
    <2>3. CASE Active # {}
      <3>1. PICK w \in Workers \ condition : pc[w] \notin Leaving
        BY <2>1 DEF SpentBesideSleeper
      <3> QED BY <3>1, <2>3, <1>a DEF Calm
    <2> QED BY <2>2, <2>3
  <1>4. Noticed'
    <2> SUFFICES ASSUME Ready' # {}, condition' # {}
                 PROVE  \/ \E w \in Workers \ condition' : pc'[w] \notin Leaving
                        \/ \E t \in Threads : pc'[t] \in Notifying
      BY DEF Noticed, Threads
    <2>1. CASE Ready = {}
      BY <2>1, Publications DEF Notifying
    <2>2. CASE Ready # {}
      <3>1. Active # {}
        BY <2>2 DEF Active, Ready
      <3>2. \/ \E w \in Workers \ condition : pc[w] \notin Leaving
            \/ \E t \in Threads : pc[t] \in Notifying
        BY <2>2 DEF Noticed, Calm
      <3> QED BY <3>1, <3>2, <1>a DEF Calm
    <2> QED BY <2>1, <2>2
  <1> QED
    BY <1>1, <1>2, <1>3, <1>4

\* The last step of a notification.
LEMMA NotifiedStep ==
    ASSUME Typed, SignalsCounted, SignalsCounted', LockInv, [Next]_vars,
           NEW t \in Threads, Look(t) \/ SignalOne(t) \/ SignalAll(t), Notified(t)
    PROVE  Watched'
  <1> USE DEF LockInv, Watched
  <1>1. /\ \A u \in Threads : u # t => pc'[u] = pc[u]
        /\ pc'[t] \notin Leaving
        /\ pc[t] \in Notifying
    BY DEF Typed, Notified, Home, Look, SignalOne, SignalAll, Goes, Leaving, Notifying
  <1>2. t \notin conditionWaited /\ condition' \subseteq condition
        /\ UNCHANGED <<conditionWaited, current, status>>
    BY <1>1 DEF SignalsCounted, Inside, Notifying, Look, SignalOne, SignalAll, Signal, Broadcast,
       fibers, event
  <1>3. Ready' = Ready /\ Active' = Active
    BY <1>2 DEF Ready, Active
  <1>4. ASSUME NEW w \in Workers, pc[w] \notin Leaving PROVE pc'[w] \notin Leaving
    BY <1>1, <1>4 DEF Threads
  <1>5. CASE Look(t) /\ UNCHANGED <<condition, pendingSignals>> /\ condition = {}
    <2>1. SpentBesideCurrent'
      BY <1>2, <1>4, <1>5 DEF SpentBesideCurrent
    <2> QED
      BY <1>5, <2>1 DEF EndAnnounced, SpentBesideSleeper, Noticed
  <1>6. CASE SignalAll(t)
    <2>1. condition' = {}
      BY <1>6 DEF SignalAll, Broadcast
    <2>2. SpentBesideCurrent'
      <3>1. CASE t \in Workers
        BY <1>1, <1>2, <3>1 DEF SpentBesideCurrent
      <3>2. CASE t \in Publishers
        <4>1. \A u \in current : pc[u] \notin Inside
          BY <1>6, <3>2 DEF Unseen, StopUnseen, SignalAll, Parking
        <4>2. conditionWaited \cap current = {}
          BY <4>1 DEF SignalsCounted
        <4> QED BY <1>2, <4>2 DEF SpentBesideCurrent
      <3> QED BY <3>1, <3>2 DEF Threads
    <2> QED
      BY <2>1, <2>2 DEF EndAnnounced, SpentBesideSleeper, Noticed
  <1>7. CASE SignalOne(t)
    <2>1. pc[t] = "signalOne" /\ MutexFree /\ schedulerLock = t /\ Ready # {}
      BY <1>7 DEF SignalOne, Discipline, LockHeld, Unseen, ReadyAnnounced, NotifyingOne
    <2>2. Active # {}
      BY <2>1 DEF Ready, Active
    <2>3. EndAnnounced'
      BY <1>3, <2>2 DEF EndAnnounced
    <2>4. conditionWaited \cap current = {}
      <3>1. \A u \in Threads : pc[u] # "notifyOne"
        BY <2>1 DEF Discipline, LockHeld, NotifyingOne
      <3>2. \A u \in current : pc[u] \notin Inside
        BY <2>1, <3>1 DEF Unseen, ReadyUnseen, Parking
      <3> QED BY <3>2 DEF SignalsCounted
    <2>5. SpentBesideCurrent'
      BY <1>2, <2>4 DEF SpentBesideCurrent
    <2>6. condition' # {} => \E w \in Workers \ condition' : pc'[w] \notin Leaving
      <3>1. CASE pendingSignals < parked
        <4> SUFFICES ASSUME condition' # {}
                     PROVE  \E w \in Workers \ condition' : pc'[w] \notin Leaving
          OBVIOUS
        <4>1. condition # {} /\ condition' \in {condition \ {w} : w \in condition}
          BY <1>2, <1>7, <3>1 DEF SignalOne, Signal
        <4>2. PICK w \in condition : condition' = condition \ {w}
          BY <4>1
        <4>3. w \in Workers /\ pc[w] = "asleep"
          BY DEF SignalsCounted
        <4> QED BY <1>4, <4>2, <4>3 DEF Leaving
      <3>2. CASE ~(pendingSignals < parked)
        <4>1. condition' = condition /\ pendingSignals >= Cardinality(conditionWaited)
          BY <1>7, <2>1, <3>2, Sizes DEF SignalOne, SignalsCounted
        <4> QED BY <1>4, <4>1 DEF SpentBesideSleeper
      <3> QED BY <3>1, <3>2
    <2> QED
      BY <2>3, <2>5, <2>6 DEF SpentBesideSleeper, Noticed
  <1>8. ASSUME Look(t), parked = 0 PROVE UNCHANGED <<condition, pendingSignals>> /\ condition = {}
    BY <1>8, Sizes DEF Look, event
  <1>9. ASSUME Look(t) PROVE parked = 0
    BY <1>9, <1>1 DEF Look, Notified, Goes, Home, Typed
  <1> QED
    BY <1>5, <1>6, <1>7, <1>8, <1>9

\* A worker leaves wait(): it will look for ready fibers.
LEMMA LeavesWait ==
    ASSUME Typed, SignalsCounted, LockInv, NEW w \in Workers, WaitTest(w), w \notin current
    PROVE  Watched'
  <1>1. /\ pc' = [pc EXCEPT ![w] = "loop"] /\ pc[w] \in {"waits", "retests"}
        /\ UNCHANGED <<status, current, condition>>
        /\ conditionWaited' = conditionWaited \ {w}
    BY DEF WaitTest, fibers
  <1>2. pc'[w] = "loop" /\ w \notin condition' /\ w \notin conditionWaited'
    BY <1>1 DEF Typed, Threads, SignalsCounted
  <1>3. EndAnnounced'
    BY <1>1 DEF LockInv, Watched, EndAnnounced, Typed, Threads, Active, NotifyingAll
  <1> QED
    BY <1>2, <1>3 DEF Watched, SpentBesideCurrent, SpentBesideSleeper, Noticed, Leaving

\* A worker falls asleep, for the first time or again.
LEMMA FallsAsleep ==
    ASSUME Typed, SignalsCounted, LockInv, NEW w \in Workers, WaitSleep(w), w \in current
    PROVE  Watched'
  <1> USE DEF LockInv, Watched
  <1>1. /\ pc[w] = "announced" /\ pc' = [pc EXCEPT ![w] = "asleep"]
        /\ condition' = condition \cup {w} /\ conditionWaited' = conditionWaited \cup {w}
        /\ UNCHANGED <<status, current, pendingSignals>>
    BY DEF WaitSleep, Goes, fibers
  <1>2. /\ \A u \in Threads : u # w => pc'[u] = pc[u]
        /\ pc'[w] = "asleep"
        /\ Workers \subseteq Threads
    BY <1>1 DEF Typed, Threads
  <1>3. Ready' = Ready /\ Active' = Active
    BY <1>1 DEF Ready, Active
  <1>4. EndAnnounced'
    <2>1. Active = {} => \E v \in Workers : pc[v] = "notifyAll"
      BY <1>1 DEF Unseen, EndUnseen, Parking, Inside
    <2> QED BY <1>1, <1>2, <1>3, <2>1 DEF EndAnnounced, NotifyingAll
  <1>5. Noticed'
    <2>1. Ready # {} => \E t \in Threads : pc[t] = "notifyOne"
      BY <1>1 DEF Unseen, ReadyUnseen, Parking, Inside
    <2> QED BY <1>1, <1>2, <1>3, <2>1 DEF Noticed, Notifying
  <1>6. CASE w \in conditionWaited
    <2>1. pendingSignals >= Cardinality(conditionWaited) =>
             \E v \in Workers \ conditionWaited : v # w /\ pc'[v] \notin Leaving
      BY <1>2, <1>6 DEF SpentBesideCurrent
    <2>2. conditionWaited' = conditionWaited /\ condition' \subseteq conditionWaited
      BY <1>1, <1>6 DEF SignalsCounted
    <2> QED
      BY <1>1, <1>4, <1>5, <2>1, <2>2 DEF SpentBesideCurrent, SpentBesideSleeper
  <1>7. CASE w \notin conditionWaited
    <2>1. Cardinality(conditionWaited') = Cardinality(conditionWaited) + 1
      BY <1>1, <1>7, Sizes, FS_AddElement
    <2>2. ~(pendingSignals' >= Cardinality(conditionWaited'))
      BY <1>1, <2>1, Sizes DEF SignalsCounted
    <2> QED
      BY <1>4, <1>5, <2>2 DEF SpentBesideCurrent, SpentBesideSleeper
  <1> QED BY <1>6, <1>7

LEMMA WatchedStep ==
    ASSUME Typed, SignalsCounted, SignalsCounted', LockInv, [Next]_vars
    PROVE  Watched'
  <1> USE DEF Typed, Threads, Goes, Notifying, NotifyingAll, Leaving, fibers, event
  <1>1. CASE UNCHANGED vars \/ SpuriousWakeup
    <2>1. Calm
      BY <1>1 DEF Calm, vars, SpuriousWakeup
    <2> QED BY <2>1, CalmStep
  <1>2. ASSUME NEW t \in Threads, Notify(t) PROVE Watched'
    <2>1. CASE Notified(t) /\ (Look(t) \/ SignalOne(t) \/ SignalAll(t))
      BY <2>1, NotifiedStep
    <2>2. CASE Bump(t) \/ (Look(t) /\ (Goes(t, "lookOne", "signalOne") \/ Goes(t, "lookAll", "signalAll")))
      <3>1. Calm
        BY <2>2 DEF Calm, Bump, Look
      <3> QED BY <3>1, CalmStep
    <2> QED BY <1>2, <2>1, <2>2 DEF Notify, Look, SignalOne, SignalAll
  <1>3. ASSUME NEW w \in Workers, Work(w) \/ Complete(w) \/ Yield(w) \/ Wait(w) PROVE Watched'
    <2>1. CASE WaitTest(w) /\ w \notin current
      BY <2>1, LeavesWait
    <2>2. CASE WaitSleep(w) /\ w \in current
      BY <2>2, FallsAsleep
    <2>3. CASE \/ WaitTest(w) /\ w \in current
               \/ WaitSleep(w) /\ w \notin current
               \/ WaitAnnounce(w) \/ WaitWake(w)
      <3>1. Calm
        BY <2>3 DEF Calm, WaitTest, WaitSleep, WaitAnnounce, WaitWake
      <3> QED BY <3>1, CalmStep
    <2>4. CASE CancelAll(w) \/ CancelNext(w) \/ ReadsReady(w) \/ Pop(w)
      <3>1. Calm
        BY <2>4 DEF Calm, CancelAll, CancelNext, ReadsReady, Pop
      <3> QED BY <3>1, CalmStep
    <2>5. CASE PublishSuspension(w) \/ Observe(w) \/ Complete(w) \/ Yield(w) \/ Wait(w)
      <3>1. Calm
        BY <2>5 DEF Calm, PublishSuspension, Observe, Complete, Yield, Wait
      <3> QED BY <3>1, CalmStep
    <2>6. CASE Decide(w)
      <3>1. Calm
        BY <2>6 DEF Calm, Decide
      <3> QED BY <3>1, CalmStep
    <2> QED BY <1>3, <2>1, <2>2, <2>3, <2>4, <2>5, <2>6 DEF Work
  <1>4. ASSUME NEW p \in Publishers, Call(p) \/ GoOn(p) PROVE Watched'
    <2>1. Calm
      BY <1>4 DEF Calm, Call, GoOn, SpawnReserve, SpawnLocked, Done, RequestStop, SpawnCount,
         SpawnFails, Publish
    <2> QED BY <2>1, CalmStep
  <1> QED
    BY <1>1, <1>2, <1>3, <1>4 DEF Next

-----------------------------------------------------------------------------
(* The variables that no invariant above speaks of                         *)

WorkerLocations == Locations \ {"idle", "reserving", "counted"}

Others ==
    /\ injection \in Seq(Fibers)
    /\ released \subseteq Fibers /\ cancelRequested \subseteq Fibers
    /\ schedulerLock \in Threads \cup {Null}
    /\ toCancel # {} => schedulerLock \in Workers
    /\ stopRequested \in BOOLEAN /\ cancelled \subseteq Workers
    /\ \A w \in Workers : pc[w] \in WorkerLocations
    /\ \A p \in Publishers :
        /\ pc[p] \in {"idle", "reserving", "counted"} \cup Notifying
        /\ pc[p] \in {"reserving", "counted"} => fiber[p] \in Fibers

LEMMA Withdrawn ==
    ASSUME NEW S, NEW queue \in Seq(S), NEW f
    PROVE  Without(queue, f) \in Seq(S)
  <1> DEFINE i == CHOOSE j \in DOMAIN queue : queue[j] = f
  <1>1. CASE ~Contains(queue, f)
    BY <1>1 DEF Without
  <1>2. CASE Contains(queue, f)
    <2>1. Len(queue) \in Nat /\ DOMAIN queue = 1 .. Len(queue)
      BY LenProperties
    <2>2. i \in 1 .. Len(queue)
      BY <1>2, <2>1 DEF Contains
    <2> HIDE DEF i
    <2>3. \A j \in 1 .. Len(queue) : queue[j] \in S
      BY ElementOfSeq
    <2>4. SubSeq(queue, 1, i - 1) \in Seq(S) /\ SubSeq(queue, i + 1, Len(queue)) \in Seq(S)
      BY <2>1, <2>2, <2>3, SubSeqProperties
    <2>5. RemoveAt(queue, i) \in Seq(S)
      BY <2>4, ConcatProperties DEF RemoveAt
    <2> QED BY <1>2, <2>5 DEF Without, i
  <1> QED BY <1>1, <1>2

LEMMA OthersStep == Typed /\ Others /\ [Next]_vars => Others'
  <1> SUFFICES ASSUME Typed, Others, [Next]_vars PROVE Others'
    OBVIOUS
  <1> USE FiberWorkerPoolAssumption
      DEF Typed, Others, Threads, Locations, WorkerLocations, Notifying, Goes, Home, fibers,
          event, stopping
  <1>1. CASE UNCHANGED vars
    BY <1>1 DEF vars
  <1>2. ASSUME NEW t \in Threads, Notify(t) PROVE Others'
    <2>1. CASE Bump(t)
      BY <2>1 DEF Bump
    <2>2. CASE Look(t) \/ SignalOne(t) \/ SignalAll(t)
      BY <2>2 DEF Look, SignalOne, SignalAll, Notified
    <2> QED BY <1>2, <2>1, <2>2 DEF Notify
  <1>3. ASSUME NEW w \in Workers, Work(w) PROVE Others'
    <2>1. CASE WaitTest(w) \/ WaitAnnounce(w) \/ WaitSleep(w) \/ WaitWake(w)
      BY <2>1 DEF WaitTest, WaitAnnounce, WaitSleep, WaitWake
    <2>2. CASE CancelAll(w) \/ ReadsReady(w) \/ Observe(w) \/ Decide(w)
      BY <2>2 DEF CancelAll, ReadsReady, Observe, Decide, Active
    <2>3. CASE CancelNext(w)
      BY <2>3 DEF CancelNext
    <2>4. CASE Pop(w)
      <3>1. injection' \in Seq(Fibers)
        BY <2>4, Withdrawn DEF Pop, Ready
      <3>2. \/ pc' = [pc EXCEPT ![w] = "loop"] /\ UNCHANGED fiber
            \/ \E f \in Fibers : /\ pc' = [pc EXCEPT ![w] = "runs"]
                               /\ fiber' = [fiber EXCEPT ![w] = f]
        BY <2>4 DEF Pop, Ready
      <3> QED BY <2>4, <3>1, <3>2 DEF Pop
    <2>5. CASE PublishSuspension(w)
      BY <2>5 DEF PublishSuspension
    <2> QED BY <1>3, <2>1, <2>2, <2>3, <2>4, <2>5 DEF Work
  <1>4. ASSUME NEW w \in Workers, Complete(w) \/ Yield(w) \/ Wait(w) PROVE Others'
    BY <1>4 DEF Complete, Yield, Wait
  <1>5. ASSUME NEW p \in Publishers, Call(p) PROVE Others'
    <2>1. ASSUME NEW f \in Fibers, SpawnReserve(p, f) PROVE Others'
      <3>1. injection' \in Seq(Fibers)
        BY <2>1, AppendProperties DEF SpawnReserve
      <3> QED BY <2>1, <3>1 DEF SpawnReserve
    <2>2. ASSUME NEW f \in Fibers, SpawnLocked(p, f) \/ Done(p, f) PROVE Others'
      BY <2>2 DEF SpawnLocked, Done
    <2>3. CASE RequestStop(p)
      BY <2>3 DEF RequestStop
    <2> QED BY <1>5, <2>1, <2>2, <2>3 DEF Call
  <1>6. ASSUME NEW p \in Publishers, GoOn(p) PROVE Others'
    <2>1. CASE SpawnFails(p)
      <3>1. injection' \in Seq(Fibers)
        BY <2>1, Withdrawn DEF SpawnFails
      <3> QED BY <2>1, <3>1 DEF SpawnFails
    <2>2. CASE SpawnCount(p) \/ Publish(p)
      BY <2>2 DEF SpawnCount, Publish
    <2> QED BY <1>6, <2>1, <2>2 DEF GoOn
  <1>7. CASE SpuriousWakeup
    BY <1>7 DEF SpuriousWakeup
  <1> QED
    BY <1>1, <1>2, <1>3, <1>4, <1>5, <1>6, <1>7 DEF Next

-----------------------------------------------------------------------------

\* The strengthened invariant: the signals of a worker that waits are counted, and with the
\* scheduler lock the sleepers are watched over.
THEOREM Inductive == Spec => []IInv
  <1>1. Init => IInv
    <2> SUFFICES ASSUME Init PROVE IInv
      OBVIOUS
    <2> USE DEF Init, Home, Threads
    <2>1. Typed
      BY DEF Typed, Locations
    <2>2. SignalsCounted
      <3>1. \A w \in Workers : pc[w] = "loop"
        OBVIOUS
      <3>2. Parked = {} /\ conditionWaited = {}
        BY <3>1 DEF Parked
      <3> QED
        BY <3>1, <3>2, FS_EmptySet DEF SignalsCounted
    <2>3. \A t \in Threads : pc[t] \in {"loop", "idle"}
      OBVIOUS
    <2>4. injectionQueue \/ Discipline
      BY <2>1, <2>3 DEF Typed, Discipline, FibersHeld, LockHeld, NotifyingOne
    <2>5. Unseen
      BY <2>3 DEF Unseen, ReadyAnnounced, ReadyUnseen, EndUnseen, StopUnseen, NotifyingOne, NotifyingAll
    <2>6. Watched
      BY DEF Watched, EndAnnounced, SpentBesideCurrent, SpentBesideSleeper, Noticed
    <2> QED
      BY <2>1, <2>2, <2>4, <2>5, <2>6 DEF IInv, LockInv
  <1>2. IInv /\ [Next]_vars => IInv'
    <2> SUFFICES ASSUME IInv, [Next]_vars PROVE IInv'
      OBVIOUS
    <2>1. Typed' /\ SignalsCounted'
      BY TypedStep, SignalsStep DEF IInv
    <2>2. CASE LockInv
      BY <2>1, <2>2, DisciplineStep, UnseenStep, WatchedStep DEF IInv, LockInv
    <2>3. CASE injectionQueue
      <3>1. injectionQueue' = injectionQueue
        BY DEF vars, Next, Notify, Bump, Look, SignalOne, SignalAll, Work, WaitTest, WaitAnnounce,
           WaitSleep, WaitWake, CancelAll, CancelNext, ReadsReady, Pop, PublishSuspension, Observe,
           Decide, Complete, Yield, Wait, Call, GoOn, SpawnReserve, SpawnLocked, Done, RequestStop,
           SpawnCount, SpawnFails, Publish, SpuriousWakeup, fibers
      <3> QED BY <2>1, <2>3, <3>1 DEF IInv
    <2> QED BY <2>2, <2>3 DEF IInv
  <1> QED
    BY <1>1, <1>2, PTL DEF Spec

\* FiberWorkerPoolWakeEvent: whatever workers, publishers and spurious wakeups do, pending
\* signals are never more than the workers parked, also with an injection queue.
THEOREM SignalsBounded == Spec => []SignalsWithinParked
  <1>1. IInv => SignalsWithinParked
    BY Sizes DEF IInv, SignalsCounted, SignalsWithinParked
  <1> QED
    BY <1>1, Inductive, PTL

\* FiberWorkerPoolWakeEvent: without an injection queue no ready fiber is left to workers
\* that all sleep: one of them will look for it, or somebody is about to wake one.
THEOREM ReadyIsNoticed == Spec => []NoFiberForgottenUnderLock
  <1>1. IInv => NoFiberForgottenUnderLock
    <2> SUFFICES ASSUME IInv, LockInv, Ready # {}, Exited # Workers,
                        \A t \in Threads : pc[t] \notin Notifying
                 PROVE  \E w \in Workers \ Exited : w \notin condition
      BY DEF IInv, NoFiberForgottenUnderLock, NoFiberForgotten
    <2>1. CASE condition = {}
      BY <2>1 DEF Exited
    <2>2. CASE condition # {}
      BY <2>2 DEF LockInv, Watched, Noticed, Leaving, Exited
    <2> QED BY <2>1, <2>2
  <1> QED
    BY <1>1, Inductive, PTL

\* FiberWorkerPool: the state stays in its types, `parked` counts the workers between their
\* announcement and their wake-up, and only these can be asleep.
THEOREM TypeCorrect == Spec => []TypeOK
  <1>1. Init => Others
    <2>1. \A t \in Threads : pc[t] = Home(t) => pc[t] \in {"loop", "idle"}
      BY DEF Home
    <2> QED
      BY EmptySeq, FiberWorkerPoolAssumption
      DEF Init, Others, Home, Threads, WorkerLocations, Locations, Notifying
  <1>2. Typed /\ Others /\ [Next]_vars => Others'
    BY OthersStep
  <1>3. IInv /\ Others => TypeOK
    <2> SUFFICES ASSUME IInv, Others PROVE TypeOK
      OBVIOUS
    <2>1. parked = Cardinality({w \in Workers : pc[w] \in {"announced", "asleep"}})
      BY DEF IInv, SignalsCounted, Parked
    <2>2. /\ conditionWaited \in SUBSET Workers
          /\ condition \in SUBSET {w \in conditionWaited : pc[w] = "asleep"}
      BY DEF IInv, SignalsCounted
    <2> QED
      BY <2>1, <2>2
      DEF TypeOK, IInv, Typed, SignalsCounted, Others, WorkerLocations, Locations, Notifying
  <1>4. IInv => Typed
    BY DEF IInv
  <1> QED
    BY <1>1, <1>2, <1>3, <1>4, Inductive, PTL DEF Spec

=============================================================================
