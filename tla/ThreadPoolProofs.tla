-------------------------- MODULE ThreadPoolProofs --------------------------
(***************************************************************************)
(* ThreadPool for any number of workers, clients and tasks, with clients   *)
(* that call concurrently and thread creation that may fail.               *)
(*                                                                         *)
(* The invariant is about the list the pointers form: FifoIs(q) says that  *)
(* it is the sequence q and how q shares the pool's tasks with the         *)
(* workers.  A list is determined by its pointers (ChainUnique), which     *)
(* takes an induction along the list, stated for a set instead of an       *)
(* operator, which is the form a proof can cite.                           *)
(***************************************************************************)
EXTENDS ThreadPool, FiniteSetTheorems, SequenceTheorems,
        WellFoundedInduction, Integers, TLAPS

-----------------------------------------------------------------------------
(* Induction over the natural numbers                                      *)

LEMMA LeastNumber ==
    ASSUME NEW T, T \subseteq Nat, T # {}
    PROVE  \E x \in T : \A y \in T : x <= y
  <1> DEFINE R == {p \in Nat \X Nat : p[1] < p[2]}
  <1>1. IsWellFoundedOn(R, Nat)
    BY NatLessThanWellFounded DEF OpToRel
  <1>2. \E x \in T : \A y \in T : ~ (<<y, x>> \in R)
    <2> HIDE DEF R
    <2> QED BY <1>1, WFMin
  <1>3. PICK x \in T : \A y \in T : ~ (<<y, x>> \in R)
    BY <1>2
  <1>4. ASSUME NEW y \in T PROVE x <= y
    <2>1. ~ (y < x)
      BY <1>3
    <2> QED BY <2>1
  <1> QED BY <1>4

LEMMA SetInduction ==
    ASSUME NEW S, 0 \in S, \A n \in Nat : n \in S => n + 1 \in S
    PROVE  Nat \subseteq S
  <1> DEFINE T == {n \in Nat : n \notin S}
  <1>1. SUFFICES ASSUME T # {} PROVE FALSE
    OBVIOUS
  <1>2. PICK x \in T : \A y \in T : x <= y
    BY <1>1, LeastNumber
  <1>3. x \in Nat /\ x # 0 /\ x \notin S
    OBVIOUS
  <1>4. x - 1 \in Nat /\ x - 1 \notin T
    BY <1>2, <1>3
  <1>5. x - 1 \in S
    BY <1>4
  <1> QED BY <1>3, <1>4, <1>5

-----------------------------------------------------------------------------
(* The list that the pointers form                                         *)

LEMMA ChainType ==
    ASSUME NEW q \in Chains
    PROVE  /\ q \in Seq(Tasks)
           /\ Len(q) \in Nat /\ Len(q) <= Cardinality(Tasks)
           /\ q \in [1 .. Len(q) -> Tasks]
           /\ q = <<>> <=> Len(q) = 0
  <1>0. Cardinality(Tasks) \in Nat
    BY ThreadPoolAssumption, FS_CardinalityType
  <1>1. PICK n \in 0 .. Cardinality(Tasks) : q \in [1 .. n -> Tasks]
    BY DEF Chains
  <1>2. n \in Nat
    BY <1>0
  <1>3. q = [i \in 1 .. n |-> q[i]] /\ \A i \in 1 .. n : q[i] \in Tasks
    BY <1>1
  <1>4. q \in Seq(Tasks)
    BY <1>1, <1>2, <1>3
  <1>5. Len(q) = n
    BY <1>1, <1>2, <1>4, LenProperties
  <1> QED BY <1>0, <1>1, <1>2, <1>4, <1>5, EmptySeq

LEMMA ChainIntro ==
    ASSUME NEW q \in Seq(Tasks),
           \A i, j \in 1 .. Len(q) : q[i] = q[j] => i = j
    PROVE  q \in Chains
  <1>1. Len(q) \in Nat /\ q \in [1 .. Len(q) -> Tasks]
    BY LenProperties
  <1>2. q \in Injection(1 .. Len(q), Tasks)
    BY <1>1 DEF Injection, IsInjective
  <1>3. Cardinality(1 .. Len(q)) = Len(q)
    BY <1>1, FS_Interval
  <1>4. Len(q) <= Cardinality(Tasks) /\ Cardinality(Tasks) \in Nat
    BY <1>2, <1>3, ThreadPoolAssumption, FS_Injection, FS_CardinalityType
  <1> QED BY <1>1, <1>4 DEF Chains

\* The pointers determine the list.
LEMMA ChainUnique ==
    ASSUME TypeOK, NEW p \in Chains, NEW q \in Chains, IsChain(p), IsChain(q)
    PROVE  p = q
  <1>0. /\ Len(p) \in Nat /\ p \in [1 .. Len(p) -> Tasks] /\ p \in Seq(Tasks)
        /\ Len(q) \in Nat /\ q \in [1 .. Len(q) -> Tasks] /\ q \in Seq(Tasks)
        /\ p = <<>> <=> Len(p) = 0
        /\ q = <<>> <=> Len(q) = 0
        /\ Null \notin Tasks
    BY ChainType, ThreadPoolAssumption
  <1> DEFINE S == {k \in Nat : k + 1 <= Len(p) /\ k + 1 <= Len(q) => p[k + 1] = q[k + 1]}
  <1>1. 0 \in S
    BY <1>0 DEF IsChain
  <1>2. ASSUME NEW k \in Nat, k \in S PROVE k + 1 \in S
    <2>1. SUFFICES ASSUME k + 2 <= Len(p), k + 2 <= Len(q)
                   PROVE  p[k + 2] = q[k + 2]
      BY <1>0
    <2>2. p[k + 1] = q[k + 1]
      BY <1>2, <2>1, <1>0
    <2>3. k + 1 \in 1 .. Len(p) - 1 /\ k + 1 \in 1 .. Len(q) - 1
      BY <2>1, <1>0
    <2>4. next[p[k + 1]] = p[k + 1 + 1] /\ next[q[k + 1]] = q[k + 1 + 1]
      BY <2>3 DEF IsChain
    <2>5. k + 1 + 1 = k + 2
      OBVIOUS
    <2> QED BY <2>2, <2>4, <2>5
  <1>3. Nat \subseteq S
    <2> HIDE DEF S
    <2> QED BY <1>1, <1>2, SetInduction
  <1>4. ASSUME NEW i \in Nat \ {0}, i <= Len(p), i <= Len(q) PROVE p[i] = q[i]
    <2>1. i - 1 \in S /\ (i - 1) + 1 = i
      BY <1>3
    <2> QED BY <2>1, <1>4
  <1>5. ~ (Len(p) < Len(q))
    <2> SUFFICES ASSUME Len(p) < Len(q) PROVE FALSE
      OBVIOUS
    <2>1. CASE Len(p) = 0
      BY <2>1, <1>0 DEF IsChain
    <2>2. CASE Len(p) # 0
      <3>1. p[Len(p)] = q[Len(p)]
        BY <2>2, <1>0, <1>4
      <3>2. next[p[Len(p)]] = Null
        BY <2>2, <1>0 DEF IsChain
      <3>3. next[q[Len(p)]] = q[Len(p) + 1]
        BY <2>2, <1>0 DEF IsChain
      <3> QED BY <3>1, <3>2, <3>3, <1>0
    <2> QED BY <2>1, <2>2
  <1>6. ~ (Len(q) < Len(p))
    <2> SUFFICES ASSUME Len(q) < Len(p) PROVE FALSE
      OBVIOUS
    <2>1. CASE Len(q) = 0
      BY <2>1, <1>0 DEF IsChain
    <2>2. CASE Len(q) # 0
      <3>1. p[Len(q)] = q[Len(q)]
        BY <2>2, <1>0, <1>4
      <3>2. next[q[Len(q)]] = Null
        BY <2>2, <1>0 DEF IsChain
      <3>3. next[p[Len(q)]] = p[Len(q) + 1]
        BY <2>2, <1>0 DEF IsChain
      <3> QED BY <3>1, <3>2, <3>3, <1>0
    <2> QED BY <2>1, <2>2
  <1>7. Len(p) = Len(q)
    <2>1. Len(p) \in Nat /\ Len(q) \in Nat
      BY ChainType
    <2> QED BY <2>1, <1>5, <1>6
  <1>8. \A i \in 1 .. Len(p) : p[i] = q[i]
    BY <1>0, <1>4, <1>7
  <1>9. p \in [1 .. Len(p) -> Tasks] /\ q \in [1 .. Len(p) -> Tasks]
    BY <1>0, <1>7
  <1> QED BY <1>8, <1>9

-----------------------------------------------------------------------------

Queued(q) == {q[i] : i \in 1 .. Len(q)}
Busy == {executing[w] : w \in Running}

\* The list is q, and q and the workers share the tasks of the pool.
FifoIs(q) ==
    /\ IsChain(q)
    /\ taskTail = IF q = <<>> THEN Null ELSE q[Len(q)]
    /\ \A i, j \in 1 .. Len(q) : q[i] = q[j] => i = j
    /\ Queued(q) \cap Busy = {}
    /\ owned = Queued(q) \cup Busy
    /\ \A t \in Tasks : next[t] # Null => t \in owned

\* Each executing worker has a task of its own; sleepers execute nothing.
WorkersOK ==
    /\ \A w \in Workers : worker[w] = "running" <=> executing[w] # Null
    /\ \A v, w \in Running : executing[v] = executing[w] => v = w
    /\ \A w \in taskAvailable : worker[w] = "waiting"

\* What a client inside a method has passed to it.
ArgumentsOK ==
    \A c \in Clients :
        /\ client[c] = "creating" => argument[c] \in 1 .. Cardinality(Workers)
        /\ client[c] \in {"queueing", "waitingTask"} => argument[c] \in Tasks

IInv ==
    /\ TypeOK
    /\ WorkersOK
    /\ ArgumentsOK
    /\ RunningExact
    /\ NoIdleWorkerForgotten
    /\ \E q \in Chains : FifoIs(q)

LEMMA Counts ==
    /\ IsFiniteSet(Workers) /\ Cardinality(Workers) \in Nat
    /\ IsFiniteSet(Running) /\ Cardinality(Running) \in Nat
    /\ Cardinality(Running) <= Cardinality(Workers)
    /\ Cardinality(Running) = 0 <=> Running = {}
  <1>1. Running \in SUBSET Workers
    BY DEF Running
  <1> QED BY <1>1, ThreadPoolAssumption, FS_CardinalityType, FS_Subset, FS_EmptySet

\* An invariant list is empty exactly when the head is null.
LEMMA HeadOfChain ==
    ASSUME TypeOK, NEW q \in Chains, FifoIs(q)
    PROVE  /\ taskHead = Null <=> q = <<>>
           /\ taskHead # Null => /\ taskHead \in Tasks /\ taskHead = q[1]
                                 /\ 1 \in 1 .. Len(q) /\ Len(q) \in 1 .. Len(q)
                                 /\ taskTail = q[Len(q)] /\ taskTail \in Tasks
           /\ taskHead = Null => taskTail = Null
  BY ChainType, ThreadPoolAssumption DEF FifoIs, IsChain, TypeOK

LEMMA EmptyChain == << >> \in Chains /\ Queued(<< >>) = {}
  <1>1. \A i, j \in 1 .. Len(<< >>) : <<>>[i] = <<>>[j] => i = j
    OBVIOUS
  <1>2. << >> \in Chains
    BY <1>1, ChainIntro, EmptySeq
  <1>3. Queued(<< >>) = {}
    BY DEF Queued
  <1> QED BY <1>2, <1>3

LEMMA InitInvariant == Init => IInv
  <1> SUFFICES ASSUME Init PROVE IInv
    OBVIOUS
  <1>1. TypeOK
    <2>1. 0 \in 0 .. SizeMax /\ 0 \in 0 .. Cardinality(Workers)
      BY ThreadPoolAssumption, Counts
    <2> QED BY <2>1 DEF Init, TypeOK, TaskOrNull, WorkerLocations, ClientLocations
  <1>2. Running = {} /\ Busy = {}
    BY DEF Init, Running, Busy
  <1>3. WorkersOK /\ ArgumentsOK /\ NoIdleWorkerForgotten
    BY <1>2 DEF Init, WorkersOK, ArgumentsOK, NoIdleWorkerForgotten
  <1>4. RunningExact
    BY <1>2, FS_EmptySet DEF Init, RunningExact
  <1>5. << >> \in Chains
    BY EmptyChain
  <1>6. FifoIs(<< >>)
    <2>1. Queued(<< >>) = {}
      BY DEF Queued
    <2> QED BY <1>2, <2>1 DEF Init, FifoIs, IsChain
  <1> QED BY <1>1, <1>3, <1>4, <1>5, <1>6 DEF IInv

\* A step that leaves the tasks, the pointers and the executing workers alone
\* keeps the list.
LEMMA SameFifo ==
    ASSUME NEW q, FifoIs(q),
           UNCHANGED <<taskHead, taskTail, next, owned, executing>>,
           Running' = Running
    PROVE  FifoIs(q)'
  <1>1. Busy' = Busy
    BY DEF Busy
  <1>2. IsChain(q)' <=> IsChain(q)
    BY DEF IsChain
  <1> QED BY <1>1, <1>2 DEF FifoIs, Queued


\* What a step may do to the list and to the set of executing tasks.
ListStep ==
    \E q, r \in Chains :
        /\ FifoIs(q) /\ FifoIs(r)'
        /\ \/ r = q /\ Busy' = Busy
           \/ q # <<>> /\ r = Tail(q) /\ Busy' = Busy \cup {Head(q)}
           \/ r = q /\ \E e \in Busy : Busy' = Busy \ {e}
           \/ /\ \E t \in Tasks : t \notin Queued(q) \cup Busy /\ r = Append(q, t)
              /\ Busy' = Busy
           \/ r = <<>> /\ Busy' = Busy

LEMMA KeptList ==
    ASSUME IInv,
           UNCHANGED <<taskHead, taskTail, next, owned, executing>>,
           Running' = Running
    PROVE  ListStep
  <1>1. PICK q \in Chains : FifoIs(q)
    BY DEF IInv
  <1>2. FifoIs(q)'
    BY <1>1, SameFifo
  <1>3. Busy' = Busy
    BY DEF Busy
  <1> QED BY <1>1, <1>2, <1>3 DEF ListStep

-----------------------------------------------------------------------------

LEMMA ExitStep ==
    ASSUME IInv, NEW w \in Workers, WorkerExit(w)
    PROVE  IInv'
  <1>1. Running' = Running
    BY DEF WorkerExit, Running, IInv, TypeOK
  <1>2. TypeOK'
    <2>1. Minus1(numWorkerThreads) \in 0 .. SizeMax
      BY ThreadPoolAssumption DEF Minus1, IInv, TypeOK
    <2>2. taskCompleted' \in SUBSET Clients
      BY DEF WorkerExit, Signal, IInv, TypeOK
    <2> QED BY <2>1, <2>2 DEF WorkerExit, WorkersLeft, IInv, TypeOK, WorkerLocations
  <1>3. WorkersOK'
    BY <1>1 DEF WorkerExit, WorkersOK, IInv, TypeOK, WorkerLocations
  <1>4. ArgumentsOK'
    BY DEF WorkerExit, IInv, ArgumentsOK
  <1>5. RunningExact' /\ NoIdleWorkerForgotten'
    BY <1>1 DEF WorkerExit, IInv, RunningExact, NoIdleWorkerForgotten
  <1>6. \E q \in Chains : FifoIs(q)'
    BY <1>1, SameFifo DEF WorkerExit, IInv
  <1> QED BY <1>2, <1>3, <1>4, <1>5, <1>6 DEF IInv, Chains

LEMMA SleepStep ==
    ASSUME IInv, NEW w \in Workers, WorkerSleep(w)
    PROVE  IInv'
  <1>1. Running' = Running
    BY DEF WorkerSleep, Running
  <1>2. TypeOK' /\ WorkersOK' /\ ArgumentsOK'
    BY <1>1 DEF WorkerSleep, pool, IInv, TypeOK, WorkersOK, ArgumentsOK
  <1>3. RunningExact' /\ NoIdleWorkerForgotten'
    BY <1>1 DEF WorkerSleep, pool, IInv, RunningExact, NoIdleWorkerForgotten
  <1>4. \E q \in Chains : FifoIs(q)'
    BY <1>1, SameFifo DEF WorkerSleep, pool, IInv
  <1> QED BY <1>2, <1>3, <1>4 DEF IInv, Chains


LEMMA GrabStep ==
    ASSUME IInv, NEW w \in Workers, WorkerGrab(w)
    PROVE  IInv' /\ ListStep
  <1>1. PICK q \in Chains : FifoIs(q)
    BY DEF IInv
  <1>2. /\ q \in Seq(Tasks) /\ Len(q) \in Nat \ {0} /\ q \in [1 .. Len(q) -> Tasks]
        /\ taskHead = q[1] /\ taskHead \in Tasks /\ q # <<>>
        /\ taskTail = q[Len(q)] /\ taskTail \in Tasks
        /\ next[q[Len(q)]] = Null
        /\ \A i \in 1 .. Len(q) - 1 : next[q[i]] = q[i + 1]
        /\ Null \notin Tasks
    BY <1>1, ChainType, HeadOfChain, ThreadPoolAssumption
    DEF WorkerGrab, IInv, FifoIs, IsChain
  <1> DEFINE r == Tail(q)
  <1>3. /\ r \in Seq(Tasks) /\ Len(r) = Len(q) - 1
        /\ \A i \in 1 .. Len(r) : r[i] = q[i + 1]
        /\ Len(r) \in Nat
    BY <1>2, HeadTailProperties
  <1>4. r = <<>> <=> Len(q) = 1
    BY <1>2, <1>3, EmptySeq
  <1>5. /\ executing' = [executing EXCEPT ![w] = taskHead]
        /\ worker' = [worker EXCEPT ![w] = "running"]
        /\ worker[w] = "waiting" /\ w \notin taskAvailable /\ ~stopRequested
        /\ UNCHANGED <<next, owned, numWorkerThreads, stopRequested,
                       taskAvailable, taskCompleted, client, argument, idx>>
        /\ numRunningTasks' = numRunningTasks + 1
        /\ taskHead' = next[taskHead]
        /\ taskTail' = IF next[taskHead] = Null THEN Null ELSE taskTail
    BY DEF WorkerGrab, TailAfterGrab
  <1>6. Running' = Running \cup {w} /\ w \notin Running
    BY <1>5 DEF Running, IInv, TypeOK
  <1>7. Busy' = Busy \cup {taskHead}
    BY <1>5, <1>6 DEF Busy, Running, IInv, TypeOK
  <1>8. Queued(q) = Queued(r) \cup {taskHead} /\ taskHead \notin Queued(r)
    <2>1. ASSUME NEW i \in 1 .. Len(r)
          PROVE  /\ i + 1 \in 1 .. Len(q) /\ r[i] = q[i + 1]
                 /\ r[i] \in Queued(q) /\ r[i] # taskHead
      <3>1. i + 1 \in 1 .. Len(q) /\ r[i] = q[i + 1] /\ i + 1 # 1 /\ 1 \in 1 .. Len(q)
        BY <1>2, <1>3
      <3>2. q[i + 1] # q[1]
        BY <3>1, <1>1 DEF FifoIs
      <3> QED BY <3>1, <3>2, <1>2 DEF Queued
    <2>2. ASSUME NEW i \in 1 .. Len(q), i # 1 PROVE q[i] \in Queued(r)
      <3>1. i - 1 \in 1 .. Len(r) /\ r[i - 1] = q[i]
        BY <1>2, <1>3, <2>2
      <3> HIDE DEF r
      <3> QED BY <3>1 DEF Queued
    <2>3. taskHead \in Queued(q)
      BY <1>2 DEF Queued
    <2> HIDE DEF r
    <2>4. taskHead \notin Queued(r) /\ Queued(r) \subseteq Queued(q)
      BY <2>1 DEF Queued
    <2>5. ASSUME NEW t \in Queued(q), t # taskHead PROVE t \in Queued(r)
      <3>1. PICK i \in 1 .. Len(q) : t = q[i]
        BY DEF Queued
      <3> QED BY <3>1, <2>2, <2>5, <1>2
    <2> QED BY <2>3, <2>4, <2>5
  <1>9. FifoIs(r)'
    <2>1. IsChain(r)'
      <3>1. r = <<>> => taskHead' = Null
        BY <1>2, <1>4, <1>5
      <3>2. r # <<>> => /\ taskHead' = r[1] /\ next'[r[Len(r)]] = Null
        <4> SUFFICES ASSUME r # <<>> PROVE taskHead' = r[1] /\ next'[r[Len(r)]] = Null
          OBVIOUS
        <4>1. Len(q) > 1
          BY <1>2, <1>4
        <4>2. taskHead' = q[2] /\ r[1] = q[2] /\ r[Len(r)] = q[Len(q)]
          BY <4>1, <1>2, <1>3, <1>5
        <4> QED BY <4>2, <1>2, <1>5
      <3>3. \A i \in 1 .. Len(r) - 1 : next'[r[i]] = r[i + 1]
        <4> SUFFICES ASSUME NEW i \in 1 .. Len(r) - 1 PROVE next'[r[i]] = r[i + 1]
          OBVIOUS
        <4>1. r[i] = q[i + 1] /\ r[i + 1] = q[i + 1 + 1] /\ i + 1 \in 1 .. Len(q) - 1
          BY <1>2, <1>3
        <4> QED BY <4>1, <1>2, <1>5
      <3> HIDE DEF r
      <3> QED BY <3>1, <3>2, <3>3 DEF IsChain
    <2>2. (taskTail = IF r = <<>> THEN Null ELSE r[Len(r)])'
      <3>1. CASE Len(q) = 1
        BY <3>1, <1>2, <1>4, <1>5
      <3>2. CASE Len(q) > 1
        <4>1. next[taskHead] = q[2] /\ q[2] \in Tasks /\ r[Len(r)] = q[Len(q)]
          BY <3>2, <1>2, <1>3
        <4> QED BY <4>1, <3>2, <1>2, <1>4, <1>5
      <3> QED BY <3>1, <3>2, <1>2
    <2>3. \A i, j \in 1 .. Len(r) : r[i] = r[j] => i = j
      <3> SUFFICES ASSUME NEW i \in 1 .. Len(r), NEW j \in 1 .. Len(r), r[i] = r[j]
                   PROVE  i = j
        OBVIOUS
      <3>1. q[i + 1] = q[j + 1] /\ i + 1 \in 1 .. Len(q) /\ j + 1 \in 1 .. Len(q)
        BY <1>2, <1>3
      <3>2. i + 1 = j + 1
        BY <3>1, <1>1 DEF FifoIs
      <3> QED BY <3>2, <1>3
    <2>4. Queued(r) \cap Busy' = {} /\ owned' = Queued(r) \cup Busy'
      <3> HIDE DEF r
      <3> QED BY <1>1, <1>5, <1>7, <1>8 DEF FifoIs
    <2>5. (\A t \in Tasks : next[t] # Null => t \in owned)'
      BY <1>1, <1>5 DEF FifoIs
    <2> HIDE DEF r
    <2> QED BY <2>1, <2>2, <2>3, <2>4, <2>5 DEF FifoIs, Queued
  <1>10. r \in Chains
    <2>1. \A i, j \in 1 .. Len(r) : r[i] = r[j] => i = j
      BY <1>9 DEF FifoIs
    <2> HIDE DEF r
    <2> QED BY <2>1, <1>3, ChainIntro
  <1>11. RunningExact'
    <2>1. Cardinality(Running \cup {w}) = Cardinality(Running) + 1
      BY <1>6, Counts, FS_AddElement
    <2> QED BY <2>1, <1>5, <1>6 DEF IInv, RunningExact
  <1>12. TypeOK'
    <2>1. numRunningTasks' \in 0 .. SizeMax
      <3>1. Running' \in SUBSET Workers
        BY DEF Running
      <3>2. Cardinality(Running') \in Nat /\ Cardinality(Running') <= Cardinality(Workers)
        BY <3>1, Counts, FS_Subset, FS_CardinalityType
      <3> QED BY <3>2, <1>11, Counts, ThreadPoolAssumption DEF RunningExact
    <2> QED BY <2>1, <1>2, <1>5 DEF IInv, TypeOK, TaskOrNull, WorkerLocations
  <1>13. WorkersOK'
    <2>1. taskHead \notin Busy
      BY <1>1, <1>8 DEF FifoIs
    <2>2. \A v \in Running : v # w /\ executing'[v] = executing[v]
      BY <1>5, <1>6 DEF Running, IInv, TypeOK
    <2>3. executing'[w] = taskHead
      BY <1>5 DEF IInv, TypeOK
    <2>4. (\A v, u \in Running : executing[v] = executing[u] => v = u)'
      BY <1>6, <2>1, <2>2, <2>3 DEF IInv, WorkersOK, Busy
    <2>5. (\A v \in Workers : worker[v] = "running" <=> executing[v] # Null)'
      BY <1>2, <1>5 DEF IInv, WorkersOK, TypeOK
    <2>6. (\A v \in taskAvailable : worker[v] = "waiting")'
      BY <1>5 DEF IInv, WorkersOK, TypeOK
    <2> QED BY <2>4, <2>5, <2>6 DEF WorkersOK
  <1>14. ArgumentsOK' /\ NoIdleWorkerForgotten'
    BY <1>2, <1>5 DEF IInv, ArgumentsOK, NoIdleWorkerForgotten
  <1>15. Head(q) = taskHead
    BY <1>2
  <1> HIDE DEF r
  <1>16. IInv'
    BY <1>9, <1>10, <1>11, <1>12, <1>13, <1>14 DEF IInv, Chains
  <1>17. r = Tail(q)
    BY DEF r
  <1>18. ListStep
    BY <1>1, <1>2, <1>7, <1>9, <1>10, <1>15, <1>17 DEF ListStep
  <1> QED BY <1>16, <1>18


LEMMA FinishStep ==
    ASSUME IInv, NEW w \in Workers, WorkerFinish(w)
    PROVE  IInv' /\ ListStep
  <1> DEFINE e == executing[w]
  <1>1. PICK q \in Chains : FifoIs(q)
    BY DEF IInv
  <1>2. /\ worker[w] = "running" /\ w \in Running
        /\ owned' = owned \ {e} /\ next' = [next EXCEPT ![e] = Null]
        /\ numRunningTasks' = Minus1(numRunningTasks)
        /\ worker' = [worker EXCEPT ![w] = "waiting"]
        /\ executing' = [executing EXCEPT ![w] = Null]
        /\ UNCHANGED <<taskHead, taskTail, numWorkerThreads, stopRequested,
                       taskAvailable, client, argument, idx>>
        /\ taskCompleted' \in SUBSET taskCompleted
    BY DEF WorkerFinish, AsleepAfterFinish, Signal, RunningLeft, Running
  <1>3. Running' = Running \ {w}
    BY <1>2 DEF Running, IInv, TypeOK
  <1>4. e \in Tasks /\ e \in Busy
    BY <1>2 DEF Busy, IInv, TypeOK, WorkersOK, TaskOrNull
  <1>5. \A v \in Running : v # w => executing[v] # e /\ executing'[v] = executing[v]
    BY <1>2 DEF Running, IInv, TypeOK, WorkersOK
  <1>6. Busy' = Busy \ {e}
    BY <1>3, <1>5, <1>2 DEF Busy
  <1>7. e \notin Queued(q)
    BY <1>1, <1>4 DEF FifoIs
  <1>8. FifoIs(q)'
    <2>1. \A i \in 1 .. Len(q) : q[i] # e /\ next'[q[i]] = next[q[i]]
      <3> SUFFICES ASSUME NEW i \in 1 .. Len(q) PROVE q[i] # e /\ next'[q[i]] = next[q[i]]
        OBVIOUS
      <3>1. q[i] \in Tasks /\ q[i] # e
        BY <1>7, ChainType DEF Queued
      <3> QED BY <3>1, <1>2 DEF IInv, TypeOK
    <2>2. IsChain(q)'
      <3>1. q # <<>> => Len(q) \in 1 .. Len(q)
        BY ChainType
      <3>2. \A i \in 1 .. Len(q) - 1 : i \in 1 .. Len(q)
        BY ChainType
      <3> QED BY <3>1, <3>2, <2>1, <1>1, <1>2 DEF FifoIs, IsChain
    <2>3. (Queued(q) \cap Busy = {} /\ owned = Queued(q) \cup Busy)'
      BY <1>1, <1>2, <1>6, <1>7 DEF FifoIs, Queued
    <2>4. (\A t \in Tasks : next[t] # Null => t \in owned)'
      BY <1>1, <1>2 DEF FifoIs, IInv, TypeOK
    <2> QED BY <2>2, <2>3, <2>4, <1>1, <1>2 DEF FifoIs
  <1>9. RunningExact'
    <2>1. Cardinality(Running \ {w}) = Cardinality(Running) - 1
      BY <1>2, Counts, FS_RemoveElement
    <2>2. Cardinality(Running) # 0
      BY <1>2, Counts
    <2> QED BY <2>1, <2>2, <1>2, <1>3, Counts DEF IInv, RunningExact, Minus1
  <1>10. TypeOK'
    <2>1. numRunningTasks' \in 0 .. SizeMax
      BY <1>2, ThreadPoolAssumption DEF Minus1, IInv, TypeOK
    <2> QED BY <2>1, <1>2, <1>4 DEF IInv, TypeOK, TaskOrNull, WorkerLocations
  <1>11. WorkersOK'
    BY <1>2, <1>3, <1>5 DEF IInv, TypeOK, WorkersOK, WorkerLocations
  <1>12. ArgumentsOK' /\ NoIdleWorkerForgotten'
    BY <1>2 DEF IInv, ArgumentsOK, NoIdleWorkerForgotten
  <1>13. IInv'
    BY <1>8, <1>9, <1>10, <1>11, <1>12 DEF IInv, Chains
  <1>14. ListStep
    BY <1>1, <1>4, <1>6, <1>8 DEF ListStep
  <1> QED BY <1>13, <1>14

LEMMA WorkerStepInvariant ==
    ASSUME IInv, NEW w \in Workers, WorkerStep(w)
    PROVE  IInv'
  BY ExitStep, SleepStep, GrabStep, FinishStep DEF WorkerStep

-----------------------------------------------------------------------------

\* The client steps that touch neither the tasks nor the workers.
LEMMA ClientOnly ==
    ASSUME IInv, TypeOK', ArgumentsOK',
           UNCHANGED <<taskHead, taskTail, next, owned, numRunningTasks, stopRequested,
                       taskAvailable, worker, executing>>
    PROVE  IInv'
  <1>1. Running' = Running
    BY DEF Running
  <1>2. WorkersOK' /\ RunningExact' /\ NoIdleWorkerForgotten'
    BY <1>1 DEF IInv, WorkersOK, RunningExact, NoIdleWorkerForgotten
  <1>3. \E q \in Chains : FifoIs(q)'
    BY <1>1, SameFifo DEF IInv
  <1> QED BY <1>2, <1>3 DEF IInv, Chains

\* Moving a client keeps the types of what it leaves alone.
LEMMA GoesType ==
    ASSUME IInv, NEW c \in Clients, NEW from, NEW to \in ClientLocations, Goes(c, from, to)
    PROVE  /\ client' \in [Clients -> ClientLocations]
           /\ client'[c] = to
           /\ \A d \in Clients : d # c => client'[d] = client[d]
  BY DEF Goes, IInv, TypeOK

LEMMA CreateStep ==
    ASSUME IInv, NEW c \in Clients, Create(c)
    PROVE  IInv'
  <1>1. PICK n \in CreateSizes : argument' = [argument EXCEPT ![c] = n]
    BY DEF Create
  <1>2. n \in 1 .. Cardinality(Workers)
    <2>1. Workers \ Live \in SUBSET Workers
      OBVIOUS
    <2>2. Cardinality(Workers \ Live) \in Nat /\ Cardinality(Workers \ Live) <= Cardinality(Workers)
      BY <2>1, Counts, FS_Subset, FS_CardinalityType
    <2> QED BY <2>2, Counts DEF CreateSizes
  <1>3. client' \in [Clients -> ClientLocations] /\ client'[c] = "creating"
        /\ \A d \in Clients : d # c => client'[d] = client[d]
    BY GoesType DEF Create, ClientLocations
  <1>4. 0 \in 0 .. Cardinality(Workers)
    BY Counts
  <1>5. TypeOK'
    BY <1>1, <1>2, <1>3, <1>4 DEF Create, pool, IInv, TypeOK
  <1>6. ArgumentsOK'
    BY <1>1, <1>2, <1>3 DEF IInv, TypeOK, ArgumentsOK
  <1> QED BY <1>5, <1>6, ClientOnly DEF Create, pool

LEMMA CreateThreadStep ==
    ASSUME IInv, NEW c \in Clients, CreateThread(c)
    PROVE  IInv'
  <1>1. PICK w \in Workers \ Live : worker' = [worker EXCEPT ![w] = "waiting"]
    BY DEF CreateThread
  <1>2. worker[w] = "none" /\ w \notin Running
    BY <1>1 DEF Live, Running
  <1>3. Running' = Running
    BY <1>1, <1>2 DEF Running, IInv, TypeOK
  <1>4. TypeOK'
    <2>1. idx' \in 0 .. Cardinality(Workers)
      BY Counts DEF CreateThread, IInv, TypeOK, ArgumentsOK
    <2> QED BY <2>1, <1>1 DEF CreateThread, pool, IInv, TypeOK, WorkerLocations
  <1>5. WorkersOK'
    BY <1>1, <1>2, <1>3 DEF CreateThread, IInv, TypeOK, WorkersOK
  <1>6. ArgumentsOK' /\ RunningExact' /\ NoIdleWorkerForgotten'
    BY <1>3 DEF CreateThread, pool, IInv, ArgumentsOK, RunningExact, NoIdleWorkerForgotten
  <1>7. \E q \in Chains : FifoIs(q)'
    BY <1>3, SameFifo DEF CreateThread, pool, IInv
  <1> QED BY <1>4, <1>5, <1>6, <1>7 DEF IInv, Chains

LEMMA CreateEndStep ==
    ASSUME IInv, NEW c \in Clients, CreateFailed(c) \/ CreateDone(c)
    PROVE  IInv'
  <1>1. /\ client[c] = "creating" /\ Goes(c, "creating", "idle")
        /\ argument' = [argument EXCEPT ![c] = Null]
        /\ idx' = 0
        /\ UNCHANGED <<taskHead, taskTail, next, owned, numRunningTasks, stopRequested,
                       taskAvailable, taskCompleted, worker, executing>>
        /\ numWorkerThreads' \in {numWorkerThreads, argument[c]}
    BY DEF CreateFailed, CreateDone, Goes, pool
  <1>2. client' \in [Clients -> ClientLocations] /\ client'[c] = "idle"
        /\ \A d \in Clients : d # c => client'[d] = client[d]
    BY <1>1, GoesType DEF ClientLocations
  <1>3. argument[c] \in 0 .. SizeMax
    BY <1>1, Counts, ThreadPoolAssumption DEF IInv, ArgumentsOK
  <1>4. 0 \in 0 .. Cardinality(Workers)
    BY Counts
  <1>5. TypeOK'
    BY <1>1, <1>2, <1>3, <1>4 DEF IInv, TypeOK, TaskOrNull
  <1>6. ArgumentsOK'
    BY <1>1, <1>2 DEF IInv, TypeOK, ArgumentsOK
  <1> QED BY <1>1, <1>5, <1>6, ClientOnly

\* The unlocked beginnings of queueTask and waitForTask.
LEMMA EnterStep ==
    ASSUME IInv, NEW c \in Clients, QueueTask(c) \/ WaitForTask(c)
    PROVE  IInv'
  <1>1. PICK to \in {"queueing", "waitingTask"} : Goes(c, "idle", to)
    BY DEF QueueTask, WaitForTask
  <1>2. PICK t \in Tasks : argument' = [argument EXCEPT ![c] = t]
    BY DEF QueueTask, WaitForTask
  <1>3. UNCHANGED <<pool, taskAvailable, taskCompleted, worker, executing, idx>>
    BY DEF QueueTask, WaitForTask
  <1>4. client' \in [Clients -> ClientLocations] /\ client'[c] = to
        /\ \A d \in Clients : d # c => client'[d] = client[d]
    BY <1>1, GoesType DEF ClientLocations
  <1>5. TypeOK'
    BY <1>2, <1>3, <1>4 DEF pool, IInv, TypeOK, TaskOrNull
  <1>6. ArgumentsOK'
    BY <1>2, <1>4 DEF IInv, TypeOK, ArgumentsOK
  <1> QED BY <1>3, <1>5, <1>6, ClientOnly DEF pool

\* The steps in which a client tests a wait condition, sleeps or goes on.
LEMMA WaitStep ==
    ASSUME IInv, NEW c \in Clients,
           \/ WaitForTaskLoop(c) \/ WaitForAllTasks(c) \/ WaitForAllTasksLoop(c)
           \/ DestroyWait(c)
    PROVE  IInv'
  <1>1. PICK from, to \in ClientLocations :
            /\ Goes(c, from, to)
            /\ to \in {"queueing", "waitingTask"} => to = from
            /\ to # "creating"
    BY DEF WaitForTaskLoop, WaitForAllTasks, WaitForAllTasksLoop, DestroyWait,
           WaitAllEnter, WaitAllLoop, ClientLocations
  <1>2. /\ UNCHANGED <<pool, taskAvailable, worker, executing, idx>>
        /\ taskCompleted' \in {taskCompleted, taskCompleted \cup {c}}
    BY DEF WaitForTaskLoop, WaitForAllTasks, WaitForAllTasksLoop, DestroyWait,
           WaitAllEnter, WaitAllLoop
  <1>3. \/ argument' = argument
        \/ argument' = [argument EXCEPT ![c] = Null] /\ client'[c] = "idle"
    <2>1. CASE WaitForTaskLoop(c)
      <3>1. CASE argument' = argument
        BY <3>1
      <3>2. CASE Goes(c, "waitingTask", "idle") /\ argument' = [argument EXCEPT ![c] = Null]
        BY <3>2, GoesType DEF ClientLocations
      <3> QED BY <2>1, <3>1, <3>2 DEF WaitForTaskLoop
    <2>2. CASE WaitForAllTasks(c) \/ WaitForAllTasksLoop(c) \/ DestroyWait(c)
      BY <2>2 DEF WaitForAllTasks, WaitForAllTasksLoop, DestroyWait
    <2> QED BY <2>1, <2>2
  <1>4. client' \in [Clients -> ClientLocations] /\ client'[c] = to /\ client[c] = from
        /\ \A d \in Clients : d # c => client'[d] = client[d]
    BY <1>1, GoesType DEF Goes
  <1>5. argument' \in [Clients -> TaskOrNull \cup (1 .. Cardinality(Workers))]
    BY <1>3 DEF IInv, TypeOK, TaskOrNull
  <1>6. TypeOK'
    BY <1>2, <1>4, <1>5 DEF pool, IInv, TypeOK
  <1>7. ArgumentsOK'
    <2> SUFFICES ASSUME NEW d \in Clients
                 PROVE  (/\ client[d] = "creating" => argument[d] \in 1 .. Cardinality(Workers)
                         /\ client[d] \in {"queueing", "waitingTask"} => argument[d] \in Tasks)'
      BY DEF ArgumentsOK
    <2>1. CASE d # c
      BY <2>1, <1>3, <1>4 DEF IInv, TypeOK, ArgumentsOK
    <2>2. CASE d = c
      BY <2>2, <1>1, <1>3, <1>4 DEF IInv, TypeOK, ArgumentsOK
    <2> QED BY <2>1, <2>2
  <1> QED BY <1>2, <1>6, <1>7, ClientOnly DEF pool

LEMMA SpuriousStep ==
    ASSUME IInv, SpuriousWakeup
    PROVE  IInv'
  <1>1. /\ taskAvailable' \subseteq taskAvailable /\ taskCompleted' \subseteq taskCompleted
        /\ UNCHANGED <<pool, worker, executing, client, argument, idx>>
    BY DEF SpuriousWakeup
  <1>2. Running' = Running
    BY <1>1 DEF Running
  <1>3. TypeOK' /\ WorkersOK' /\ ArgumentsOK' /\ RunningExact' /\ NoIdleWorkerForgotten'
    BY <1>1, <1>2 DEF pool, IInv, TypeOK, WorkersOK, ArgumentsOK, RunningExact,
                      NoIdleWorkerForgotten
  <1>4. \E q \in Chains : FifoIs(q)'
    BY <1>1, <1>2, SameFifo DEF pool, IInv
  <1> QED BY <1>3, <1>4 DEF IInv, Chains

LEMMA QueueStep ==
    ASSUME IInv, NEW c \in Clients, QueueLocked(c)
    PROVE  IInv' /\ ListStep
  <1>1. /\ client[c] = "queueing" /\ Goes(c, "queueing", "idle")
        /\ argument' = [argument EXCEPT ![c] = Null]
        /\ UNCHANGED <<taskCompleted, worker, executing, idx>>
    BY DEF QueueLocked, Goes
  <1>2. /\ client' \in [Clients -> ClientLocations] /\ client'[c] = "idle"
        /\ \A d \in Clients : d # c => client'[d] = client[d]
    BY <1>1, GoesType DEF ClientLocations
  <1>3. PICK t \in Tasks : t = argument[c]
    BY <1>1 DEF IInv, ArgumentsOK
  <1>4. ArgumentsOK'
    BY <1>1, <1>2 DEF IInv, TypeOK, ArgumentsOK
  <1>5. argument' \in [Clients -> TaskOrNull \cup (1 .. Cardinality(Workers))]
    BY <1>1 DEF IInv, TypeOK, TaskOrNull
  <1>6. CASE t \in owned
    <2>1. UNCHANGED <<pool, taskAvailable>>
      BY <1>3, <1>6 DEF QueueLocked, AlreadyQueued
    <2>2. TypeOK'
      BY <2>1, <1>1, <1>2, <1>5 DEF pool, IInv, TypeOK
    <2>3. IInv'
      BY <2>1, <2>2, <1>1, <1>4, ClientOnly DEF pool
    <2>4. Running' = Running
      BY <1>1 DEF Running
    <2> QED BY <2>1, <2>3, <2>4, <1>1, KeptList DEF pool
  <1>7. CASE t \notin owned
    <2>0. PICK q \in Chains : FifoIs(q)
      BY DEF IInv
    <2>1. /\ owned' = owned \cup {t}
          /\ taskHead' = IF taskHead = Null THEN t ELSE taskHead
          /\ next' = IF taskHead = Null THEN next ELSE [next EXCEPT ![taskTail] = t]
          /\ taskTail' = t
          /\ taskAvailable' = {}
          /\ UNCHANGED <<numRunningTasks, numWorkerThreads, stopRequested>>
      BY <1>3, <1>7 DEF QueueLocked, AlreadyQueued, Enqueue, WorkersAsleepAfterBroadcast, Broadcast
    <2>2. /\ q \in Seq(Tasks) /\ Len(q) \in Nat
          /\ q = <<>> <=> Len(q) = 0
          /\ \A i \in 1 .. Len(q) : q[i] \in Tasks
          /\ taskHead = Null <=> q = <<>>
          /\ taskHead # Null => /\ taskHead = q[1] /\ taskTail = q[Len(q)]
                                /\ taskTail \in Tasks
          /\ Null \notin Tasks
      BY <2>0, ChainType, HeadOfChain, ThreadPoolAssumption DEF IInv
    <2>3. PICK r : r = Append(q, t)
      OBVIOUS
    <2>30. /\ r \in Seq(Tasks) /\ Len(r) = Len(q) + 1 /\ r # <<>>
           /\ \A i \in 1 .. Len(q) : r[i] = q[i]
      BY <2>2, <2>3, <1>3, AppendProperties
    <2>32. r[Len(q) + 1] = t
      BY <2>2, <2>3, <1>3, AppendProperties
    <2>33. Len(r) \in Nat /\ Len(r) = Len(q) + 1 /\ Len(q) \in Nat
      BY <2>2, <2>30
    <2>34. r[Len(r)] = t
      BY <2>32, <2>33
    <2>31. /\ r \in Seq(Tasks) /\ Len(r) = Len(q) + 1 /\ r # <<>>
           /\ \A i \in 1 .. Len(q) : r[i] = q[i]
           /\ r[Len(q) + 1] = t /\ r[Len(r)] = t
      BY <2>30, <2>32, <2>34
    <2>4. Running' = Running /\ Busy' = Busy
      BY <1>1 DEF Running, Busy
    <2>5. \A i \in 1 .. Len(q) : q[i] # t
      BY <2>0, <1>7 DEF FifoIs, Queued
    <2>6. \A i, j \in 1 .. Len(r) : r[i] = r[j] => i = j
      <3> SUFFICES ASSUME NEW i \in 1 .. Len(r), NEW j \in 1 .. Len(r), r[i] = r[j]
                   PROVE  i = j
        OBVIOUS
      <3>1. CASE i <= Len(q) /\ j <= Len(q)
        <4>1. i \in 1 .. Len(q) /\ j \in 1 .. Len(q)
          BY <3>1, <2>2, <2>31
        <4> QED BY <4>1, <2>0, <2>31 DEF FifoIs
      <3>2. CASE i <= Len(q) /\ j > Len(q)
        <4>1. i \in 1 .. Len(q) /\ j = Len(q) + 1
          BY <3>2, <2>2, <2>31
        <4> QED BY <4>1, <2>31, <2>5
      <3>3. CASE i > Len(q) /\ j <= Len(q)
        <4>1. j \in 1 .. Len(q) /\ i = Len(q) + 1
          BY <3>3, <2>2, <2>31
        <4> QED BY <4>1, <2>31, <2>5
      <3>4. CASE i > Len(q) /\ j > Len(q)
        BY <3>4, <2>2, <2>31
      <3> QED BY <3>1, <3>2, <3>3, <3>4, <2>2, <2>31
    <2>7. r \in Chains
      BY <2>31, <2>6, ChainIntro
    <2>8. Queued(r) = Queued(q) \cup {t}
      <3>1. ASSUME NEW i \in 1 .. Len(r) PROVE r[i] \in Queued(q) \cup {t}
        <4>1. CASE i \in 1 .. Len(q)
          BY <4>1, <2>31 DEF Queued
        <4>2. CASE i = Len(q) + 1
          BY <4>2, <2>31
        <4> QED BY <4>1, <4>2, <2>2, <2>31
      <3>2. ASSUME NEW i \in 1 .. Len(q) PROVE q[i] \in Queued(r)
        <4>1. i \in 1 .. Len(r) /\ r[i] = q[i]
          BY <2>2, <2>31
        <4> QED BY <4>1 DEF Queued
      <3>3. t \in Queued(r)
        <4>1. Len(q) + 1 \in 1 .. Len(r)
          BY <2>2, <2>31
        <4> QED BY <4>1, <2>31 DEF Queued
      <3> QED BY <3>1, <3>2, <3>3 DEF Queued
    <2>9. IsChain(r)'
      <3>1. taskHead' = r[1]
        <4>1. CASE Len(q) = 0
          BY <4>1, <2>1, <2>2, <2>31
        <4>2. CASE Len(q) # 0
          <5>1. 1 \in 1 .. Len(q)
            BY <4>2, <2>2
          <5> QED BY <5>1, <4>2, <2>1, <2>2, <2>31
        <4> QED BY <4>1, <4>2
      <3>2. next'[t] = Null
        <4>1. next[t] = Null
          BY <2>0, <1>3, <1>7 DEF FifoIs
        <4>2. taskHead # Null => taskTail # t
          <5>1. taskHead # Null => Len(q) \in 1 .. Len(q)
            BY <2>2
          <5> QED BY <5>1, <2>2, <2>5
        <4> QED BY <4>1, <4>2, <2>1, <1>3 DEF IInv, TypeOK
      <3>3. ASSUME NEW i \in 1 .. Len(r) - 1 PROVE next'[r[i]] = r[i + 1]
        <4>0. i \in 1 .. Len(q) /\ taskHead # Null /\ r[i] = q[i] /\ q[i] \in Tasks
          BY <2>2, <2>31
        <4>1. CASE i = Len(q)
          BY <4>0, <4>1, <2>1, <2>2, <2>31 DEF IInv, TypeOK
        <4>2. CASE i # Len(q)
          <5>1. i \in 1 .. Len(q) - 1 /\ i + 1 \in 1 .. Len(q) /\ Len(q) \in 1 .. Len(q)
            BY <4>0, <4>2, <2>2
          <5>2. next[q[i]] = q[i + 1]
            BY <5>1, <2>0 DEF FifoIs, IsChain
          <5>3. q[i] # taskTail
            BY <4>0, <4>2, <5>1, <2>0, <2>2 DEF FifoIs
          <5> QED BY <4>0, <5>1, <5>2, <5>3, <2>1, <2>2, <2>31 DEF IInv, TypeOK
        <4> QED BY <4>1, <4>2
      <3>4. r[Len(r)] = t
        BY <2>2, <2>31
      <3> QED BY <3>1, <3>2, <3>3, <3>4, <2>31 DEF IsChain
    <2>10. FifoIs(r)'
      <3>1. (taskTail = IF r = <<>> THEN Null ELSE r[Len(r)])'
        <4>1. taskTail' = t /\ r[Len(r)] = t
          BY <2>1, <2>2, <2>31
        <4>2. r # << >>
          BY <2>2, <2>31, EmptySeq
        <4> QED BY <4>1, <4>2
      <3>2. Queued(r) \cap Busy' = {} /\ owned' = Queued(r) \cup Busy'
        BY <2>0, <2>1, <2>4, <2>8, <1>7 DEF FifoIs
      <3>3. (\A u \in Tasks : next[u] # Null => u \in owned)'
        <4> SUFFICES ASSUME NEW u \in Tasks, next'[u] # Null PROVE u \in owned'
          OBVIOUS
        <4>1. CASE next[u] # Null
          BY <4>1, <2>0, <2>1 DEF FifoIs
        <4>2. CASE next[u] = Null
          <5>0. next \in [Tasks -> TaskOrNull]
            BY DEF IInv, TypeOK
          <5>1. taskHead # Null /\ u = taskTail
            <6>1. CASE taskHead = Null
              BY <6>1, <4>2, <2>1
            <6>2. CASE taskHead # Null
              BY <6>2, <5>0, <4>2, <2>1
            <6> QED BY <6>1, <6>2
          <5>2. Len(q) \in 1 .. Len(q)
            BY <5>1, <2>2
          <5> QED BY <5>1, <5>2, <2>0, <2>1, <2>2 DEF FifoIs, Queued
        <4> QED BY <4>1, <4>2
      <3> QED BY <2>6, <2>9, <3>1, <3>2, <3>3 DEF FifoIs, Queued
    <2>11. TypeOK'
      BY <2>1, <2>2, <1>1, <1>2, <1>3, <1>5 DEF IInv, TypeOK, TaskOrNull
    <2>12. WorkersOK' /\ RunningExact' /\ NoIdleWorkerForgotten'
      BY <2>1, <2>4, <1>1 DEF IInv, WorkersOK, RunningExact, NoIdleWorkerForgotten
    <2>13. IInv'
      BY <2>7, <2>10, <2>11, <2>12, <1>4 DEF IInv, Chains
    <2>14. t \notin Queued(q) \cup Busy
      BY <2>0, <1>7 DEF FifoIs
    <2>15. ListStep
      BY <2>0, <2>3, <2>4, <2>7, <2>10, <2>14 DEF ListStep
    <2> QED BY <2>13, <2>15
  <1> QED BY <1>6, <1>7

LEMMA DestroyStep ==
    ASSUME IInv, NEW c \in Clients, Destroy(c)
    PROVE  IInv' /\ ListStep
  <1>1. PICK q \in Chains :
            /\ IsChain(q)
            /\ owned' = owned \ Queued(q)
            /\ next' = [t \in Tasks |-> IF t \in Queued(q) THEN Null ELSE next[t]]
    BY DEF Destroy, Queued
  <1>2. PICK p \in Chains : FifoIs(p)
    BY DEF IInv
  <1>3. FifoIs(q)
    <2>1. p = q
      BY <1>1, <1>2, ChainUnique DEF IInv, FifoIs
    <2> QED BY <2>1, <1>2
  <1>4. /\ taskHead' = Null /\ taskTail' = Null /\ stopRequested' = TRUE
        /\ taskAvailable' = {}
        /\ UNCHANGED <<numRunningTasks, numWorkerThreads, taskCompleted, worker,
                       executing, argument, idx>>
        /\ client[c] = "idle" /\ Goes(c, "idle", "stopping")
    BY DEF Destroy, Goes, WorkersAsleepAfterBroadcast, Broadcast
  <1>5. /\ client' \in [Clients -> ClientLocations] /\ client'[c] = "stopping"
        /\ \A d \in Clients : d # c => client'[d] = client[d]
    BY <1>4, GoesType DEF ClientLocations
  <1>6. Running' = Running /\ Busy' = Busy
    BY <1>4 DEF Running, Busy
  <1>7. TypeOK'
    BY <1>1, <1>4, <1>5 DEF IInv, TypeOK, TaskOrNull
  <1>8. ArgumentsOK'
    BY <1>4, <1>5 DEF IInv, ArgumentsOK
  <1>9. WorkersOK' /\ RunningExact' /\ NoIdleWorkerForgotten'
    BY <1>4, <1>6 DEF IInv, WorkersOK, RunningExact, NoIdleWorkerForgotten
  <1>10. << >> \in Chains /\ Queued(<< >>) = {}
    BY EmptyChain
  <1>11. FifoIs(<< >>)'
    <2>1. IsChain(<< >>)'
      BY <1>4 DEF IsChain
    <2>2. owned' = Busy'
      BY <1>1, <1>3, <1>6 DEF FifoIs
    <2>3. (\A t \in Tasks : next[t] # Null => t \in owned)'
      BY <1>1, <1>3 DEF FifoIs
    <2>4. Queued(<< >>)' = {}
      BY <1>10 DEF Queued
    <2> QED BY <2>1, <2>2, <2>3, <2>4, <1>4, <1>10 DEF FifoIs
  <1>12. IInv'
    BY <1>7, <1>8, <1>9, <1>10, <1>11 DEF IInv, Chains
  <1>13. ListStep
    BY <1>3, <1>6, <1>10, <1>11 DEF ListStep
  <1> QED BY <1>12, <1>13

LEMMA ResetStep ==
    ASSUME IInv, NEW c \in Clients, DestroyReset(c)
    PROVE  IInv'
  <1>1. /\ Goes(c, "resetting", "idle") /\ stopRequested' = FALSE
        /\ UNCHANGED <<taskHead, taskTail, next, owned, numRunningTasks, numWorkerThreads,
                       taskAvailable, taskCompleted, worker, executing, argument, idx>>
    BY DEF DestroyReset
  <1>2. /\ client' \in [Clients -> ClientLocations] /\ client'[c] = "idle"
        /\ \A d \in Clients : d # c => client'[d] = client[d]
    BY <1>1, GoesType DEF ClientLocations
  <1>3. Running' = Running
    BY <1>1 DEF Running
  <1>4. TypeOK' /\ ArgumentsOK'
    BY <1>1, <1>2 DEF IInv, TypeOK, ArgumentsOK
  <1>5. WorkersOK' /\ RunningExact' /\ NoIdleWorkerForgotten'
    BY <1>1, <1>3 DEF IInv, WorkersOK, RunningExact, NoIdleWorkerForgotten
  <1>6. \E q \in Chains : FifoIs(q)'
    BY <1>1, <1>3, SameFifo DEF IInv
  <1> QED BY <1>4, <1>5, <1>6 DEF IInv, Chains

LEMMA StepInvariant == IInv /\ [Next]_vars => IInv'
  <1> SUFFICES ASSUME IInv, [Next]_vars PROVE IInv'
    OBVIOUS
  <1>1. ASSUME NEW w \in Workers, WorkerStep(w) PROVE IInv'
    BY <1>1, WorkerStepInvariant
  <1>2. ASSUME NEW c \in Clients, ClientCall(c) PROVE IInv'
    BY <1>2, CreateStep, EnterStep, WaitStep, DestroyStep DEF ClientCall
  <1>3. ASSUME NEW c \in Clients, ClientStep(c) PROVE IInv'
    BY <1>3, CreateThreadStep, CreateEndStep, QueueStep, WaitStep, ResetStep DEF ClientStep
  <1>4. CASE SpuriousWakeup
    BY <1>4, SpuriousStep
  <1>5. CASE UNCHANGED vars
    <2>1. TypeOK' /\ ArgumentsOK'
      BY <1>5 DEF vars, pool, IInv, TypeOK, ArgumentsOK
    <2> QED BY <2>1, <1>5, ClientOnly DEF vars, pool
  <1> QED BY <1>1, <1>2, <1>3, <1>4, <1>5 DEF Next

LEMMA Invariant == Spec => []IInv
  BY InitInvariant, StepInvariant, PTL DEF Spec

-----------------------------------------------------------------------------
(* What the invariant shows of every state. *)

\* Every variable of the pool keeps its type; numRunningTasks and
\* numWorkerThreads stay in the range of size_t.
THEOREM TypeCorrect == Spec => []TypeOK
  BY Invariant, PTL DEF IInv

\* The FIFO pointers form one list without repetition from head to tail, and
\* no task outside the pool has a next.
THEOREM ListShape == Spec => []FifoWellFormed
  <1>1. IInv => FifoWellFormed
    <2> SUFFICES ASSUME NEW q \in Chains, FifoIs(q) PROVE FifoWellFormed
      BY DEF IInv
    <2>1. \A t \in Tasks : next[t] # Null =>
              \/ \E i \in 1 .. Len(q) : q[i] = t
              \/ \E w \in Running : executing[w] = t
      BY DEF FifoIs, Queued, Busy
    <2> QED BY <2>1 DEF FifoIs, FifoWellFormed
  <1> QED BY <1>1, Invariant, PTL

\* A task belongs to the pool exactly while it is in the FIFO or executed by
\* one worker.
THEOREM Ownership == Spec => []OwnedExact
  <1>1. IInv => OwnedExact
    <2> SUFFICES ASSUME IInv, NEW q \in Chains, IsChain(q)
                 PROVE  /\ Queued(q) \cap Busy = {} /\ owned = Queued(q) \cup Busy
                        /\ \A v, w \in Running : executing[v] = executing[w] => v = w
      BY DEF OwnedExact, Queued, Busy
    <2>1. PICK p \in Chains : FifoIs(p)
      BY DEF IInv
    <2>2. p = q
      BY <2>1, ChainUnique DEF IInv, FifoIs
    <2> QED BY <2>1, <2>2 DEF IInv, FifoIs, WorkersOK
  <1> QED BY <1>1, Invariant, PTL

\* The FIFO pointers and the workers agree on the tasks of the pool.
THEOREM Bookkeeping == Spec => []TasksExact
  BY ListShape, Ownership, PTL DEF TasksExact

\* numRunningTasks counts the workers that execute a task.
THEOREM RunningCount == Spec => []RunningExact
  BY Invariant, PTL DEF IInv

\* No worker sleeps while there is a task or a request to stop.
THEOREM NoLostWakeup == Spec => []NoIdleWorkerForgotten
  BY Invariant, PTL DEF IInv

-----------------------------------------------------------------------------
(* What it shows of every step. *)

\* Nothing in flight means that the pool owns no task.
LEMMA IdlePoolOwnsNothing == IInv /\ ~TasksInFlight => owned = {}
  <1> SUFFICES ASSUME IInv, ~TasksInFlight PROVE owned = {}
    OBVIOUS
  <1>1. PICK q \in Chains : FifoIs(q)
    BY DEF IInv
  <1>2. q = <<>>
    BY <1>1, HeadOfChain DEF IInv, TasksInFlight
  <1>3. Cardinality(Running) = 0
    BY DEF TasksInFlight, IInv, RunningExact
  <1>4. Running = {}
    BY <1>3, Counts
  <1>5. Busy = {} /\ Queued(q) = {}
    BY <1>2, <1>4, EmptyChain DEF Busy
  <1> QED BY <1>1, <1>5 DEF FifoIs

\* The only steps that let a waiting client go.
LEMMA Releases ==
    ASSUME IInv, [Next]_vars, NEW c \in Clients, client'[c] = "idle"
    PROVE  /\ client[c] = "waitingTask" => argument[c] \notin owned \/ ~TasksInFlight
           /\ client[c] = "waitingAll" => ~AllMustWait
  <1>1. ASSUME NEW d \in Clients, NEW from, NEW to, Goes(d, from, to)
        PROVE  IF d = c THEN client[c] = from /\ to = "idle" ELSE client[c] = "idle"
    BY <1>1 DEF Goes, IInv, TypeOK
  <1>2. CASE client' = client
    BY <1>2
  <1>3. ASSUME NEW w \in Workers, WorkerStep(w) PROVE client' = client
    BY <1>3 DEF WorkerStep, WorkerExit, WorkerSleep, WorkerGrab, WorkerFinish
  <1>4. ASSUME NEW d \in Clients, ClientCall(d)
        PROVE  client[c] = "idle"
    BY <1>4, <1>1 DEF ClientCall, Create, QueueTask, WaitForTask, WaitForAllTasks,
                      WaitAllEnter, Destroy
  <1>5. ASSUME NEW d \in Clients,
               \/ CreateFailed(d) \/ CreateDone(d) \/ QueueLocked(d)
               \/ DestroyWait(d) \/ DestroyReset(d)
        PROVE  client[c] \notin {"waitingTask", "waitingAll"}
    BY <1>5, <1>1 DEF CreateFailed, CreateDone, QueueLocked, DestroyWait, WaitAllEnter,
                      WaitAllLoop, DestroyReset
  <1>6. ASSUME NEW d \in Clients, WaitForTaskLoop(d)
        PROVE  client[c] = "idle" \/ (client[c] = "waitingTask" /\ d = c
                  /\ (argument[c] \notin owned \/ ~TasksInFlight))
    BY <1>6, <1>1 DEF WaitForTaskLoop
  <1>7. ASSUME NEW d \in Clients, WaitForAllTasksLoop(d)
        PROVE  client[c] = "idle" \/ (client[c] = "waitingAll" /\ ~AllMustWait)
    BY <1>7, <1>1 DEF WaitForAllTasksLoop, WaitAllLoop
  <1>8. ASSUME NEW d \in Clients, CreateThread(d) PROVE client' = client
    BY <1>8 DEF CreateThread
  <1>9. SpuriousWakeup \/ UNCHANGED vars => client' = client
    BY DEF SpuriousWakeup, vars
  <1> QED BY <1>2, <1>3, <1>4, <1>5, <1>6, <1>7, <1>8, <1>9 DEF Next, ClientStep

\* waitForTask and waitForAllTasks return only when the pool is done with the task,
\* or with every task, unless destroy stops it.
THEOREM WaitsCorrect == Spec => WaitsHonoured
  <1> DEFINE Honoured == \A c \in Clients : client'[c] = "idle" =>
                /\ client[c] = "waitingTask" => argument[c] \notin owned
                /\ client[c] = "waitingAll" => owned = {} \/ stopRequested
  <1>1. IInv /\ [Next]_vars => [Honoured]_vars
    BY Releases, IdlePoolOwnsNothing DEF AllMustWait
  <1> QED BY <1>1, Invariant, PTL DEF Spec, WaitsHonoured

-----------------------------------------------------------------------------
(* The pool implements its promise. *)

LEMMA WorkerListStep ==
    ASSUME IInv, NEW w \in Workers, WorkerStep(w)
    PROVE  ListStep
  <1>1. CASE WorkerExit(w) \/ WorkerSleep(w)
    <2>1. Running' = Running
      BY <1>1 DEF WorkerExit, WorkerSleep, Running, IInv, TypeOK
    <2> QED BY <2>1, <1>1, KeptList DEF WorkerExit, WorkerSleep, pool
  <1>2. CASE WorkerGrab(w)
    BY <1>2, GrabStep
  <1>3. CASE WorkerFinish(w)
    BY <1>3, FinishStep
  <1> QED BY <1>1, <1>2, <1>3 DEF WorkerStep

LEMMA ClientListStep ==
    ASSUME IInv, NEW c \in Clients, ClientCall(c) \/ ClientStep(c)
    PROVE  ListStep
  <1>1. ASSUME UNCHANGED <<pool, worker, executing>> PROVE ListStep
    <2>1. Running' = Running
      BY <1>1 DEF Running
    <2> QED BY <2>1, <1>1, KeptList DEF pool
  <1>2. CASE Create(c) \/ QueueTask(c) \/ WaitForTask(c) \/ WaitForAllTasks(c)
    BY <1>1, <1>2 DEF Create, QueueTask, WaitForTask, WaitForAllTasks
  <1>3. CASE \/ CreateFailed(c) \/ WaitForTaskLoop(c) \/ WaitForAllTasksLoop(c)
             \/ DestroyWait(c)
    BY <1>1, <1>3 DEF CreateFailed, WaitForTaskLoop, WaitForAllTasksLoop, DestroyWait
  <1>4. CASE CreateDone(c) \/ DestroyReset(c)
    <2>1. Running' = Running
      BY <1>4 DEF CreateDone, DestroyReset, Running
    <2> QED BY <2>1, <1>4, KeptList DEF CreateDone, DestroyReset
  <1>5. CASE CreateThread(c)
    <2>1. PICK w \in Workers \ Live : worker' = [worker EXCEPT ![w] = "waiting"]
      BY <1>5 DEF CreateThread
    <2>2. Running' = Running
      BY <2>1 DEF Live, Running, IInv, TypeOK
    <2> QED BY <2>2, <1>5, KeptList DEF CreateThread, pool
  <1>6. CASE QueueLocked(c) \/ Destroy(c)
    BY <1>6, QueueStep, DestroyStep
  <1> QED BY <1>2, <1>3, <1>4, <1>5, <1>6 DEF ClientCall, ClientStep

LEMMA EveryListStep == IInv /\ [Next]_vars => ListStep
  <1> SUFFICES ASSUME IInv, [Next]_vars PROVE ListStep
    OBVIOUS
  <1>1. CASE SpuriousWakeup \/ UNCHANGED vars
    <2>1. Running' = Running
      BY <1>1 DEF SpuriousWakeup, vars, Running
    <2> QED BY <2>1, <1>1, KeptList DEF SpuriousWakeup, vars, pool
  <1> QED BY <1>1, WorkerListStep, ClientListStep DEF Next

\* The list that the refinement mapping chooses is the one of the invariant.
LEMMA FifoIsPending ==
    ASSUME TypeOK, NEW q \in Chains, FifoIs(q)
    PROVE  q = CHOOSE p \in Chains : IsChain(p)
  <1>1. IsChain(q)
    BY DEF FifoIs
  <1> DEFINE p == CHOOSE p \in Chains : IsChain(p)
  <1>2. p \in Chains /\ IsChain(p)
    BY <1>1
  <1> QED BY <1>1, <1>2, ChainUnique

LEMMA ListChosen == \A q \in Chains : TypeOK /\ FifoIs(q) => q = CHOOSE p \in Chains : IsChain(p)
  BY FifoIsPending

LEMMA ListChosenNext ==
    (\A q \in Chains : TypeOK /\ FifoIs(q) => q = CHOOSE p \in Chains : IsChain(p))'
  BY ListChosen, PTL

LEMMA InitRefines == Init => Promise!Init
  <1> SUFFICES ASSUME Init PROVE Promise!Init
    OBVIOUS
  <1>1. PICK q \in Chains : FifoIs(q)
    BY InitInvariant DEF IInv
  <1>2. q = <<>>
    BY <1>1, HeadOfChain, InitInvariant DEF IInv, Init
  <1>3. q = CHOOSE p \in Chains : IsChain(p)
    BY <1>1, FifoIsPending, InitInvariant DEF IInv
  <1>4. {executing[w] : w \in Running} = {}
    BY DEF Init, Running
  <1> QED BY <1>2, <1>3, <1>4 DEF Promise!Init

LEMMA StepRefines == IInv /\ [Next]_vars => [Promise!Next]_(Promise!vars)
  <1> SUFFICES ASSUME IInv, [Next]_vars PROVE [Promise!Next]_(Promise!vars)
    OBVIOUS
  <1>1. PICK q, r \in Chains :
            /\ FifoIs(q) /\ FifoIs(r)'
            /\ \/ r = q /\ Busy' = Busy
               \/ q # <<>> /\ r = Tail(q) /\ Busy' = Busy \cup {Head(q)}
               \/ r = q /\ \E e \in Busy : Busy' = Busy \ {e}
               \/ /\ \E t \in Tasks : t \notin Queued(q) \cup Busy /\ r = Append(q, t)
                  /\ Busy' = Busy
               \/ r = <<>> /\ Busy' = Busy
    BY EveryListStep DEF ListStep
  <1> DEFINE pending == CHOOSE p \in Chains : IsChain(p)
             running == {executing[w] : w \in Running}
  <1>2. q = pending
    BY <1>1, FifoIsPending DEF IInv
  <1>3. r = pending'
    <2>1. TypeOK'
      BY StepInvariant DEF IInv
    <2> QED BY <2>1, <1>1, ListChosenNext DEF Chains
  <1>4. running = Busy /\ running' = Busy'
    BY DEF Busy
  <1>5. Promise!ToSet(q) = Queued(q)
    BY DEF Promise!ToSet, Queued
  <1>6. CASE r = q /\ Busy' = Busy
    BY <1>2, <1>3, <1>4, <1>6 DEF Promise!vars
  <1>7. CASE q # <<>> /\ r = Tail(q) /\ Busy' = Busy \cup {Head(q)}
    <2> HIDE DEF pending, running
    <2>1. pending # <<>> /\ running' = running \cup {Head(pending)} /\ pending' = Tail(pending)
      BY <1>2, <1>3, <1>4, <1>7
    <2> QED BY <2>1 DEF pending, running, Promise!Start, Promise!Next
  <1>8. ASSUME NEW e \in Busy, r = q, Busy' = Busy \ {e}
        PROVE  Promise!Next
    <2>1. e \in Tasks
      BY DEF Busy, Running, IInv, TypeOK, WorkersOK, TaskOrNull
    <2>2. Promise!Finish(e)
      BY <1>2, <1>3, <1>4, <1>8 DEF Promise!Finish
    <2> QED BY <2>1, <2>2 DEF Promise!Next
  <1>9. ASSUME NEW t \in Tasks, t \notin Queued(q) \cup Busy, r = Append(q, t), Busy' = Busy
        PROVE  Promise!Next
    <2>1. Promise!Submit(t)
      BY <1>2, <1>3, <1>4, <1>5, <1>9 DEF Promise!Submit
    <2> QED BY <2>1 DEF Promise!Next
  <1>10. CASE r = <<>> /\ Busy' = Busy
    <2>1. Promise!Free
      BY <1>3, <1>4, <1>10 DEF Promise!Free
    <2> QED BY <2>1 DEF Promise!Next
  <1> HIDE DEF pending, running
  <1> QED BY <1>1, <1>6, <1>7, <1>8, <1>9, <1>10

\* Tasks are executed once each, in the order of queueTask; destroy frees
\* exactly the ones that were not started.
THEOREM Implementation == Spec => ImplementsPromise
  BY InitRefines, StepRefines, Invariant, PTL DEF Spec, ImplementsPromise, Promise!Spec
=============================================================================
