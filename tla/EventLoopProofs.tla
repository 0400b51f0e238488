-------------------------- MODULE EventLoopProofs --------------------------
(***************************************************************************)
(* Proofs about EventLoop, for any finite set of requests, any sequences,  *)
(* and any setting of SoundUsage: the state stays in its types, counters   *)
(* and lists are those of the states of the requests, epoll knows only     *)
(* requests that the loop knows, no assertion fails, the requests of a     *)
(* sequence run one at a time, and close() leaves nothing.                 *)
(***************************************************************************)
EXTENDS EventLoop, FiniteSetTheorems, SequenceTheorems, WellFoundedInduction, TLAPS

-----------------------------------------------------------------------------
(* What a value `l` of `loop` says at any time, also in the middle of an   *)
(* action.                                                                 *)

ActiveIn(l) == {r \in Requests : l.state[r] = "Active"}

Counted(l) ==
    /\ l.numberOfSubmissions = Len(l.submissions)
    /\ l.numberOfActiveHandles = Cardinality(ActiveIn(l) \ l.manual)
    /\ l.numberOfManualCompletions = Cardinality(ActiveIn(l) \cap l.manual)
    /\ -l.numberOfExternals = Cardinality((ActiveIn(l) \ l.manual) \cap l.excluded)

Waits(l, r) ==
    LET q == l.setting.sequenceOf[r] IN q # Null /\ Contains(l.queue[q], r)

\* A request is in the list its state names, but for those that the loop has in its
\* hands: they have left `submissions` and are not active, reported or cancelled yet.
Placed(l, held) ==
    /\ \A r \in Requests : LET st == l.state[r] IN
        /\ Contains(l.submissions, r) <=> r \notin held /\
             \/ st \in {"Setup", "Reactivate"} /\ ~Waits(l, r)
             \/ st = "Cancelling" /\ ~Contains(l.cancellations, r)
        /\ Waits(l, r) => st = "Setup" /\ r \notin held
        /\ Contains(l.cancellations, r) => st = "Cancelling" /\ r \notin held
        /\ st = "Submitting" => r \in held
        /\ r \in held => st \in {"Setup", "Reactivate", "Submitting", "Cancelling"}
        /\ Contains(l.manualCompletions, r) <=> r \in l.manual
        /\ r \in l.manual => st = "Active" /\ l.setting.kind[r] = "write"
        /\ r \in l.listed <=>
             st = "Active" /\ r \notin l.manual /\ l.setting.sequenceOf[r] = Null
    /\ IsInjective(l.submissions) /\ IsInjective(l.cancellations)
    /\ IsInjective(l.manualCompletions)
    /\ \A q \in Sequences :
        /\ IsInjective(l.queue[q])
        /\ \A r \in Requests : Contains(l.queue[q], r) => l.setting.sequenceOf[r] = q

\* Only work that is active or about to be cancelled has a task; what the worker pushed
\* is in the list until its completion, unless close() took it out.
Tasked(l, popped) ==
    /\ \A r \in Requests :
        /\ Contains(l.poolCompletions, r) => l.task[r] \in {"pushed", "done"}
        /\ l.task[r] \in {"pushed", "done"} =>
             Contains(l.poolCompletions, r) \/ (l.state[r] = "Cancelling" /\ popped)
        /\ l.task[r] # "idle" =>
             /\ l.setting.kind[r] = "work"
             /\ \/ l.state[r] = "Active"
                \/ l.state[r] = "Cancelling" /\ ~Contains(l.cancellations, r)
    /\ IsInjective(l.poolCompletions)

\* Who epoll knows; `completing` has its callback and is torn down after it.
Registered(l, completing) ==
    \A r \in Requests : LET st == l.state[r] IN
        /\ r \in l.watched =>
            /\ l.setting.kind[r] \in {"socket", "readiness"}
            /\ \/ st \in {"Active", "Reactivate"} \/ r = completing
               \/ st = "Cancelling" /\ ~Contains(l.cancellations, r)
        /\ st \in {"Active", "Reactivate"} /\ l.setting.kind[r] \in {"socket", "readiness"} =>
            r \in l.watched

OnItsWay(l, r) == l.state[r] # "Free" /\ ~Waits(l, r)

\* `again` was reactivated by its callback and its sequence is not running yet; `idle` is a
\* sequence that may have to be untracked.
InTurn(l, again, idle) ==
    /\ \A q \in Sequences :
        /\ q \in l.runningAsync \/ l.queue[q] # <<>> => q \in l.tracked
        /\ q \in l.tracked => q \in l.runningAsync \/ l.queue[q] # <<>> \/ q = idle
        /\ q \in l.runningAsync <=> l.runningRequest[q] # Null
        /\ l.runningRequest[q] # Null =>
            /\ l.setting.sequenceOf[l.runningRequest[q]] = q
            /\ OnItsWay(l, l.runningRequest[q])
    /\ \A r \in Requests : LET q == l.setting.sequenceOf[r] IN
        q # Null /\ OnItsWay(l, r) /\ l.state[r] # "Cancelling" =>
            l.runningRequest[q] = r \/ (r = again /\ q \notin l.runningAsync)

Base(l, held, completing, popped) ==
    /\ l \in Loop /\ l.setting = loop.setting /\ ~l.asserted
    /\ Counted(l) /\ Placed(l, held) /\ Tasked(l, popped) /\ Registered(l, completing)

Sound(l, held, again, completing, popped) ==
    Base(l, held, completing, popped) /\ InTurn(l, again, Null)

-----------------------------------------------------------------------------
(* The inductive invariant                                                 *)

Held == IF cb.kind = "error" THEN {cb.req} ELSE {}
Again == IF cb.again THEN cb.req ELSE Null
Completing == IF cb.kind = "complete" /\ ~cb.again THEN cb.req ELSE Null
Popped == closing \notin {"no", "submissions", "sequences"}

CallbackInv ==
    /\ cb.kind = "none" <=> cb = NoCallback
    /\ cb.kind # "none" => cb.req # Null
    /\ cb.kind = "error" =>
        phase = "submit" /\ loop.state[cb.req] \in {"Setup", "Submitting"} /\ ~cb.again
    /\ cb.kind = "timer" => phase = "timers" /\ Kind[cb.req] = "timeout"
    /\ cb.kind = "complete" =>
        phase \in {"events", "manual", "pool"} /\ \A e \in batch : e.req # cb.req
    /\ cb.kind = "complete" /\ ~cb.again =>
        /\ loop.state[cb.req] \in {"Free", "Setup", "Cancelling"}
        /\ Watches(cb.req) => cb.req \in loop.watched
    /\ cb.kind = "close" => phase = "cancel"
    /\ cb.again =>
        /\ cb.kind \in {"complete", "timer"}
        /\ \/ loop.state[cb.req] \in {"Reactivate", "Cancelling"}
           \/ loop.state[cb.req] = "Active" /\ Kind[cb.req] = "readiness"
        /\ SequenceOf[cb.req] # Null =>
            loop.runningRequest[SequenceOf[cb.req]] =
                IF loop.state[cb.req] = "Active" THEN cb.req ELSE Null

PhaseInv ==
    /\ phase = "poll" => loop.submissions = <<>>
    /\ phase \in {"poll", "polled"} \cup Dispatching => \A r \in Requests :
        Kind[r] = "work" /\ loop.state[r] = "Cancelling" => Contains(loop.cancellations, r)
    /\ cursor # Null => phase = "cancel" /\ Contains(loop.cancellations, cursor)
    /\ batch # {} => phase \in {"polled", "timers", "events"}
    /\ \A e \in batch : e.req # Null =>
        /\ Watches(e.req) /\ ~e.err
        /\ \/ loop.state[e.req] = "Active"
           \/ loop.state[e.req] = "Cancelling" /\ e.req \in loop.needsTeardown

ClosingInv ==
    /\ closing \notin {"no", "ran", "end"} => phase = "idle" /\ cb = NoCallback
    /\ closing # "no" =>
        /\ cb.kind \in {"none", "close"} /\ phase # "closed"
        /\ \A e \in batch : e.req = Null
        /\ \A q \in Sequences : loop.queue[q] = <<>>
    /\ closing \notin {"no", "submissions"} => \A r \in Requests :
        loop.state[r] \in {"Free", "Active", "Cancelling"}
    /\ closing \notin {"no", "submissions", "sequences"} => \A r \in Requests :
        loop.state[r] = "Active" => SequenceOf[r] = Null
    /\ closing \in {"manual", "run", "ran", "end"} => \A r \in Requests :
        loop.state[r] = "Active" => r \in loop.manual
    /\ closing \in {"run", "ran", "end"} => \A r \in Requests :
        loop.state[r] \in {"Free", "Cancelling"}
    /\ closing \in {"ran", "end"} /\ phase # "submit" => loop.submissions = <<>>
    /\ closing = "end" =>
        /\ phase \in {"cancel", "idle"}
        /\ IF cursor = Null THEN loop.cancellations = <<>>
           ELSE loop.cancellations # <<>> /\ cursor = Head(loop.cancellations)
    /\ phase = "closed" => cb = NoCallback /\ \A r \in Requests : loop.state[r] = "Free"

IInv ==
    /\ TypeOK /\ Sound(loop, Held, Again, Completing, Popped)
    /\ CallbackInv /\ PhaseInv /\ ClosingInv
-----------------------------------------------------------------------------
(* Lists without repetitions                                               *)

LEMMA EmptyList ==
  ASSUME NEW S, NEW list \in Seq(S)
  PROVE  /\ list = <<>> <=> \A x : ~Contains(list, x)
         /\ list = <<>> <=> \A x \in S : ~Contains(list, x)
         /\ list = <<>> <=> Len(list) = 0
         /\ Len(list) \in Nat
         /\ \A x : Contains(list, x) => x \in S
  <1>1. Len(list) \in Nat /\ (list = <<>> <=> Len(list) = 0)
    BY EmptySeq, LenProperties
  <1>2. \A i \in 1 .. Len(list) : list[i] \in S
    BY ElementOfSeq
  <1>3. list # <<>> => Contains(list, list[1]) /\ list[1] \in S
    BY <1>1, <1>2 DEF Contains
  <1>4. list = <<>> => \A x : ~Contains(list, x)
    BY <1>1 DEF Contains
  <1> QED
    BY <1>1, <1>2, <1>3, <1>4 DEF Contains

LEMMA NothingListed == /\ IsInjective(<<>>) /\ Len(<<>>) = 0 /\ \A x : ~Contains(<<>>, x)
                       /\ \A S : <<>> \in Seq(S)
  <1>1. Len(<<>>) = 0 /\ DOMAIN <<>> = {} /\ \A S : <<>> \in Seq(S)
    BY EmptySeq, LenProperties
  <1> QED
    BY <1>1 DEF IsInjective, Contains

LEMMA Appended ==
  ASSUME NEW S, NEW list \in Seq(S), NEW r \in S,
         IsInjective(list), ~Contains(list, r)
  PROVE  /\ Append(list, r) \in Seq(S) /\ IsInjective(Append(list, r))
         /\ \A x : Contains(Append(list, r), x) <=> Contains(list, x) \/ x = r
         /\ Append(list, r) # <<>> /\ Len(Append(list, r)) = Len(list) + 1
  <1> DEFINE n == Len(list)
             a == Append(list, r)
  <1>1. n \in Nat /\ DOMAIN list = 1 .. n
    BY LenProperties
  <1>2. /\ a \in Seq(S) /\ Len(a) = n + 1 /\ a[n + 1] = r
        /\ \A i \in 1 .. n : a[i] = list[i]
    BY AppendProperties
  <1>3. DOMAIN a = 1 .. n + 1
    BY <1>2, LenProperties
  <1> HIDE DEF a
  <1>4. \A i \in 1 .. n : a[i] # r
    BY <1>2 DEF Contains
  <1>5. IsInjective(a)
    BY <1>1, <1>2, <1>3, <1>4 DEF IsInjective
  <1>6. \A x : Contains(a, x) <=> Contains(list, x) \/ x = r
    BY <1>1, <1>2 DEF Contains
  <1>7. a # <<>>
    BY <1>1, <1>2, EmptySeq
  <1> QED BY <1>2, <1>5, <1>6, <1>7 DEF a

LEMMA HeadTaken ==
  ASSUME NEW S, NEW list \in Seq(S), IsInjective(list), list # <<>>
  PROVE  /\ Tail(list) \in Seq(S) /\ IsInjective(Tail(list))
         /\ Head(list) \in S /\ Contains(list, Head(list))
         /\ \A x : Contains(Tail(list), x) <=> Contains(list, x) /\ x # Head(list)
         /\ Len(Tail(list)) = Len(list) - 1
  <1> DEFINE n == Len(list)
             t == Tail(list)
  <1>1. n \in Nat \ {0} /\ DOMAIN list = 1 .. n /\ Head(list) = list[1]
    BY EmptySeq, LenProperties
  <1>2. t \in Seq(S) /\ Len(t) = n - 1 /\ \A i \in 1 .. n - 1 : t[i] = list[i + 1]
    BY HeadTailProperties
  <1>3. DOMAIN t = 1 .. n - 1
    BY <1>2, LenProperties
  <1>4. \A i, j \in 1 .. n : list[i] = list[j] => i = j
    BY <1>1 DEF IsInjective
  <1> HIDE DEF t, n
  <1>5. IsInjective(t)
    BY <1>1, <1>2, <1>3, <1>4 DEF IsInjective
  <1>6. ASSUME NEW x PROVE Contains(t, x) <=> Contains(list, x) /\ x # Head(list)
    <2>1. ASSUME NEW i \in 1 .. n - 1, t[i] = x PROVE Contains(list, x) /\ x # Head(list)
      <3>1. i + 1 \in 1 .. n /\ i + 1 # 1 /\ list[i + 1] = x
        BY <1>1, <1>2, <2>1
      <3> QED BY <1>1, <1>4, <3>1 DEF Contains, n
    <2>2. ASSUME NEW i \in 1 .. n, list[i] = x, x # Head(list) PROVE Contains(t, x)
      <3>1. i - 1 \in 1 .. n - 1
        BY <1>1, <2>2
      <3>2. t[i - 1] = x
        BY <1>1, <1>2, <2>2, <3>1
      <3> QED BY <1>2, <3>1, <3>2 DEF Contains
    <2> QED BY <1>2, <2>1, <2>2 DEF Contains, n
  <1>7. Head(list) \in S /\ Contains(list, Head(list))
    BY <1>1, ElementOfSeq DEF Contains, n
  <1> QED BY <1>2, <1>5, <1>6, <1>7 DEF t, n

LEMMA RemoveAtIndexed ==
  ASSUME NEW S, NEW list \in Seq(S), NEW i \in 1 .. Len(list)
  PROVE  /\ RemoveAt(list, i) \in Seq(S)
         /\ Len(RemoveAt(list, i)) = Len(list) - 1
         /\ \A j \in 1 .. Len(list) - 1 :
              RemoveAt(list, i)[j] = IF j < i THEN list[j] ELSE list[j + 1]
  <1> DEFINE before == SubSeq(list, 1, i - 1)
             after == SubSeq(list, i + 1, Len(list))
  <1>1. Len(list) \in Nat /\ \A j \in 1 .. Len(list) : list[j] \in S
    BY LenProperties, ElementOfSeq
  <1>2. /\ before \in Seq(S) /\ Len(before) = i - 1
        /\ \A j \in 1 .. i - 1 : before[j] = list[j]
    BY <1>1, SubSeqProperties
  <1>3. /\ after \in Seq(S) /\ Len(after) = Len(list) - i
        /\ \A j \in 1 .. Len(list) - i : after[j] = list[i + j]
    <2>1. /\ after \in Seq(S)
          /\ Len(after) = IF i + 1 <= Len(list) THEN Len(list) - (i + 1) + 1 ELSE 0
          /\ \A j \in 1 .. Len(list) - (i + 1) + 1 : after[j] = list[(i + 1) + j - 1]
      BY <1>1, SubSeqProperties
    <2> QED BY <1>1, <2>1
  <1>4. /\ before \o after \in Seq(S)
        /\ Len(before \o after) = Len(before) + Len(after)
        /\ \A j \in 1 .. Len(before) + Len(after) :
             (before \o after)[j] = IF j <= Len(before) THEN before[j] ELSE after[j - Len(before)]
    BY <1>2, <1>3, ConcatProperties
  <1> HIDE DEF before, after
  <1>5. ASSUME NEW j \in 1 .. Len(list) - 1
        PROVE  (before \o after)[j] = IF j < i THEN list[j] ELSE list[j + 1]
    <2>1. CASE j < i
      BY <1>1, <1>2, <1>3, <1>4, <2>1
    <2>2. CASE ~(j < i)
      <3>1. j - Len(before) \in 1 .. Len(list) - i /\ i + (j - Len(before)) = j + 1
        BY <1>1, <1>2, <2>2
      <3>2. after[j - Len(before)] = list[j + 1]
        BY <1>3, <3>1
      <3>3. (before \o after)[j] = after[j - Len(before)]
        BY <1>1, <1>2, <1>3, <1>4, <2>2
      <3> QED BY <2>2, <3>2, <3>3
    <2> QED BY <2>1, <2>2
  <1>6. RemoveAt(list, i) = before \o after
    BY DEF RemoveAt, before, after
  <1>7. Len(before \o after) = Len(list) - 1
    BY <1>1, <1>2, <1>3, <1>4
  <1> QED
    BY <1>4, <1>5, <1>6, <1>7

LEMMA Removed ==
  ASSUME NEW S, NEW list \in Seq(S), NEW r,
         IsInjective(list)
  PROVE  /\ RemoveFirst(list, r) \in Seq(S)
         /\ IsInjective(RemoveFirst(list, r))
         /\ \A x : Contains(RemoveFirst(list, r), x) <=> Contains(list, x) /\ x # r
         /\ Contains(list, r) => Len(RemoveFirst(list, r)) = Len(list) - 1
  <1>0. Len(list) \in Nat /\ DOMAIN list = 1 .. Len(list)
    BY LenProperties
  <1>1. CASE ~Contains(list, r)
    <2>1. RemoveFirst(list, r) = list
      BY <1>1 DEF RemoveFirst, Contains
    <2> QED BY <1>1, <2>1
  <1>2. CASE Contains(list, r)
    <2>1. PICK i \in 1 .. Len(list) : list[i] = r
      BY <1>2 DEF Contains
    <2> DEFINE u == RemoveAt(list, i)
               at(n) == IF n < i THEN n ELSE n + 1
    <2>2. RemoveFirst(list, r) = u
      <3>1. {j \in 1 .. Len(list) : list[j] = r} = {i}
        BY <1>0, <2>1 DEF IsInjective
      <3>2. SelectInSeq(list, LAMBDA v : v = r) = i
        BY <1>0, <3>1 DEF SelectInSeq, Min
      <3> QED BY <2>1, <3>2 DEF RemoveFirst
    <2>3. /\ u \in Seq(S) /\ Len(u) = Len(list) - 1
          /\ \A j \in 1 .. Len(list) - 1 : u[j] = list[at(j)]
      BY <2>1, RemoveAtIndexed
    <2> HIDE DEF u
    <2>4. DOMAIN u = 1 .. Len(list) - 1
      BY <2>3, LenProperties
    <2>5. \A j, k \in 1 .. Len(list) : list[j] = list[k] => j = k
      BY <1>0 DEF IsInjective
    <2>6. /\ \A j \in 1 .. Len(list) - 1 : at(j) \in 1 .. Len(list) /\ at(j) # i
          /\ \A j, k \in 1 .. Len(list) - 1 : at(j) = at(k) => j = k
          /\ \A k \in 1 .. Len(list) : k # i => \E j \in 1 .. Len(list) - 1 : at(j) = k
      <3>1. ASSUME NEW k \in 1 .. Len(list), k # i PROVE \E j \in 1 .. Len(list) - 1 : at(j) = k
        <4>1. CASE k < i
          BY <1>0, <2>1, <4>1
        <4>2. CASE k > i
          <5>1. k - 1 \in 1 .. Len(list) - 1 /\ at(k - 1) = k
            BY <1>0, <2>1, <4>2
          <5> QED BY <5>1
        <4> QED BY <1>0, <2>1, <3>1, <4>1, <4>2
      <3> QED BY <1>0, <2>1, <3>1
    <2> HIDE DEF at
    <2>7. IsInjective(u)
      <3>1. ASSUME NEW j \in DOMAIN u, NEW k \in DOMAIN u, u[j] = u[k]
            PROVE  j = k
        <4>1. list[at(j)] = list[at(k)] /\ j \in 1 .. Len(list) - 1 /\ k \in 1 .. Len(list) - 1
          BY <2>3, <2>4, <3>1
        <4>2. at(j) = at(k)
          BY <2>5, <2>6, <4>1
        <4> QED BY <2>6, <4>1, <4>2
      <3> QED BY <3>1 DEF IsInjective
    <2>8. \A x : Contains(u, x) <=> Contains(list, x) /\ x # r
      <3>1. ASSUME NEW x, Contains(u, x) PROVE Contains(list, x) /\ x # r
        <4>1. PICK j \in 1 .. Len(list) - 1 : u[j] = x
          BY <2>3, <3>1 DEF Contains
        <4>2. x = list[at(j)] /\ at(j) \in 1 .. Len(list) /\ at(j) # i
          BY <2>3, <2>6, <4>1
        <4> QED BY <2>1, <2>5, <4>2 DEF Contains
      <3>2. ASSUME NEW x, Contains(list, x), x # r PROVE Contains(u, x)
        <4>1. PICK k \in 1 .. Len(list) : list[k] = x
          BY <3>2 DEF Contains
        <4>2. PICK j \in 1 .. Len(list) - 1 : at(j) = k
          BY <2>1, <2>6, <3>2, <4>1
        <4>3. u[j] = x
          BY <2>3, <4>1, <4>2
        <4> QED BY <2>3, <4>3 DEF Contains
      <3> QED BY <3>1, <3>2
    <2> QED BY <2>2, <2>3, <2>7, <2>8
  <1> QED BY <1>1, <1>2

-----------------------------------------------------------------------------
(* Settings and counts                                                     *)

\* What EXCEPT may update: the fields every loop has.
LEMMA LoopFields ==
  ASSUME NEW l \in Loop
  PROVE  DOMAIN l = {"setting", "state", "manual", "excluded", "needsTeardown", "listed", "watched",
                     "submissions", "cancellations", "manualCompletions", "poolCompletions",
                     "numberOfSubmissions", "numberOfActiveHandles", "numberOfManualCompletions",
                     "numberOfExternals", "queue", "runningAsync", "runningRequest", "tracked",
                     "task", "wake", "runTimers", "interrupted", "asserted"}
  BY DEF Loop

\* The turns of the sequences depend on where their requests are only.
LEMMA InTurnKept ==
  ASSUME NEW l, NEW m, NEW again, NEW idle, InTurn(l, again, idle),
         m.setting = l.setting, m.state = l.state, m.queue = l.queue,
         m.runningAsync = l.runningAsync, m.runningRequest = l.runningRequest,
         m.tracked = l.tracked
  PROVE  InTurn(m, again, idle)
  <1>1. \A r : OnItsWay(m, r) <=> OnItsWay(l, r)
    BY DEF OnItsWay, Waits
  <1> QED BY <1>1 DEF InTurn

LEMMA SettingFacts ==
  ASSUME NEW l \in Loop, NEW r \in Requests,
         SoundUsage
  PROVE  /\ Null \notin Requests /\ Null \notin Sequences
         /\ l.setting.sequenceOf[r] \in Sequences \cup {Null}
         /\ l.setting.kind[r] \in Kinds
         /\ l.setting.kind[r] = "work" => l.setting.sequenceOf[r] # Null
         /\ l.setting.kind[r] = "timeout" => l.setting.sequenceOf[r] = Null
         /\ "event" \notin l.setting.fails[r]
         /\ "activate" \in l.setting.fails[r] => l.setting.kind[r] \notin {"socket", "readiness"}
         /\ "withdraw" \in l.setting.usage => l.setting.kind[r] # "readiness"
         /\ l.setting.usage \cap {"stopQueued", "stopWorkLate", "joinReactivated", "reviveInError"} = {}
  <1>1. l.setting \in Settings
    BY DEF Loop
  <1>2. /\ l.setting \in Setting
        /\ l.setting.kind[r] = "work" => l.setting.sequenceOf[r] # Null
        /\ Null \notin Requests /\ Null \notin Sequences
    BY <1>1, EventLoopAssumption
  <1>3. l.setting.sequenceOf[r] \in Sequences \cup {Null} /\ l.setting.kind[r] \in Kinds
    BY <1>2 DEF Setting
  <1> QED
    BY <1>1, <1>2, <1>3 DEF SoundUsage, SoundSetting

LEMMA ActiveFinite ==
  ASSUME NEW l
  PROVE  /\ IsFiniteSet(ActiveIn(l) \ l.manual)
         /\ IsFiniteSet(ActiveIn(l) \cap l.manual)
         /\ IsFiniteSet((ActiveIn(l) \ l.manual) \cap l.excluded)
  BY EventLoopAssumption, FS_Subset DEF ActiveIn

\* Who leaves the active requests leaves the counts, and they do not pass zero.
LEMMA CountsLeave ==
  ASSUME NEW l \in Loop, NEW m, NEW r \in Requests,
         Counted(l), l.state[r] = "Active", ActiveIn(m) = ActiveIn(l) \ {r},
         m.manual = l.manual \/ m.manual = l.manual \ {r}, m.excluded = l.excluded,
         m.numberOfSubmissions = Len(m.submissions),
         m.numberOfManualCompletions = IF r \in l.manual THEN l.numberOfManualCompletions - 1
                                       ELSE l.numberOfManualCompletions,
         m.numberOfActiveHandles = IF r \in l.manual THEN l.numberOfActiveHandles
                                   ELSE l.numberOfActiveHandles - 1,
         m.numberOfExternals = IF r \notin l.manual /\ r \in l.excluded
                               THEN l.numberOfExternals + 1 ELSE l.numberOfExternals
  PROVE  /\ Counted(m)
         /\ m.numberOfManualCompletions \in Nat /\ m.numberOfActiveHandles \in Nat
         /\ m.numberOfExternals \in Int
  <1> DEFINE A == ActiveIn(l) \ l.manual
             B == ActiveIn(l) \cap l.manual
             C == (ActiveIn(l) \ l.manual) \cap l.excluded
  <1>1. IsFiniteSet(A) /\ IsFiniteSet(B) /\ IsFiniteSet(C)
    BY ActiveFinite
  <1>2. r \in ActiveIn(l)
    BY DEF ActiveIn
  <1>3. /\ ActiveIn(m) \ m.manual = A \ {r}
        /\ ActiveIn(m) \cap m.manual = B \ {r}
        /\ (ActiveIn(m) \ m.manual) \cap m.excluded = C \ {r}
    OBVIOUS
  <1>4. /\ r \in A <=> r \notin l.manual
        /\ r \in B <=> r \in l.manual
        /\ r \in C <=> r \notin l.manual /\ r \in l.excluded
    BY <1>2
  <1> HIDE DEF A, B, C
  <1>5. ASSUME NEW X, IsFiniteSet(X)
        PROVE  Cardinality(X) \in Nat /\ Cardinality(X \ {r}) \in Nat
               /\ Cardinality(X \ {r}) = IF r \in X THEN Cardinality(X) - 1 ELSE Cardinality(X)
    BY <1>5, FS_RemoveElement, FS_CardinalityType
  <1>6. /\ l.numberOfActiveHandles = Cardinality(A)
        /\ l.numberOfManualCompletions = Cardinality(B)
        /\ -l.numberOfExternals = Cardinality(C) /\ l.numberOfExternals \in Int
    BY DEF Counted, A, B, C, Loop
  <1>7. /\ m.numberOfActiveHandles = Cardinality(A \ {r}) /\ Cardinality(A \ {r}) \in Nat
        /\ m.numberOfManualCompletions = Cardinality(B \ {r}) /\ Cardinality(B \ {r}) \in Nat
    BY <1>1, <1>4, <1>5, <1>6
  <1>8. -m.numberOfExternals = Cardinality(C \ {r}) /\ m.numberOfExternals \in Int
    BY <1>1, <1>4, <1>5, <1>6
  <1> QED
    BY <1>3, <1>7, <1>8 DEF Counted

LEMMA OneMore ==
  ASSUME NEW X, NEW n, NEW r,
         IsFiniteSet(X), r \notin X
  PROVE  /\ n = Cardinality(X) => n + 1 = Cardinality(X \cup {r}) /\ n + 1 \in Nat
         /\ n \in Int /\ -n = Cardinality(X) =>
              -(n - 1) = Cardinality(X \cup {r}) /\ n - 1 \in Int
  <1>1. Cardinality(X) \in Nat /\ Cardinality(X \cup {r}) = Cardinality(X) + 1
    BY FS_AddElement, FS_CardinalityType
  <1> QED BY <1>1

LEMMA CountsJoin ==
  ASSUME NEW l \in Loop, NEW m, NEW r \in Requests,
         Counted(l), l.state[r] # "Active", r \notin l.manual,
         ActiveIn(m) = ActiveIn(l) \cup {r},
         m.manual = l.manual \/ m.manual = l.manual \cup {r}, m.excluded = l.excluded,
         m.numberOfSubmissions = Len(m.submissions),
         m.numberOfManualCompletions = IF r \in m.manual THEN l.numberOfManualCompletions + 1
                                       ELSE l.numberOfManualCompletions,
         m.numberOfActiveHandles = IF r \in m.manual THEN l.numberOfActiveHandles
                                   ELSE l.numberOfActiveHandles + 1,
         m.numberOfExternals = IF r \notin m.manual /\ r \in l.excluded
                               THEN l.numberOfExternals - 1 ELSE l.numberOfExternals
  PROVE  /\ Counted(m)
         /\ m.numberOfManualCompletions \in Nat /\ m.numberOfActiveHandles \in Nat
         /\ m.numberOfExternals \in Int
  <1> DEFINE A == ActiveIn(l) \ l.manual
             B == ActiveIn(l) \cap l.manual
             C == (ActiveIn(l) \ l.manual) \cap l.excluded
             AJ == A \cup {r}
             BJ == B \cup {r}
             CJ == C \cup {r}
  <1>1. IsFiniteSet(A) /\ IsFiniteSet(B) /\ IsFiniteSet(C)
    BY ActiveFinite
  <1>2. r \notin ActiveIn(l)
    BY DEF ActiveIn
  <1>3. /\ ActiveIn(m) \ m.manual = IF r \in m.manual THEN A ELSE AJ
        /\ ActiveIn(m) \cap m.manual = IF r \in m.manual THEN BJ ELSE B
        /\ (ActiveIn(m) \ m.manual) \cap m.excluded =
             IF r \notin m.manual /\ r \in l.excluded THEN CJ ELSE C
    BY <1>2
  <1>4. r \notin A /\ r \notin B /\ r \notin C
    BY <1>2
  <1> HIDE DEF A, B, C, AJ, BJ, CJ
  <1>6. /\ l.numberOfActiveHandles = Cardinality(A)
        /\ l.numberOfManualCompletions = Cardinality(B)
        /\ -l.numberOfExternals = Cardinality(C) /\ l.numberOfExternals \in Int
        /\ l.numberOfActiveHandles \in Nat /\ l.numberOfManualCompletions \in Nat
    BY DEF Counted, A, B, C, Loop
  <1>7. /\ l.numberOfActiveHandles + 1 = Cardinality(AJ) /\ l.numberOfActiveHandles + 1 \in Nat
        /\ l.numberOfManualCompletions + 1 = Cardinality(BJ)
        /\ l.numberOfManualCompletions + 1 \in Nat
        /\ -(l.numberOfExternals - 1) = Cardinality(CJ) /\ l.numberOfExternals - 1 \in Int
    <2>1. l.numberOfActiveHandles + 1 = Cardinality(AJ) /\ l.numberOfActiveHandles + 1 \in Nat
      BY <1>1, <1>4, <1>6, OneMore DEF AJ
    <2>2. /\ l.numberOfManualCompletions + 1 = Cardinality(BJ)
          /\ l.numberOfManualCompletions + 1 \in Nat
      BY <1>1, <1>4, <1>6, OneMore DEF BJ
    <2>3. -(l.numberOfExternals - 1) = Cardinality(CJ) /\ l.numberOfExternals - 1 \in Int
      BY <1>1, <1>4, <1>6, OneMore DEF CJ
    <2> QED BY <2>1, <2>2, <2>3
  <1>8. CASE r \in m.manual
    <2>1. /\ ActiveIn(m) \ m.manual = A /\ ActiveIn(m) \cap m.manual = BJ
          /\ (ActiveIn(m) \ m.manual) \cap m.excluded = C
          /\ m.numberOfManualCompletions = l.numberOfManualCompletions + 1
          /\ m.numberOfActiveHandles = l.numberOfActiveHandles
          /\ m.numberOfExternals = l.numberOfExternals
      BY <1>3, <1>8
    <2>2. /\ m.numberOfActiveHandles = Cardinality(ActiveIn(m) \ m.manual)
          /\ m.numberOfActiveHandles \in Nat
      BY <1>6, <1>7, <2>1
    <2>3. /\ m.numberOfManualCompletions = Cardinality(ActiveIn(m) \cap m.manual)
          /\ m.numberOfManualCompletions \in Nat
      BY <1>6, <1>7, <2>1
    <2>4. /\ -m.numberOfExternals = Cardinality((ActiveIn(m) \ m.manual) \cap m.excluded)
          /\ m.numberOfExternals \in Int
      BY <1>6, <1>7, <2>1
    <2> QED BY <2>2, <2>3, <2>4 DEF Counted
  <1>9. CASE r \notin m.manual
    <2>1. /\ ActiveIn(m) \ m.manual = AJ /\ ActiveIn(m) \cap m.manual = B
          /\ m.numberOfManualCompletions = l.numberOfManualCompletions
          /\ m.numberOfActiveHandles = l.numberOfActiveHandles + 1
      BY <1>3, <1>9
    <2>2. /\ (ActiveIn(m) \ m.manual) \cap m.excluded = IF r \in l.excluded THEN CJ ELSE C
          /\ m.numberOfExternals = IF r \in l.excluded THEN l.numberOfExternals - 1
                                   ELSE l.numberOfExternals
      BY <1>3, <1>9
    <2>3. -m.numberOfExternals = Cardinality((ActiveIn(m) \ m.manual) \cap m.excluded)
          /\ m.numberOfExternals \in Int
      <3>1. CASE r \in l.excluded
        <4>1. /\ (ActiveIn(m) \ m.manual) \cap m.excluded = CJ
              /\ m.numberOfExternals = l.numberOfExternals - 1
          BY <2>2, <3>1
        <4> QED BY <1>7, <4>1
      <3>2. CASE r \notin l.excluded
        BY <1>6, <1>7, <2>2, <3>2
      <3> QED BY <3>1, <3>2
    <2>4. /\ m.numberOfActiveHandles = Cardinality(ActiveIn(m) \ m.manual)
          /\ m.numberOfActiveHandles \in Nat
      BY <1>6, <1>7, <2>1
    <2>5. /\ m.numberOfManualCompletions = Cardinality(ActiveIn(m) \cap m.manual)
          /\ m.numberOfManualCompletions \in Nat
      BY <1>6, <1>7, <2>1
    <2> QED BY <2>3, <2>4, <2>5 DEF Counted
  <1> QED
    BY <1>8, <1>9

\* The counts of a loop whose active requests are the same.
LEMMA CountsKept ==
  ASSUME NEW l, NEW m,
         Counted(l), ActiveIn(m) = ActiveIn(l),
         ActiveIn(m) \cap m.manual = ActiveIn(l) \cap l.manual,
         ActiveIn(m) \cap m.excluded = ActiveIn(l) \cap l.excluded,
         m.numberOfSubmissions = Len(m.submissions),
         m.numberOfActiveHandles = l.numberOfActiveHandles,
         m.numberOfManualCompletions = l.numberOfManualCompletions,
         m.numberOfExternals = l.numberOfExternals
  PROVE  Counted(m)
  <1>1. /\ ActiveIn(m) \ m.manual = ActiveIn(l) \ l.manual
        /\ (ActiveIn(m) \ m.manual) \cap m.excluded = (ActiveIn(l) \ l.manual) \cap l.excluded
    OBVIOUS
  <1> QED BY <1>1 DEF Counted

-----------------------------------------------------------------------------
(* Sequences                                                               *)

LEMMA RunningIs ==
  ASSUME NEW l \in Loop, NEW again, NEW idle, NEW p \in Sequences,
         InTurn(l, again, idle), l.runningRequest[p] # Null
  PROVE  /\ l.runningRequest[p] \in Requests /\ l.setting.sequenceOf[l.runningRequest[p]] = p
         /\ l.state[l.runningRequest[p]] # "Free" /\ ~Waits(l, l.runningRequest[p])
  <1>1. l.runningRequest[p] \in Requests \cup {Null}
    BY DEF Loop
  <1> QED BY <1>1 DEF InTurn, OnItsWay

LEMMA AnyIdle ==
  ASSUME NEW l, NEW again, NEW q, Null \notin Sequences, InTurn(l, again, Null)
  PROVE  InTurn(l, again, q)
  BY DEF InTurn

LEMMA Untracked ==
  ASSUME NEW held, NEW again, NEW completing, NEW popped, NEW l, NEW q \in Sequences,
         SoundUsage, Base(l, held, completing, popped), InTurn(l, again, q)
  PROVE  /\ Sound(UntrackSequenceIfIdle(l, q), held, again, completing, popped)
         /\ \E T \in SUBSET Sequences :
              UntrackSequenceIfIdle(l, q) = [l EXCEPT !.tracked = T]
  <1> DEFINE m == UntrackSequenceIfIdle(l, q)
             T == IF q \notin l.runningAsync /\ l.queue[q] = <<>> THEN l.tracked \ {q} ELSE l.tracked
  <1>1. l \in Loop /\ T \in SUBSET Sequences
    BY DEF Base, Loop
  <1>2. m = [l EXCEPT !.tracked = T]
    BY <1>1 DEF UntrackSequenceIfIdle, Loop
  <1>3. /\ m \in Loop /\ m.setting = l.setting /\ m.asserted = l.asserted
        /\ m.state = l.state /\ m.manual = l.manual /\ m.excluded = l.excluded
        /\ m.submissions = l.submissions /\ m.cancellations = l.cancellations
        /\ m.manualCompletions = l.manualCompletions /\ m.poolCompletions = l.poolCompletions
        /\ m.numberOfSubmissions = l.numberOfSubmissions
        /\ m.numberOfActiveHandles = l.numberOfActiveHandles
        /\ m.numberOfManualCompletions = l.numberOfManualCompletions
        /\ m.numberOfExternals = l.numberOfExternals
        /\ m.queue = l.queue /\ m.runningAsync = l.runningAsync
        /\ m.runningRequest = l.runningRequest /\ m.listed = l.listed /\ m.watched = l.watched
        /\ m.task = l.task /\ m.tracked = T
    <2> HIDE DEF m, T
    <2>1. m \in Loop
      BY <1>1, <1>2 DEF Loop
    <2> QED BY <1>1, <1>2, <2>1, LoopFields
  <1> HIDE DEF m
  <1>4. Counted(m)
    BY <1>3 DEF Base, Counted, ActiveIn
  <1>5. Placed(m, held)
    BY <1>3 DEF Base, Placed, Waits
  <1>6. Tasked(m, popped)
    BY <1>3 DEF Base, Tasked
  <1>7. Registered(m, completing)
    BY <1>3 DEF Base, Registered
  <1>8. InTurn(m, again, Null)
    <2>1. \A r \in Requests : OnItsWay(m, r) <=> OnItsWay(l, r)
      BY <1>3 DEF OnItsWay, Waits
    <2>2. \A p \in Sequences : OnItsWay(m, l.runningRequest[p]) <=> OnItsWay(l, l.runningRequest[p])
      BY <1>3 DEF OnItsWay, Waits
    <2> QED BY <1>3, <2>1, <2>2 DEF InTurn
  <1>9. Base(m, held, completing, popped)
    BY <1>3, <1>4, <1>5, <1>6, <1>7 DEF Base
  <1> QED BY <1>1, <1>2, <1>8, <1>9 DEF Sound, m

LEMMA PoppedNext ==
  ASSUME NEW held, NEW again, NEW completing, NEW popped, NEW l, NEW q \in Sequences,
         SoundUsage, Base(l, held, completing, popped), InTurn(l, again, q),
         q \notin l.runningAsync, l.queue[q] # <<>>,
         again = Null \/ l.setting.sequenceOf[again] # q
  PROVE  LET m == PopNextInSequence(l, q) IN
         /\ Sound(m, held, again, completing, popped)
         /\ m.state = l.state /\ m.cancellations = l.cancellations
         /\ m.needsTeardown = l.needsTeardown /\ m.manual = l.manual /\ m.watched = l.watched
         /\ \A p \in Sequences : p # q => m.runningRequest[p] = l.runningRequest[p]
         /\ \A p \in Sequences : l.queue[p] = <<>> => m.queue[p] = <<>>
  <1> DEFINE m == PopNextInSequence(l, q)
             next == Head(l.queue[q])
  <1>1. l \in Loop /\ Null \notin Requests /\ Null \notin Sequences
    BY EventLoopAssumption DEF Base
  <1>2. /\ l.queue \in [Sequences -> Seq(Requests)] /\ l.queue[q] \in Seq(Requests)
        /\ IsInjective(l.queue[q]) /\ l.submissions \in Seq(Requests)
        /\ IsInjective(l.submissions)
    BY <1>1 DEF Base, Placed, Loop
  <1>3. /\ Tail(l.queue[q]) \in Seq(Requests) /\ IsInjective(Tail(l.queue[q]))
        /\ next \in Requests /\ Contains(l.queue[q], next)
        /\ \A x : Contains(Tail(l.queue[q]), x) <=> Contains(l.queue[q], x) /\ x # next
    BY <1>2, HeadTaken
  <1>4. l.setting.sequenceOf[next] = q /\ Waits(l, next)
    BY <1>1, <1>2, <1>3 DEF Base, Placed, Waits
  <1>5. /\ l.state[next] = "Setup" /\ next \notin held
        /\ ~Contains(l.submissions, next) /\ ~Contains(l.cancellations, next)
    BY <1>3, <1>4 DEF Base, Placed
  <1>6. /\ Append(l.submissions, next) \in Seq(Requests)
        /\ IsInjective(Append(l.submissions, next))
        /\ \A x : Contains(Append(l.submissions, next), x) <=> Contains(l.submissions, x) \/ x = next
        /\ Len(Append(l.submissions, next)) = Len(l.submissions) + 1
    BY <1>2, <1>3, <1>5, Appended
  <1>a. m \in Loop
    <2>1. /\ [l.queue EXCEPT ![q] = Tail(@)] \in [Sequences -> Seq(Requests)]
          /\ [l.runningRequest EXCEPT ![q] = next] \in [Sequences -> Requests \cup {Null}]
          /\ l.runningAsync \cup {q} \in SUBSET Sequences
          /\ l.tracked \cup {q} \in SUBSET Sequences
          /\ l.numberOfSubmissions + 1 \in Nat
      BY <1>1, <1>2, <1>3 DEF Loop
    <2> QED BY <1>1, <1>6, <2>1 DEF PopNextInSequence, Loop
  <1>7. /\ m \in Loop /\ m.setting = l.setting /\ m.asserted = l.asserted
        /\ m.state = l.state /\ m.manual = l.manual /\ m.excluded = l.excluded
        /\ m.cancellations = l.cancellations /\ m.needsTeardown = l.needsTeardown
        /\ m.manualCompletions = l.manualCompletions /\ m.poolCompletions = l.poolCompletions
        /\ m.numberOfActiveHandles = l.numberOfActiveHandles
        /\ m.numberOfManualCompletions = l.numberOfManualCompletions
        /\ m.numberOfExternals = l.numberOfExternals
        /\ m.listed = l.listed /\ m.watched = l.watched /\ m.task = l.task
    BY <1>1, <1>a DEF PopNextInSequence, Loop
  <1>8. /\ m.submissions = Append(l.submissions, next)
        /\ m.numberOfSubmissions = l.numberOfSubmissions + 1
        /\ m.queue = [l.queue EXCEPT ![q] = Tail(l.queue[q])]
        /\ m.runningAsync = l.runningAsync \cup {q} /\ m.tracked = l.tracked \cup {q}
        /\ m.runningRequest = [l.runningRequest EXCEPT ![q] = next]
    BY <1>1, <1>2 DEF PopNextInSequence, Loop
  <1>9. /\ m.queue[q] = Tail(l.queue[q]) /\ m.runningRequest[q] = next
        /\ \A p \in Sequences : p # q => m.queue[p] = l.queue[p]
        /\ \A p \in Sequences : p # q => m.runningRequest[p] = l.runningRequest[p]
    BY <1>1, <1>2, <1>8 DEF Loop
  <1> HIDE DEF m, next
  <1>10. \A r \in Requests : Waits(m, r) <=> Waits(l, r) /\ r # next
    <2>1. \A r \in Requests : l.setting.sequenceOf[r] \in Sequences \cup {Null}
      BY <1>1, SettingFacts
    <2> QED BY <1>3, <1>4, <1>7, <1>9, <2>1 DEF Waits
  <1>11. Counted(m)
    BY <1>1, <1>6, <1>7, <1>8, CountsKept DEF Base, Counted, ActiveIn
  <1>12. Placed(m, held)
    <2>1. \A p \in Sequences : IsInjective(m.queue[p]) /\
             \A r \in Requests : Contains(m.queue[p], r) => m.setting.sequenceOf[r] = p
      BY <1>3, <1>7, <1>9 DEF Base, Placed
    <2> QED BY <1>3, <1>4, <1>5, <1>6, <1>7, <1>8, <1>10, <2>1 DEF Base, Placed
  <1>13. Tasked(m, popped)
    BY <1>7 DEF Base, Tasked
  <1>14. Registered(m, completing)
    BY <1>7 DEF Base, Registered
  <1>15. l.runningRequest[q] = Null
    BY DEF InTurn
  <1>16. InTurn(m, again, Null)
    <2>1. ASSUME NEW p \in Sequences
          PROVE  /\ p \in m.runningAsync \/ m.queue[p] # <<>> => p \in m.tracked
                 /\ p \in m.tracked => p \in m.runningAsync \/ m.queue[p] # <<>> \/ p = Null
                 /\ p \in m.runningAsync <=> m.runningRequest[p] # Null
                 /\ m.runningRequest[p] # Null =>
                     /\ m.setting.sequenceOf[m.runningRequest[p]] = p
                     /\ OnItsWay(m, m.runningRequest[p])
      <3>1. CASE p = q
        BY <1>1, <1>3, <1>4, <1>5, <1>7, <1>8, <1>9, <1>10, <3>1 DEF OnItsWay
      <3>2. CASE p # q
        <4>1. l.runningRequest[p] \in Requests \cup {Null}
          BY <1>1 DEF Loop
        <4>2. l.runningRequest[p] # Null => l.runningRequest[p] # next
          BY <1>4, <3>2 DEF InTurn
        <4> QED BY <1>7, <1>8, <1>9, <1>10, <3>2, <4>1, <4>2 DEF InTurn, OnItsWay
      <3> QED BY <3>1, <3>2
    <2>2. ASSUME NEW r \in Requests, m.setting.sequenceOf[r] # Null, OnItsWay(m, r),
                 m.state[r] # "Cancelling"
          PROVE  m.runningRequest[m.setting.sequenceOf[r]] = r
                 \/ (r = again /\ m.setting.sequenceOf[r] \notin m.runningAsync)
      <3>1. m.setting.sequenceOf[r] \in Sequences
        BY <1>1, <1>7, <2>2, SettingFacts
      <3>2. CASE r = next
        BY <1>4, <1>7, <1>9, <3>2
      <3>3. CASE r # next
        <4>1. OnItsWay(l, r)
          BY <1>7, <1>10, <2>2, <3>3 DEF OnItsWay
        <4>2. l.runningRequest[l.setting.sequenceOf[r]] = r
                 \/ (r = again /\ l.setting.sequenceOf[r] \notin l.runningAsync)
          BY <1>7, <2>2, <4>1 DEF InTurn
        <4>3. l.setting.sequenceOf[r] # q
          BY <1>1, <1>15, <4>2
        <4> QED BY <1>7, <1>8, <1>9, <3>1, <4>2, <4>3
      <3> QED BY <3>2, <3>3
    <2> QED BY <2>1, <2>2 DEF InTurn
  <1>17. \A p \in Sequences : l.queue[p] = <<>> => m.queue[p] = <<>>
    BY <1>9
  <1>18. Sound(m, held, again, completing, popped)
    BY <1>7, <1>11, <1>12, <1>13, <1>14, <1>16 DEF Sound, Base
  <1> QED BY <1>7, <1>9, <1>17, <1>18 DEF m

LEMMA Submitted ==
  ASSUME NEW held, NEW again \in Requests \cup {Null}, NEW completing, NEW popped, NEW l,
         NEW r \in Requests,
         SoundUsage, Sound(l, held, again, completing, popped), l.state[r] = "Free",
         again # r,
         again # Null /\ SequenceOf[r] # Null => SequenceOf[again] # SequenceOf[r]
  PROVE  LET m == QueueSubmission(l, r) IN
         /\ Sound(m, held, again, completing, popped)
         /\ m.state = [l.state EXCEPT ![r] = "Setup"] /\ m.cancellations = l.cancellations
         /\ m.needsTeardown = l.needsTeardown /\ m.watched = l.watched
         /\ \A p \in Sequences : p # SequenceOf[r] => m.runningRequest[p] = l.runningRequest[p]
  <1> DEFINE q == SequenceOf[r]
             m == QueueSubmission(l, r)
             u == [l EXCEPT !.state[r] = "Setup"]
             v == [u EXCEPT !.submissions = Append(@, r), !.numberOfSubmissions = @ + 1]
             n == [u EXCEPT !.queue[q] = Append(@, r), !.tracked = @ \cup {q}]
  <1>1. /\ l \in Loop /\ Null \notin Requests /\ Null \notin Sequences
        /\ l.setting = loop.setting /\ q = l.setting.sequenceOf[r] /\ q \in Sequences \cup {Null}
    BY SettingFacts DEF Base, Sound, SequenceOf
  <1>2. /\ l.submissions \in Seq(Requests) /\ IsInjective(l.submissions)
        /\ l.state \in [Requests -> States] /\ [l.state EXCEPT ![r] = "Setup"] \in [Requests -> States]
        /\ l.numberOfSubmissions + 1 \in Nat
        /\ \A p \in Sequences : l.queue[p] \in Seq(Requests) /\ IsInjective(l.queue[p])
    BY <1>1 DEF Sound, Base, Placed, Loop, States
  <1>3. /\ ~Contains(l.submissions, r) /\ ~Contains(l.cancellations, r) /\ ~Waits(l, r)
        /\ r \notin held /\ r \notin l.manual /\ l.task[r] = "idle"
    BY DEF Sound, Base, Placed, Tasked
  <1>4. CASE q = Null
    <2>1. m = v
      BY <1>4 DEF QueueSubmission
    <2>2. /\ Append(l.submissions, r) \in Seq(Requests)
          /\ IsInjective(Append(l.submissions, r))
          /\ \A x : Contains(Append(l.submissions, r), x) <=> Contains(l.submissions, x) \/ x = r
          /\ Len(Append(l.submissions, r)) = Len(l.submissions) + 1
      BY <1>2, <1>3, Appended
    <2>3. v \in Loop
      BY <1>1, <1>2, <2>2 DEF Loop
    <2>4. /\ v.setting = l.setting /\ v.asserted = l.asserted
          /\ v.state = [l.state EXCEPT ![r] = "Setup"] /\ v.manual = l.manual
          /\ v.excluded = l.excluded
          /\ v.cancellations = l.cancellations /\ v.needsTeardown = l.needsTeardown
          /\ v.manualCompletions = l.manualCompletions /\ v.poolCompletions = l.poolCompletions
          /\ v.numberOfActiveHandles = l.numberOfActiveHandles
          /\ v.numberOfManualCompletions = l.numberOfManualCompletions
          /\ v.numberOfExternals = l.numberOfExternals
          /\ v.listed = l.listed /\ v.watched = l.watched /\ v.task = l.task
          /\ v.queue = l.queue /\ v.tracked = l.tracked /\ v.runningAsync = l.runningAsync
          /\ v.runningRequest = l.runningRequest
          /\ v.submissions = Append(l.submissions, r)
          /\ v.numberOfSubmissions = l.numberOfSubmissions + 1
      BY <1>1 DEF Loop
    <2> HIDE DEF v, q, m
    <2>5. v.state[r] = "Setup" /\ \A x \in Requests : x # r => v.state[x] = l.state[x]
      BY <1>2, <2>4
    <2>6. \A x \in Requests : Waits(v, x) <=> Waits(l, x)
      BY <2>4 DEF Waits
    <2>7. Counted(v)
      <3>1. ActiveIn(v) = ActiveIn(l)
        BY <2>5 DEF ActiveIn
      <3> QED BY <2>2, <2>4, <3>1, CountsKept DEF Sound, Base, Counted
    <2>8. Placed(v, held)
      BY <1>3, <2>2, <2>4, <2>5, <2>6 DEF Sound, Base, Placed
    <2>9. Tasked(v, popped)
      BY <1>3, <2>4, <2>5 DEF Sound, Base, Tasked
    <2>10. Registered(v, completing)
      BY <2>4, <2>5 DEF Sound, Base, Registered
    <2>11. InTurn(v, again, Null)
      <3>1. \A x \in Requests : x # r => (OnItsWay(v, x) <=> OnItsWay(l, x))
        BY <2>5, <2>6 DEF OnItsWay
      <3>2. ASSUME NEW p \in Sequences, l.runningRequest[p] # Null
            PROVE  l.runningRequest[p] \in Requests /\ l.runningRequest[p] # r
        BY <1>1, <3>2, RunningIs DEF Sound
      <3>3. ASSUME NEW p \in Sequences
            PROVE  /\ p \in v.runningAsync \/ v.queue[p] # <<>> => p \in v.tracked
                   /\ p \in v.tracked => p \in v.runningAsync \/ v.queue[p] # <<>> \/ p = Null
                   /\ p \in v.runningAsync <=> v.runningRequest[p] # Null
                   /\ v.runningRequest[p] # Null =>
                       /\ v.setting.sequenceOf[v.runningRequest[p]] = p
                       /\ OnItsWay(v, v.runningRequest[p])
        BY <2>4, <3>1, <3>2 DEF Sound, InTurn
      <3>4. ASSUME NEW x \in Requests, v.setting.sequenceOf[x] # Null, OnItsWay(v, x),
                   v.state[x] # "Cancelling"
            PROVE  v.runningRequest[v.setting.sequenceOf[x]] = x
                   \/ (x = again /\ v.setting.sequenceOf[x] \notin v.runningAsync)
        <4>1. x # r
          BY <1>1, <1>4, <2>4, <3>4
        <4> QED BY <2>4, <2>5, <3>1, <3>4, <4>1 DEF Sound, InTurn
      <3> QED BY <3>3, <3>4 DEF InTurn
    <2> QED
      BY <2>1, <2>3, <2>4, <2>7, <2>8, <2>9, <2>10, <2>11 DEF Sound, Base, m
  <1>5. CASE q # Null
    <2> HIDE DEF q
    <2>1. q \in Sequences
      BY <1>1, <1>5
    <2>2. /\ Append(l.queue[q], r) \in Seq(Requests)
          /\ IsInjective(Append(l.queue[q], r)) /\ Append(l.queue[q], r) # <<>>
          /\ \A x : Contains(Append(l.queue[q], r), x) <=> Contains(l.queue[q], x) \/ x = r
      <3>1. /\ ~Contains(l.queue[q], r) /\ l.queue[q] \in Seq(Requests)
            /\ IsInjective(l.queue[q])
        BY <1>1, <1>2, <1>3, <1>5, <2>1 DEF Waits
      <3> QED BY <3>1, Appended
    <2>3. n \in Loop
      <3>1. /\ [l.queue EXCEPT ![q] = Append(@, r)] \in [Sequences -> Seq(Requests)]
            /\ l.tracked \cup {q} \in SUBSET Sequences
        BY <1>1, <2>1, <2>2 DEF Loop
      <3> QED BY <1>1, <1>2, <3>1 DEF Loop
    <2>4. /\ n.setting = l.setting /\ n.asserted = l.asserted
          /\ n.state = [l.state EXCEPT ![r] = "Setup"] /\ n.manual = l.manual
          /\ n.excluded = l.excluded
          /\ n.cancellations = l.cancellations /\ n.needsTeardown = l.needsTeardown
          /\ n.manualCompletions = l.manualCompletions /\ n.poolCompletions = l.poolCompletions
          /\ n.numberOfActiveHandles = l.numberOfActiveHandles
          /\ n.numberOfManualCompletions = l.numberOfManualCompletions
          /\ n.numberOfExternals = l.numberOfExternals
          /\ n.listed = l.listed /\ n.watched = l.watched /\ n.task = l.task
          /\ n.submissions = l.submissions /\ n.numberOfSubmissions = l.numberOfSubmissions
          /\ n.queue = [l.queue EXCEPT ![q] = Append(@, r)] /\ n.tracked = l.tracked \cup {q}
          /\ n.runningAsync = l.runningAsync /\ n.runningRequest = l.runningRequest
      BY <1>1 DEF Loop
    <2> HIDE DEF n, m
    <2>5. /\ n.state[r] = "Setup" /\ \A x \in Requests : x # r => n.state[x] = l.state[x]
          /\ n.queue[q] = Append(l.queue[q], r)
          /\ \A p \in Sequences : p # q => n.queue[p] = l.queue[p]
      <3>1. l.state \in [Requests -> States] /\ l.queue \in [Sequences -> Seq(Requests)] /\ q \in Sequences
        BY <1>1, <2>1 DEF Loop
      <3> QED BY <2>4, <3>1
    <2>6. Waits(n, r) /\ \A x \in Requests : x # r => (Waits(n, x) <=> Waits(l, x))
      <3>1. \A x \in Requests : l.setting.sequenceOf[x] \in Sequences \cup {Null}
        BY <1>1, SettingFacts
      <3>2. Waits(n, r)
        <4>1. n.setting.sequenceOf[r] = q
          BY <1>1, <1>5, <2>4
        <4>2. Contains(Append(l.queue[q], r), r)
          BY <2>2
        <4>3. q # Null
          BY <1>1, <1>5, <2>1
        <4>4. Contains(n.queue[q], r)
          BY <2>5, <4>2
        <4> QED BY <4>1, <4>3, <4>4 DEF Waits
      <3>3. ASSUME NEW x \in Requests, x # r PROVE Waits(n, x) <=> Waits(l, x)
        <4>1. CASE l.setting.sequenceOf[x] = q
          BY <2>2, <2>4, <2>5, <3>3, <4>1 DEF Waits
        <4>2. CASE l.setting.sequenceOf[x] # q
          BY <2>4, <2>5, <3>1, <4>2 DEF Waits
        <4> QED BY <4>1, <4>2
      <3> QED BY <3>2, <3>3
    <2>7. Counted(n)
      <3>1. ActiveIn(n) = ActiveIn(l)
        BY <2>5 DEF ActiveIn
      <3> QED BY <2>4, <3>1, CountsKept DEF Sound, Base, Counted
    <2>8. Placed(n, held)
      <3>1. \A p \in Sequences : IsInjective(n.queue[p]) /\
               \A x \in Requests : Contains(n.queue[p], x) => n.setting.sequenceOf[x] = p
        <4>1. \A p \in Sequences : IsInjective(l.queue[p]) /\
                 \A x \in Requests : Contains(l.queue[p], x) => l.setting.sequenceOf[x] = p
          BY DEF Sound, Base, Placed
        <4>2. /\ IsInjective(n.queue[q])
              /\ \A x \in Requests : Contains(n.queue[q], x) => n.setting.sequenceOf[x] = q
          <5>1. \A x \in Requests : Contains(l.queue[q], x) => l.setting.sequenceOf[x] = q
            BY <2>1, <4>1
          <5>2. l.setting.sequenceOf[r] = q
            BY <1>1
          <5> QED BY <2>2, <2>4, <2>5, <5>1, <5>2
        <4>3. ASSUME NEW p \in Sequences, p # q
              PROVE  IsInjective(n.queue[p]) /\
                       \A x \in Requests : Contains(n.queue[p], x) => n.setting.sequenceOf[x] = p
          BY <2>4, <2>5, <4>1, <4>3
        <4> QED BY <4>2, <4>3
      <3> QED BY <1>3, <2>4, <2>5, <2>6, <3>1 DEF Sound, Base, Placed
    <2>9. Tasked(n, popped)
      BY <1>3, <2>4, <2>5 DEF Sound, Base, Tasked
    <2>10. Registered(n, completing)
      BY <2>4, <2>5 DEF Sound, Base, Registered
    <2>11. InTurn(n, again, Null)
      <3>1. /\ \A x \in Requests : x # r => (OnItsWay(n, x) <=> OnItsWay(l, x))
            /\ ~OnItsWay(n, r)
        BY <2>5, <2>6 DEF OnItsWay
      <3>2. ASSUME NEW p \in Sequences, l.runningRequest[p] # Null
            PROVE  l.runningRequest[p] \in Requests /\ l.runningRequest[p] # r
        BY <1>1, <3>2, RunningIs DEF Sound
      <3>3. ASSUME NEW p \in Sequences
            PROVE  /\ p \in n.runningAsync \/ n.queue[p] # <<>> => p \in n.tracked
                   /\ p \in n.tracked => p \in n.runningAsync \/ n.queue[p] # <<>> \/ p = Null
                   /\ p \in n.runningAsync <=> n.runningRequest[p] # Null
                   /\ n.runningRequest[p] # Null =>
                       /\ n.setting.sequenceOf[n.runningRequest[p]] = p
                       /\ OnItsWay(n, n.runningRequest[p])
        BY <2>2, <2>4, <2>5, <3>1, <3>2 DEF Sound, InTurn
      <3>4. ASSUME NEW x \in Requests, n.setting.sequenceOf[x] # Null, OnItsWay(n, x),
                   n.state[x] # "Cancelling"
            PROVE  n.runningRequest[n.setting.sequenceOf[x]] = x
                   \/ (x = again /\ n.setting.sequenceOf[x] \notin n.runningAsync)
        <4>1. x # r
          BY <3>1, <3>4
        <4> QED BY <2>4, <2>5, <3>1, <3>4, <4>1 DEF Sound, InTurn
      <3> QED BY <3>3, <3>4 DEF InTurn
    <2>12. Base(n, held, completing, popped) /\ n.queue[q] # <<>>
      BY <2>2, <2>3, <2>4, <2>5, <2>7, <2>8, <2>9, <2>10 DEF Sound, Base
    <2>13. CASE q \in l.runningAsync
      <3>1. m = n
        BY <1>5, <2>13 DEF m, n, q, QueueSubmission
      <3> QED BY <2>4, <2>11, <2>12, <3>1 DEF Sound, m, q
    <2>14. CASE q \notin l.runningAsync
      <3>1. m = PopNextInSequence(n, q)
        BY <1>5, <2>14 DEF m, n, q, QueueSubmission
      <3>2. again = Null \/ n.setting.sequenceOf[again] # q
        BY <1>1, <1>5, <2>4 DEF q, SequenceOf
      <3>3. InTurn(n, again, q)
        BY <1>1, <2>11, AnyIdle
      <3>4. n.queue[q] # <<>> /\ q \notin n.runningAsync
        BY <2>4, <2>12, <2>14
      <3>6. LET u2 == PopNextInSequence(n, q) IN
            /\ Sound(u2, held, again, completing, popped)
            /\ u2.state = n.state /\ u2.cancellations = n.cancellations
            /\ u2.needsTeardown = n.needsTeardown /\ u2.watched = n.watched
            /\ \A p \in Sequences : p # q => u2.runningRequest[p] = n.runningRequest[p]
        BY <2>1, <2>12, <3>2, <3>3, <3>4, PoppedNext
      <3>5. /\ Sound(m, held, again, completing, popped)
            /\ m.state = n.state /\ m.cancellations = n.cancellations
            /\ m.needsTeardown = n.needsTeardown /\ m.watched = n.watched
            /\ \A p \in Sequences : p # q => m.runningRequest[p] = n.runningRequest[p]
        BY <3>1, <3>6
      <3> QED BY <2>4, <3>5 DEF m, q
    <2> QED BY <2>13, <2>14
  <1> QED BY <1>4, <1>5

\* Requests that wait in a list or in none of them are forgotten.
LEMMA Cleared ==
  ASSUME NEW held, NEW again, NEW completing, NEW popped, NEW l, NEW q \in Sequences, NEW m,
         SoundUsage, Base(l, held, completing, popped), InTurn(l, again, q),
         m = ClearSequence(l, q)
  PROVE  /\ Sound(m, held, again, completing, popped)
         /\ \A x \in Requests :
              m.state[x] = IF l.setting.sequenceOf[x] = q /\ Waits(l, x) THEN "Free" ELSE l.state[x]
         /\ \A x \in Requests : l.state[x] # "Setup" =>
              m.state[x] = l.state[x] /\ (x \in m.needsTeardown <=> x \in l.needsTeardown)
         /\ \A x \in Requests : m.state[x] # l.state[x] =>
              l.state[x] = "Setup" /\ m.state[x] = "Free" /\ Waits(l, x)
         /\ m.submissions = l.submissions /\ m.cancellations = l.cancellations
         /\ m.poolCompletions = l.poolCompletions /\ m.runningRequest = l.runningRequest
         /\ m.manual = l.manual /\ m.watched = l.watched /\ m.task = l.task /\ m.queue[q] = <<>>
         /\ \A p \in Sequences : p # q => m.queue[p] = l.queue[p]
  <1> DEFINE S == ToSet(l.queue[q])
             f == [r \in Requests |-> IF r \in S THEN "Free" ELSE l.state[r]]
             n == [MarkAsFree(l, S) EXCEPT !.queue[q] = <<>>]
  <1>1. /\ l \in Loop /\ Null \notin Requests /\ Null \notin Sequences
    BY EventLoopAssumption DEF Base
  <1>2. /\ l.queue[q] \in Seq(Requests)
        /\ \A x \in Requests : Contains(l.queue[q], x) => l.setting.sequenceOf[x] = q
    BY <1>1 DEF Base, Placed, Loop
  <1>3. \A x : x \in S <=> x \in Requests /\ Contains(l.queue[q], x)
    <2>1. \A x : x \in S <=> Contains(l.queue[q], x)
      BY <1>2, LenProperties DEF ToSet, Contains
    <2> QED BY <1>2, <2>1, EmptyList
  <1>4. \A x \in S : /\ x \in Requests /\ Waits(l, x) /\ l.setting.sequenceOf[x] = q
                     /\ l.state[x] = "Setup" /\ x \notin held
                     /\ x \notin l.manual /\ l.task[x] = "idle"
                     /\ ~Contains(l.submissions, x) /\ ~Contains(l.cancellations, x)
    <2>1. \A x \in S : x \in Requests /\ Waits(l, x) /\ l.setting.sequenceOf[x] = q
      BY <1>1, <1>2, <1>3 DEF Waits
    <2> QED BY <2>1 DEF Base, Placed, Tasked
  <1> HIDE DEF S
  <1>5. f \in [Requests -> States]
    BY <1>1 DEF Loop, States
  <1>6. n \in Loop
    <2>1. [l.queue EXCEPT ![q] = <<>>] \in [Sequences -> Seq(Requests)]
      BY <1>1 DEF Loop
    <2> QED BY <1>1, <1>5, <2>1 DEF MarkAsFree, Loop
  <1>7. /\ n.setting = l.setting /\ n.asserted = l.asserted
        /\ n.state = f /\ n.manual = l.manual \ S
        /\ n.excluded = l.excluded \ S /\ n.needsTeardown = l.needsTeardown \ S
        /\ n.cancellations = l.cancellations
        /\ n.manualCompletions = l.manualCompletions /\ n.poolCompletions = l.poolCompletions
        /\ n.numberOfActiveHandles = l.numberOfActiveHandles
        /\ n.numberOfManualCompletions = l.numberOfManualCompletions
        /\ n.numberOfExternals = l.numberOfExternals
        /\ n.listed = l.listed /\ n.watched = l.watched /\ n.task = l.task
        /\ n.submissions = l.submissions /\ n.numberOfSubmissions = l.numberOfSubmissions
        /\ n.queue = [l.queue EXCEPT ![q] = <<>>] /\ n.tracked = l.tracked
        /\ n.runningAsync = l.runningAsync /\ n.runningRequest = l.runningRequest
    BY <1>1 DEF MarkAsFree, Loop
  <1>8. m = UntrackSequenceIfIdle(n, q)
    BY DEF ClearSequence, S
  <1> HIDE DEF n
  <1>9. /\ \A x \in S : n.state[x] = "Free"
        /\ \A x \in Requests : x \notin S => n.state[x] = l.state[x]
        /\ n.queue[q] = <<>> /\ \A p \in Sequences : p # q => n.queue[p] = l.queue[p]
        /\ n.manual = l.manual
    <2>1. l.queue \in [Sequences -> Seq(Requests)]
      BY <1>1 DEF Loop
    <2> QED BY <1>4, <1>7, <2>1
  <1> HIDE DEF f
  <1>10. \A x \in Requests : Waits(n, x) <=> Waits(l, x) /\ x \notin S
    <2>1. \A x \in Requests : l.setting.sequenceOf[x] \in Sequences \cup {Null}
      BY <1>1, SettingFacts
    <2>2. ASSUME NEW x \in Requests PROVE Waits(n, x) <=> Waits(l, x) /\ x \notin S
      <3>1. CASE l.setting.sequenceOf[x] = q
        BY <1>1, <1>3, <1>7, <1>9, <3>1, NothingListed DEF Waits
      <3>2. CASE l.setting.sequenceOf[x] # q
        BY <1>4, <1>7, <1>9, <2>1, <3>2 DEF Waits
      <3> QED BY <3>1, <3>2
    <2> QED BY <2>2
  <1>11. Counted(n)
    <2>1. ActiveIn(n) = ActiveIn(l) /\ \A x \in S : x \notin ActiveIn(l)
      BY <1>4, <1>9 DEF ActiveIn
    <2>2. ActiveIn(n) \cap n.excluded = ActiveIn(l) \cap l.excluded
      BY <1>7, <2>1
    <2> QED BY <1>7, <1>9, <2>1, <2>2, CountsKept DEF Base, Counted
  <1>12. Placed(n, held)
    <2>1. IsInjective(n.queue[q]) /\ \A x : ~Contains(n.queue[q], x)
      BY <1>9, NothingListed
    <2>2. \A p \in Sequences : IsInjective(n.queue[p]) /\
             \A x \in Requests : Contains(n.queue[p], x) => n.setting.sequenceOf[x] = p
      <3>1. \A p \in Sequences : p # q => IsInjective(n.queue[p]) /\
             \A x \in Requests : Contains(n.queue[p], x) => n.setting.sequenceOf[x] = p
        BY <1>7, <1>9 DEF Base, Placed
      <3> QED BY <2>1, <3>1
    <2>3. ASSUME NEW x \in Requests
          PROVE  /\ Contains(n.submissions, x) <=> x \notin held /\
                      \/ n.state[x] \in {"Setup", "Reactivate"} /\ ~Waits(n, x)
                      \/ n.state[x] = "Cancelling" /\ ~Contains(n.cancellations, x)
                 /\ Waits(n, x) => n.state[x] = "Setup" /\ x \notin held
                 /\ Contains(n.cancellations, x) => n.state[x] = "Cancelling" /\ x \notin held
                 /\ n.state[x] = "Submitting" => x \in held
                 /\ x \in held =>
                      n.state[x] \in {"Setup", "Reactivate", "Submitting", "Cancelling"}
                 /\ Contains(n.manualCompletions, x) <=> x \in n.manual
                 /\ x \in n.manual => n.state[x] = "Active" /\ n.setting.kind[x] = "write"
                 /\ x \in n.listed <=>
                      n.state[x] = "Active" /\ x \notin n.manual /\ n.setting.sequenceOf[x] = Null
      <3>1. CASE x \in S
        BY <1>4, <1>7, <1>9, <1>10, <3>1 DEF Base, Placed
      <3>2. CASE x \notin S
        BY <1>7, <1>9, <1>10, <3>2 DEF Base, Placed
      <3> QED BY <3>1, <3>2
    <2> QED BY <1>7, <2>2, <2>3 DEF Base, Placed
  <1>13. Tasked(n, popped)
    BY <1>4, <1>7, <1>9 DEF Base, Tasked
  <1>14. Registered(n, completing)
    <2>1. \A x \in S : x \in l.watched => x = completing /\ l.setting.kind[x] \in {"socket", "readiness"}
      BY <1>4 DEF Base, Registered
    <2> QED BY <1>7, <1>9, <2>1 DEF Base, Registered
  <1>15. InTurn(n, again, q)
    <2>1. /\ \A x \in Requests : x \notin S => (OnItsWay(n, x) <=> OnItsWay(l, x))
          /\ \A x \in S : ~OnItsWay(n, x)
      BY <1>9, <1>10 DEF OnItsWay
    <2>2. ASSUME NEW p \in Sequences
          PROVE  /\ p \in n.runningAsync \/ n.queue[p] # <<>> => p \in n.tracked
                 /\ p \in n.tracked => p \in n.runningAsync \/ n.queue[p] # <<>> \/ p = q
                 /\ p \in n.runningAsync <=> n.runningRequest[p] # Null
                 /\ n.runningRequest[p] # Null =>
                     /\ n.setting.sequenceOf[n.runningRequest[p]] = p
                     /\ OnItsWay(n, n.runningRequest[p])
      <3>1. ASSUME l.runningRequest[p] # Null
            PROVE  l.runningRequest[p] \in Requests /\ l.runningRequest[p] \notin S
        BY <1>1, <1>4, <3>1, RunningIs
      <3>2. l.queue[p] = <<>> => n.queue[p] = <<>>
        BY <1>9
      <3>3. p # q => n.queue[p] = l.queue[p]
        BY <1>9
      <3> QED BY <1>7, <2>1, <3>1, <3>2, <3>3 DEF InTurn
    <2>3. ASSUME NEW x \in Requests, n.setting.sequenceOf[x] # Null, OnItsWay(n, x),
                 n.state[x] # "Cancelling"
          PROVE  n.runningRequest[n.setting.sequenceOf[x]] = x
                 \/ (x = again /\ n.setting.sequenceOf[x] \notin n.runningAsync)
      <3>1. x \notin S
        BY <2>1, <2>3
      <3> QED BY <1>7, <1>9, <2>1, <2>3, <3>1 DEF InTurn
    <2> QED BY <2>2, <2>3 DEF InTurn
  <1>16. Base(n, held, completing, popped)
    BY <1>6, <1>7, <1>11, <1>12, <1>13, <1>14 DEF Base
  <1>17. /\ Sound(m, held, again, completing, popped)
         /\ \E T \in SUBSET Sequences : m = [n EXCEPT !.tracked = T]
    BY <1>8, <1>15, <1>16, Untracked
  <1>18. /\ m.state = n.state /\ m.needsTeardown = n.needsTeardown
         /\ m.submissions = n.submissions /\ m.cancellations = n.cancellations
         /\ m.poolCompletions = n.poolCompletions /\ m.runningRequest = n.runningRequest
         /\ m.manual = n.manual /\ m.watched = n.watched /\ m.task = n.task /\ m.queue = n.queue
    BY <1>6, <1>17 DEF Loop
  <1>19. \A x \in Requests : x \in S <=> l.setting.sequenceOf[x] = q /\ Waits(l, x)
    BY <1>1, <1>2, <1>3 DEF Waits
  <1>20. \A x \in Requests :
              m.state[x] = IF l.setting.sequenceOf[x] = q /\ Waits(l, x) THEN "Free" ELSE l.state[x]
    BY <1>9, <1>18, <1>19
  <1>21. /\ \A x \in Requests : l.state[x] # "Setup" =>
              m.state[x] = l.state[x] /\ (x \in m.needsTeardown <=> x \in l.needsTeardown)
         /\ \A x \in Requests : m.state[x] # l.state[x] =>
              l.state[x] = "Setup" /\ m.state[x] = "Free" /\ Waits(l, x)
    BY <1>4, <1>7, <1>9, <1>18
  <1>22. /\ m.submissions = l.submissions /\ m.cancellations = l.cancellations
         /\ m.poolCompletions = l.poolCompletions /\ m.runningRequest = l.runningRequest
         /\ m.manual = l.manual /\ m.watched = l.watched /\ m.task = l.task /\ m.queue[q] = <<>>
         /\ \A p \in Sequences : p # q => m.queue[p] = l.queue[p]
    BY <1>7, <1>9, <1>18
  <1> QED BY <1>17, <1>20, <1>21, <1>22

AfterResume(l, m, q, held, completing, popped) ==
    /\ Sound(m, held, Null, completing, popped)
    /\ m.state = l.state /\ m.cancellations = l.cancellations
    /\ m.needsTeardown = l.needsTeardown /\ m.manual = l.manual
    /\ \A p \in Sequences : l.queue[p] = <<>> => m.queue[p] = <<>>
    /\ l.queue[q] = <<>> => m.submissions = l.submissions

LEMMA Resumed ==
  ASSUME NEW held, NEW completing, NEW popped, NEW l, NEW q \in Sequences,
         SoundUsage, Base(l, held, completing, popped), InTurn(l, Null, q)
  PROVE  AfterResume(l, ResumeSequence(l, q), q, held, completing, popped)
  <1> DEFINE m == ResumeSequence(l, q)
  <1>1. l \in Loop /\ Null \notin Sequences
    BY EventLoopAssumption DEF Base
  <1>2. CASE q \in l.runningAsync
    <2>1. m = l
      BY <1>2 DEF ResumeSequence
    <2>2. InTurn(l, Null, Null)
      BY <1>2 DEF InTurn
    <2> QED BY <2>1, <2>2 DEF Sound, AfterResume
  <1>3. CASE q \notin l.runningAsync /\ l.queue[q] # <<>>
    <2>1. m = PopNextInSequence(l, q)
      BY <1>3 DEF ResumeSequence
    <2>3. LET n == PopNextInSequence(l, q) IN
          /\ Sound(n, held, Null, completing, popped)
          /\ n.state = l.state /\ n.cancellations = l.cancellations
          /\ n.needsTeardown = l.needsTeardown /\ n.manual = l.manual
          /\ \A p \in Sequences : l.queue[p] = <<>> => n.queue[p] = <<>>
      BY <1>3, PoppedNext
    <2> QED BY <1>3, <2>1, <2>3 DEF AfterResume
  <1>4. CASE q \notin l.runningAsync /\ l.queue[q] = <<>>
    <2>1. m = UntrackSequenceIfIdle(l, q)
      BY <1>4 DEF ResumeSequence
    <2>2. /\ Sound(m, held, Null, completing, popped)
          /\ \E T \in SUBSET Sequences : m = [l EXCEPT !.tracked = T]
      BY <2>1, Untracked
    <2>3. /\ m.state = l.state /\ m.cancellations = l.cancellations
          /\ m.needsTeardown = l.needsTeardown /\ m.manual = l.manual
          /\ m.queue = l.queue /\ m.submissions = l.submissions
      BY <1>1, <2>2 DEF Loop
    <2> QED BY <2>2, <2>3 DEF AfterResume
  <1> QED BY <1>2, <1>3, <1>4

-----------------------------------------------------------------------------
(* Requests that are active no more                                        *)

LEMMA ActiveRemoved ==
  ASSUME NEW l \in Loop, NEW r \in Requests, l.state[r] = "Active",
         SequenceOf[r] \in Sequences \cup {Null}, Null \notin Sequences,
         SequenceOf[r] # Null => l.runningRequest[SequenceOf[r]] \in {r, Null},
         r \in l.manual => r \notin l.listed
  PROVE  RemoveActiveHandle(l, r) =
           [l EXCEPT !.state = [l.state EXCEPT ![r] = "Free"],
                     !.runningAsync = l.runningAsync \ {SequenceOf[r]},
                     !.runningRequest = [p \in Sequences |->
                         IF p = SequenceOf[r] THEN Null ELSE l.runningRequest[p]],
                     !.tracked = {p \in l.tracked : p = SequenceOf[r] => l.queue[p] # <<>>},
                     !.numberOfManualCompletions =
                         IF r \in l.manual THEN l.numberOfManualCompletions - 1
                         ELSE l.numberOfManualCompletions,
                     !.numberOfActiveHandles =
                         IF r \in l.manual THEN l.numberOfActiveHandles
                         ELSE l.numberOfActiveHandles - 1,
                     !.numberOfExternals =
                         IF r \notin l.manual /\ r \in l.excluded THEN l.numberOfExternals + 1
                         ELSE l.numberOfExternals,
                     !.listed = l.listed \ {r}]
  <1> DEFINE q == SequenceOf[r]
             S == [l.state EXCEPT ![r] = "Free"]
             RA == l.runningAsync \ {q}
             RR == [p \in Sequences |-> IF p = q THEN Null ELSE l.runningRequest[p]]
             T == {p \in l.tracked : p = q => l.queue[p] # <<>>}
             n == [l EXCEPT !.state = S, !.runningAsync = RA, !.runningRequest = RR,
                            !.tracked = T]
             o == IF r \in l.manual THEN [n EXCEPT !.numberOfManualCompletions = @ - 1]
                  ELSE [n EXCEPT !.numberOfActiveHandles = @ - 1,
                       !.numberOfExternals = IF r \in l.excluded THEN @ + 1 ELSE @,
                       !.listed = @ \ {r}]
  <1>1. AssertRelease(l, l.state[r] = "Active") = l
    BY DEF AssertRelease
  <1>2. RemoveActiveHandle(l, r) = o
    <2>1. CASE q = Null
      <3>1. RA = l.runningAsync
        BY <2>1 DEF Loop
      <3>2. RR = l.runningRequest
        BY <2>1 DEF Loop
      <3>3. T = l.tracked
        BY <2>1 DEF Loop
      <3>4. n = [l EXCEPT !.state[r] = "Free"]
        BY <3>1, <3>2, <3>3 DEF Loop
      <3> HIDE DEF n
      <3> DEFINE y == AssertRelease(l, l.state[r] = "Active")
      <3>5. n = [y EXCEPT !.state[r] = "Free"]
        BY <1>1, <3>4
      <3> HIDE DEF y
      <3> QED BY <2>1, <3>5 DEF RemoveActiveHandle, y
    <2>2. CASE q # Null
      <3> DEFINE u == [[l EXCEPT !.state[r] = "Free"] EXCEPT !.runningAsync = @ \ {q},
                      !.runningRequest[q] = IF @ = r THEN Null ELSE @]
                 v == [l EXCEPT !.state = S, !.runningAsync = RA, !.runningRequest = RR]
      <3>1. RR = [l.runningRequest EXCEPT ![q] = IF @ = r THEN Null ELSE @]
        BY <2>2 DEF Loop
      <3>2. u = v
        BY <2>2, <3>1 DEF Loop
      <3>3. /\ v.runningAsync = l.runningAsync \ {q} /\ v.queue = l.queue /\ v.tracked = l.tracked
        BY DEF Loop
      <3>4. UntrackSequenceIfIdle(v, q) = n
        <4>1. CASE l.queue[q] = <<>>
          <5>1. T = l.tracked \ {q}
            BY <4>1
          <5>2. UntrackSequenceIfIdle(v, q) = [v EXCEPT !.tracked = l.tracked \ {q}]
            BY <3>3, <4>1 DEF UntrackSequenceIfIdle
          <5> QED BY <5>1, <5>2 DEF Loop
        <4>2. CASE l.queue[q] # <<>>
          <5>1. T = l.tracked
            BY <4>2
          <5>2. UntrackSequenceIfIdle(v, q) = v
            BY <3>3, <4>2 DEF UntrackSequenceIfIdle
          <5> QED BY <5>1, <5>2 DEF Loop
        <4> QED BY <4>1, <4>2
      <3> DEFINE a == AssertRelease(l, l.state[r] = "Active")
                 w == UntrackSequenceIfIdle([[a EXCEPT !.state[r] = "Free"] EXCEPT
                          !.runningAsync = @ \ {q},
                          !.runningRequest[q] = IF @ = r THEN Null ELSE @], q)
      <3>6. w = UntrackSequenceIfIdle(u, q)
        BY <1>1
      <3>7. RemoveActiveHandle(l, r) =
              IF r \in l.manual
              THEN [w EXCEPT !.numberOfManualCompletions = @ - 1]
              ELSE [w EXCEPT !.numberOfActiveHandles = @ - 1,
                       !.numberOfExternals = IF r \in l.excluded THEN @ + 1 ELSE @,
                       !.listed = @ \ {r}]
        BY <2>2 DEF RemoveActiveHandle
      <3> HIDE DEF w
      <3>5. RemoveActiveHandle(l, r) =
              IF r \in l.manual
              THEN [UntrackSequenceIfIdle(u, q) EXCEPT !.numberOfManualCompletions = @ - 1]
              ELSE [UntrackSequenceIfIdle(u, q) EXCEPT !.numberOfActiveHandles = @ - 1,
                       !.numberOfExternals = IF r \in l.excluded THEN @ + 1 ELSE @,
                       !.listed = @ \ {r}]
        BY <3>6, <3>7
      <3> HIDE DEF u, v, n
      <3> QED BY <3>2, <3>4, <3>5
    <2> QED BY <2>1, <2>2
  <1> HIDE DEF S, RA, RR, T
  <1>3. /\ n.numberOfManualCompletions = l.numberOfManualCompletions /\ n.listed = l.listed
        /\ n.numberOfActiveHandles = l.numberOfActiveHandles
        /\ n.numberOfExternals = l.numberOfExternals
    BY DEF Loop
  <1>4. CASE r \in l.manual
    <2>1. l.listed = l.listed \ {r}
      BY <1>4
    <2>2. o = [l EXCEPT !.state = S, !.runningAsync = RA, !.runningRequest = RR, !.tracked = T,
                 !.numberOfManualCompletions = l.numberOfManualCompletions - 1,
                 !.numberOfActiveHandles = l.numberOfActiveHandles,
                 !.numberOfExternals = l.numberOfExternals, !.listed = l.listed]
      BY <1>3, <1>4, LoopFields
    <2> QED BY <1>2, <1>4, <2>1, <2>2 DEF S, RA, RR, T
  <1>5. CASE r \notin l.manual /\ r \in l.excluded
    <2>2. o = [l EXCEPT !.state = S, !.runningAsync = RA, !.runningRequest = RR, !.tracked = T,
                 !.numberOfManualCompletions = l.numberOfManualCompletions,
                 !.numberOfActiveHandles = l.numberOfActiveHandles - 1,
                 !.numberOfExternals = l.numberOfExternals + 1, !.listed = l.listed \ {r}]
      BY <1>3, <1>5, LoopFields
    <2> QED BY <1>2, <1>5, <2>2 DEF S, RA, RR, T
  <1>6. CASE r \notin l.manual /\ r \notin l.excluded
    <2>2. o = [l EXCEPT !.state = S, !.runningAsync = RA, !.runningRequest = RR, !.tracked = T,
                 !.numberOfManualCompletions = l.numberOfManualCompletions,
                 !.numberOfActiveHandles = l.numberOfActiveHandles - 1,
                 !.numberOfExternals = l.numberOfExternals, !.listed = l.listed \ {r}]
      BY <1>3, <1>6, LoopFields
    <2> QED BY <1>2, <1>6, <2>2 DEF S, RA, RR, T
  <1> QED BY <1>4, <1>5, <1>6

\* The loop `m` after `r` left the active requests of `l`, to be free or to be cancelled.
Left(l, m, r, st) ==
    LET q == l.setting.sequenceOf[r] IN
    /\ m.setting = l.setting /\ m.asserted = l.asserted
    /\ m.state = [l.state EXCEPT ![r] = st]
    /\ m.runningAsync = l.runningAsync \ {q}
    /\ m.runningRequest = [p \in Sequences |-> IF p = q THEN Null ELSE l.runningRequest[p]]
    /\ m.tracked = {p \in l.tracked : p = q => l.queue[p] # <<>>}
    /\ m.queue = l.queue /\ m.cancellations = l.cancellations
    /\ m.excluded = l.excluded /\ m.watched = l.watched
    /\ m.listed = l.listed \ {r} /\ m.manual = l.manual \ {r}
    /\ IsInjective(m.manualCompletions)
    /\ \A x \in Requests : Contains(m.manualCompletions, x) <=> Contains(l.manualCompletions, x) /\ x # r

LEMMA TurnEnds ==
  ASSUME NEW held, NEW again \in Requests \cup {Null}, NEW completing, NEW popped, NEW l,
         NEW r \in Requests, NEW m, NEW st \in {"Free", "Cancelling"},
         SoundUsage, Sound(l, held, again, completing, popped), l.state[r] = "Active",
         Left(l, m, r, st)
  PROVE  InTurn(m, again, Null)
  <1> DEFINE q == l.setting.sequenceOf[r]
  <1>1. /\ l \in Loop /\ Null \notin Requests /\ Null \notin Sequences
        /\ q \in Sequences \cup {Null}
    BY SettingFacts DEF Base, Sound
  <1>2. m.state[r] = st /\ \A x \in Requests : x # r => m.state[x] = l.state[x]
    BY <1>1 DEF Left, Loop
  <1>3. \A x \in Requests : Waits(m, x) <=> Waits(l, x)
    BY DEF Left, Waits
  <1>4. \A x \in Requests : x # r => (OnItsWay(m, x) <=> OnItsWay(l, x))
    BY <1>2, <1>3 DEF OnItsWay
  <1>5. OnItsWay(l, r)
    BY DEF Sound, Base, Placed, OnItsWay
  <1>6. q # Null => l.runningRequest[q] = r \/ (r = again /\ q \notin l.runningAsync)
    BY <1>5 DEF Sound, InTurn
  <1>7. \A p \in Sequences : m.runningRequest[p] = IF p = q THEN Null ELSE l.runningRequest[p]
    BY DEF Left
  <1>8. /\ m.setting = l.setting /\ m.queue = l.queue /\ m.runningAsync = l.runningAsync \ {q}
        /\ m.tracked = {p \in l.tracked : p = q => l.queue[p] # <<>>}
    BY DEF Left
  <1> HIDE DEF q
  <1>9. ASSUME NEW p \in Sequences
        PROVE  /\ p \in m.runningAsync \/ m.queue[p] # <<>> => p \in m.tracked
               /\ p \in m.tracked => p \in m.runningAsync \/ m.queue[p] # <<>> \/ p = Null
               /\ p \in m.runningAsync <=> m.runningRequest[p] # Null
               /\ m.runningRequest[p] # Null =>
                   /\ m.setting.sequenceOf[m.runningRequest[p]] = p
                   /\ OnItsWay(m, m.runningRequest[p])
    <2>1. CASE p = q
      BY <1>1, <1>7, <1>8, <2>1 DEF Sound, InTurn
    <2>2. CASE p # q
      <3>1. /\ p \in l.runningAsync \/ l.queue[p] # <<>> => p \in l.tracked
            /\ p \in l.tracked => p \in l.runningAsync \/ l.queue[p] # <<>> \/ p = Null
            /\ p \in l.runningAsync <=> l.runningRequest[p] # Null
            /\ l.runningRequest[p] # Null => OnItsWay(l, l.runningRequest[p])
        BY DEF Sound, InTurn
      <3>2. l.runningRequest[p] # Null =>
              /\ l.runningRequest[p] \in Requests /\ l.setting.sequenceOf[l.runningRequest[p]] = p
              /\ l.runningRequest[p] # r
        BY <1>1, <2>2, RunningIs DEF Sound, q
      <3> QED BY <1>4, <1>7, <1>8, <2>2, <3>1, <3>2
    <2> QED BY <2>1, <2>2
  <1>10. ASSUME NEW x \in Requests, m.setting.sequenceOf[x] # Null, OnItsWay(m, x),
                m.state[x] # "Cancelling"
         PROVE  m.runningRequest[m.setting.sequenceOf[x]] = x
                \/ (x = again /\ m.setting.sequenceOf[x] \notin m.runningAsync)
    <2>1. x # r
      BY <1>2, <1>10 DEF OnItsWay
    <2>2. l.setting.sequenceOf[x] \in Sequences
      BY <1>1, <1>8, <1>10, SettingFacts
    <2>3. l.runningRequest[l.setting.sequenceOf[x]] = x
          \/ (x = again /\ l.setting.sequenceOf[x] \notin l.runningAsync)
      BY <1>2, <1>4, <1>8, <1>10, <2>1 DEF Sound, InTurn
    <2>4. CASE l.setting.sequenceOf[x] = q
      <3>1. x = again /\ q \notin l.runningAsync
        BY <1>1, <1>6, <2>1, <2>2, <2>3, <2>4 DEF Sound, InTurn
      <3> QED BY <1>8, <2>4, <3>1
    <2>5. CASE l.setting.sequenceOf[x] # q
      BY <1>7, <1>8, <2>2, <2>3, <2>5
    <2> QED BY <2>4, <2>5
  <1> QED BY <1>9, <1>10 DEF InTurn

LEMMA Finished ==
  ASSUME NEW held, NEW again \in Requests \cup {Null}, NEW done, NEW popped,
         NEW l, NEW r \in Requests, NEW m,
         SoundUsage, Sound(l, held, again, Null, popped), l.state[r] = "Active",
         Left(l, m, r, "Free"), m \in Loop, Counted(m), m.submissions = l.submissions,
         m.task = [l.task EXCEPT ![r] = "idle"], IsInjective(m.poolCompletions),
         \A x \in Requests : Contains(m.poolCompletions, x) <=> Contains(l.poolCompletions, x) /\ x # r,
         done = r \/ l.setting.kind[r] \notin {"socket", "readiness"}
  PROVE  Sound(m, held, again, done, popped)
  <1>1. /\ l \in Loop /\ Null \notin Requests /\ Null \notin Sequences
    BY SettingFacts DEF Base, Sound
  <1>2. /\ m.state[r] = "Free" /\ \A x \in Requests : x # r => m.state[x] = l.state[x]
        /\ m.task[r] = "idle" /\ \A x \in Requests : x # r => m.task[x] = l.task[x]
    BY <1>1 DEF Left, Loop
  <1>3. \A x \in Requests : Waits(m, x) <=> Waits(l, x)
    BY DEF Left, Waits
  <1>4. /\ ~Contains(l.submissions, r) /\ ~Contains(l.cancellations, r) /\ ~Waits(l, r)
        /\ r \notin held
    BY DEF Sound, Base, Placed
  <1>5. Placed(m, held)
    <2>1. ASSUME NEW x \in Requests
          PROVE  /\ Contains(m.submissions, x) <=> x \notin held /\
                      \/ m.state[x] \in {"Setup", "Reactivate"} /\ ~Waits(m, x)
                      \/ m.state[x] = "Cancelling" /\ ~Contains(m.cancellations, x)
                 /\ Waits(m, x) => m.state[x] = "Setup" /\ x \notin held
                 /\ Contains(m.cancellations, x) => m.state[x] = "Cancelling" /\ x \notin held
                 /\ m.state[x] = "Submitting" => x \in held
                 /\ x \in held =>
                      m.state[x] \in {"Setup", "Reactivate", "Submitting", "Cancelling"}
                 /\ Contains(m.manualCompletions, x) <=> x \in m.manual
                 /\ x \in m.manual => m.state[x] = "Active" /\ m.setting.kind[x] = "write"
                 /\ x \in m.listed <=>
                      m.state[x] = "Active" /\ x \notin m.manual /\ m.setting.sequenceOf[x] = Null
      <3>1. CASE x = r
        BY <1>2, <1>3, <1>4, <3>1 DEF Left, Sound, Base, Placed
      <3>2. CASE x # r
        BY <1>2, <1>3, <3>2 DEF Left, Sound, Base, Placed
      <3> QED BY <3>1, <3>2
    <2> QED BY <2>1 DEF Left, Sound, Base, Placed
  <1>6. Tasked(m, popped)
    BY <1>2 DEF Left, Sound, Base, Tasked
  <1>7. Registered(m, done)
    BY <1>1, <1>2 DEF Left, Sound, Base, Registered
  <1>8. InTurn(m, again, Null)
    BY TurnEnds
  <1> QED BY <1>5, <1>6, <1>7, <1>8 DEF Left, Sound, Base

LEMMA Stopped ==
  ASSUME NEW held, NEW again \in Requests \cup {Null}, NEW completing, NEW popped, NEW l,
         NEW r \in Requests, NEW m,
         SoundUsage, Sound(l, held, again, completing, popped), l.state[r] = "Active",
         Left(l, m, r, "Cancelling"), m \in Loop, Counted(m), IsInjective(m.submissions),
         \A x : Contains(m.submissions, x) <=> Contains(l.submissions, x) \/ x = r,
         m.task = l.task, IsInjective(m.poolCompletions),
         \A x \in Requests : x # r => (Contains(m.poolCompletions, x) <=> Contains(l.poolCompletions, x)),
         \/ Contains(m.poolCompletions, r) <=> Contains(l.poolCompletions, r)
         \/ popped /\ ~Contains(m.poolCompletions, r)
  PROVE  Sound(m, held, again, completing, popped)
  <1>1. /\ l \in Loop /\ Null \notin Requests /\ Null \notin Sequences
    BY SettingFacts DEF Base, Sound
  <1>2. m.state[r] = "Cancelling" /\ \A x \in Requests : x # r => m.state[x] = l.state[x]
    BY <1>1 DEF Left, Loop
  <1>3. \A x \in Requests : Waits(m, x) <=> Waits(l, x)
    BY DEF Left, Waits
  <1>4. /\ ~Contains(l.submissions, r) /\ ~Contains(l.cancellations, r) /\ ~Waits(l, r)
        /\ r \notin held
    BY DEF Sound, Base, Placed
  <1>5. Placed(m, held)
    <2>1. ASSUME NEW x \in Requests
          PROVE  /\ Contains(m.submissions, x) <=> x \notin held /\
                      \/ m.state[x] \in {"Setup", "Reactivate"} /\ ~Waits(m, x)
                      \/ m.state[x] = "Cancelling" /\ ~Contains(m.cancellations, x)
                 /\ Waits(m, x) => m.state[x] = "Setup" /\ x \notin held
                 /\ Contains(m.cancellations, x) => m.state[x] = "Cancelling" /\ x \notin held
                 /\ m.state[x] = "Submitting" => x \in held
                 /\ x \in held =>
                      m.state[x] \in {"Setup", "Reactivate", "Submitting", "Cancelling"}
                 /\ Contains(m.manualCompletions, x) <=> x \in m.manual
                 /\ x \in m.manual => m.state[x] = "Active" /\ m.setting.kind[x] = "write"
                 /\ x \in m.listed <=>
                      m.state[x] = "Active" /\ x \notin m.manual /\ m.setting.sequenceOf[x] = Null
      <3>1. CASE x = r
        BY <1>2, <1>3, <1>4, <3>1 DEF Left, Sound, Base, Placed
      <3>2. CASE x # r
        BY <1>2, <1>3, <3>2 DEF Left, Sound, Base, Placed
      <3> QED BY <3>1, <3>2
    <2> QED BY <2>1 DEF Left, Sound, Base, Placed
  <1>6. Tasked(m, popped)
    <2>1. ASSUME NEW x \in Requests
          PROVE  /\ Contains(m.poolCompletions, x) => m.task[x] \in {"pushed", "done"}
                 /\ m.task[x] \in {"pushed", "done"} =>
                      Contains(m.poolCompletions, x) \/ (m.state[x] = "Cancelling" /\ popped)
                 /\ m.task[x] # "idle" =>
                      /\ m.setting.kind[x] = "work"
                      /\ \/ m.state[x] = "Active"
                         \/ m.state[x] = "Cancelling" /\ ~Contains(m.cancellations, x)
      <3>1. CASE x = r
        BY <1>2, <1>4, <3>1 DEF Left, Sound, Base, Tasked
      <3>2. CASE x # r
        BY <1>2, <3>2 DEF Left, Sound, Base, Tasked
      <3> QED BY <3>1, <3>2
    <2> QED BY <2>1 DEF Tasked
  <1>7. Registered(m, completing)
    BY <1>1, <1>2, <1>4 DEF Left, Sound, Base, Registered
  <1>8. InTurn(m, again, Null)
    BY TurnEnds
  <1> QED BY <1>5, <1>6, <1>7, <1>8 DEF Left, Sound, Base

\* What RemoveActiveHandle relies on.
LEMMA MayLeave ==
  ASSUME NEW held, NEW again, NEW l \in Loop, NEW r \in Requests,
         SoundUsage, l.setting = loop.setting, Placed(l, held), InTurn(l, again, Null),
         l.state[r] = "Active"
  PROVE  /\ l \in Loop /\ SequenceOf[r] = l.setting.sequenceOf[r]
         /\ SequenceOf[r] \in Sequences \cup {Null} /\ Null \notin Sequences
         /\ Null \notin Requests
         /\ SequenceOf[r] # Null => l.runningRequest[SequenceOf[r]] \in {r, Null}
         /\ r \in l.manual => r \notin l.listed
         /\ r \in l.manual => l.setting.kind[r] = "write"
         /\ ~Contains(l.submissions, r) /\ ~Contains(l.cancellations, r) /\ ~Waits(l, r)
  <1>1. /\ l \in Loop /\ SequenceOf[r] = l.setting.sequenceOf[r]
        /\ SequenceOf[r] \in Sequences \cup {Null} /\ Null \notin Sequences /\ Null \notin Requests
    BY SettingFacts DEF SequenceOf
  <1>2. /\ r \in l.manual => r \notin l.listed
        /\ r \in l.manual => l.setting.kind[r] = "write"
        /\ ~Contains(l.submissions, r) /\ ~Contains(l.cancellations, r) /\ ~Waits(l, r)
    BY DEF Placed
  <1>4. SequenceOf[r] # Null => l.runningRequest[SequenceOf[r]] \in {r, Null}
    BY <1>1, <1>2 DEF InTurn, OnItsWay
  <1> QED BY <1>1, <1>2, <1>4

\* What the counts get when `r` leaves.
LEMMA LessOne ==
  ASSUME NEW l \in Loop, NEW r \in Requests,
         Counted(l), l.state[r] = "Active"
  PROVE  /\ (IF r \in l.manual THEN l.numberOfManualCompletions - 1
             ELSE l.numberOfManualCompletions) \in Nat
         /\ (IF r \in l.manual THEN l.numberOfActiveHandles
             ELSE l.numberOfActiveHandles - 1) \in Nat
         /\ (IF r \notin l.manual /\ r \in l.excluded THEN l.numberOfExternals + 1
             ELSE l.numberOfExternals) \in Int
  <1> DEFINE m == [l EXCEPT !.state = [l.state EXCEPT ![r] = "Free"],
                       !.numberOfManualCompletions =
                         IF r \in l.manual THEN l.numberOfManualCompletions - 1
                         ELSE l.numberOfManualCompletions,
                     !.numberOfActiveHandles =
                         IF r \in l.manual THEN l.numberOfActiveHandles
                         ELSE l.numberOfActiveHandles - 1,
                     !.numberOfExternals =
                         IF r \notin l.manual /\ r \in l.excluded THEN l.numberOfExternals + 1
                         ELSE l.numberOfExternals]
  <1>1. /\ m.state = [l.state EXCEPT ![r] = "Free"]
        /\ m.manual = l.manual /\ m.excluded = l.excluded
        /\ m.submissions = l.submissions /\ m.numberOfSubmissions = l.numberOfSubmissions
        /\ m.numberOfManualCompletions = IF r \in l.manual THEN l.numberOfManualCompletions - 1
                         ELSE l.numberOfManualCompletions
        /\ m.numberOfActiveHandles = IF r \in l.manual THEN l.numberOfActiveHandles
                         ELSE l.numberOfActiveHandles - 1
        /\ m.numberOfExternals =
                         IF r \notin l.manual /\ r \in l.excluded THEN l.numberOfExternals + 1
                         ELSE l.numberOfExternals
    BY DEF Loop
  <1> HIDE DEF m
  <1>2. ActiveIn(m) = ActiveIn(l) \ {r}
    <2>1. m.state[r] = "Free" /\ \A x \in Requests : x # r => m.state[x] = l.state[x]
      BY <1>1 DEF Loop
    <2> QED BY <2>1 DEF ActiveIn
  <1>3. m.numberOfSubmissions = Len(m.submissions)
    BY <1>1 DEF Counted
  <1>4. /\ m.numberOfManualCompletions \in Nat /\ m.numberOfActiveHandles \in Nat
        /\ m.numberOfExternals \in Int
    BY <1>1, <1>2, <1>3, CountsLeave
  <1> QED BY <1>1, <1>4

LEMMA TimerExpired ==
  ASSUME NEW held, NEW again \in Requests \cup {Null}, NEW popped, NEW l,
         NEW r \in Requests,
         SoundUsage, Sound(l, held, again, Null, popped), l.setting = loop.setting,
         l.state[r] = "Active", l.setting.kind[r] = "timeout"
  PROVE  LET m == RemoveActiveHandle(l, r) IN
         /\ Sound(m, held, again, Null, popped)
         /\ m.state = [l.state EXCEPT ![r] = "Free"]
         /\ m.cancellations = l.cancellations /\ m.needsTeardown = l.needsTeardown
         /\ m.queue = l.queue /\ m.runningAsync = l.runningAsync \ {l.setting.sequenceOf[r]}
         /\ \A p \in Sequences : p # SequenceOf[r] => m.runningRequest[p] = l.runningRequest[p]
  <1> DEFINE m == RemoveActiveHandle(l, r)
  <1>1. /\ l \in Loop /\ SequenceOf[r] = l.setting.sequenceOf[r]
        /\ SequenceOf[r] \in Sequences \cup {Null} /\ Null \notin Sequences
        /\ Null \notin Requests
        /\ SequenceOf[r] # Null => l.runningRequest[SequenceOf[r]] \in {r, Null}
        /\ r \in l.manual => r \notin l.listed
        /\ r \notin l.manual /\ l.task[r] = "idle" /\ ~Contains(l.poolCompletions, r)
    <2>1. /\ l.task[r] # "idle" => l.setting.kind[r] = "work"
          /\ Contains(l.poolCompletions, r) => l.setting.kind[r] = "work"
      BY DEF Sound, Base, Tasked
    <2> QED BY <2>1, MayLeave DEF Sound, Base
  <1> DEFINE q == SequenceOf[r]
             S == [l.state EXCEPT ![r] = "Free"]
             RA == l.runningAsync \ {q}
             RR == [p \in Sequences |-> IF p = q THEN Null ELSE l.runningRequest[p]]
             T == {p \in l.tracked : p = q => l.queue[p] # <<>>}
             NM == IF r \in l.manual THEN l.numberOfManualCompletions - 1
                         ELSE l.numberOfManualCompletions
             NA == IF r \in l.manual THEN l.numberOfActiveHandles
                         ELSE l.numberOfActiveHandles - 1
             NE == IF r \notin l.manual /\ r \in l.excluded THEN l.numberOfExternals + 1
                         ELSE l.numberOfExternals
  <1>2. m = [l EXCEPT !.state = S, !.runningAsync = RA, !.runningRequest = RR, !.tracked = T,
                      !.numberOfManualCompletions = NM, !.numberOfActiveHandles = NA,
                      !.numberOfExternals = NE, !.listed = l.listed \ {r}]
    BY <1>1, ActiveRemoved
  <1> HIDE DEF m
  <1>3. /\ NM \in Nat /\ NA \in Nat /\ NE \in Int
    BY <1>1, LessOne DEF Sound, Base
  <1>4. S \in [Requests -> States] /\ RR \in [Sequences -> Requests \cup {Null}]
    BY <1>1 DEF Loop, States
  <1> HIDE DEF S, NM, NA, NE, RR, RA, T
  <1>5. m \in Loop
    <2>1. RA \in SUBSET Sequences /\ T \in SUBSET Sequences
      BY <1>1 DEF Loop, RA, T
    <2> QED BY <1>1, <1>2, <1>3, <1>4, <2>1 DEF Loop
  <1>6. /\ m.setting = l.setting /\ m.asserted = l.asserted /\ m.state = S
        /\ m.runningAsync = RA /\ m.runningRequest = RR /\ m.tracked = T /\ m.queue = l.queue
        /\ m.cancellations = l.cancellations /\ m.needsTeardown = l.needsTeardown
        /\ m.excluded = l.excluded /\ m.watched = l.watched /\ m.listed = l.listed \ {r}
        /\ m.manual = l.manual /\ m.manualCompletions = l.manualCompletions
        /\ m.submissions = l.submissions /\ m.numberOfSubmissions = l.numberOfSubmissions
        /\ m.task = l.task /\ m.poolCompletions = l.poolCompletions
        /\ m.numberOfManualCompletions = NM /\ m.numberOfActiveHandles = NA
        /\ m.numberOfExternals = NE
    BY <1>1, <1>2 DEF Loop
  <1>7. IsInjective(l.manualCompletions) /\ ~Contains(l.manualCompletions, r)
        /\ IsInjective(l.poolCompletions)
    BY <1>1 DEF Sound, Base, Placed, Tasked
  <1>8. Left(l, m, r, "Free")
    <2>1. m.manual = l.manual \ {r}
      BY <1>1, <1>6
    <2>2. \A x \in Requests : Contains(m.manualCompletions, x) <=> Contains(l.manualCompletions, x) /\ x # r
      BY <1>6, <1>7
    <2> QED BY <1>1, <1>6, <1>7, <2>1, <2>2 DEF Left, S, RA, RR, T
  <1>9. Counted(m)
    <2>1. ActiveIn(m) = ActiveIn(l) \ {r}
      <3>1. m.state[r] = "Free" /\ \A x \in Requests : x # r => m.state[x] = l.state[x]
        BY <1>1, <1>6 DEF Loop, S
      <3> QED BY <3>1 DEF ActiveIn
    <2>2. Counted(l) /\ m.numberOfSubmissions = Len(m.submissions)
      BY <1>6 DEF Sound, Base, Counted
    <2> QED BY <1>1, <1>6, <2>1, <2>2, CountsLeave DEF NM, NA, NE
  <1>10. m.task = [l.task EXCEPT ![r] = "idle"]
    BY <1>1, <1>6 DEF Loop
  <1>11. Sound(m, held, again, Null, popped)
    <2>1. \A x \in Requests : Contains(m.poolCompletions, x) <=> Contains(l.poolCompletions, x) /\ x # r
      BY <1>1, <1>6
    <2>2. IsInjective(m.poolCompletions) /\ m.submissions = l.submissions
      BY <1>6, <1>7
    <2>3. Null = r \/ l.setting.kind[r] \notin {"socket", "readiness"}
      OBVIOUS
    <2> QED BY <1>5, <1>8, <1>9, <1>10, <2>1, <2>2, <2>3, Finished
  <1>12. \A p \in Sequences : p # SequenceOf[r] => m.runningRequest[p] = l.runningRequest[p]
    BY <1>6 DEF RR, q
  <1> QED BY <1>1, <1>6, <1>11, <1>12 DEF S, RA, m, q

\* A loop with other lists; names that the provers match.
WithPool(l, pc) == [l EXCEPT !.poolCompletions = pc]
WithLists(l, mc, pc) == [l EXCEPT !.manualCompletions = mc, !.poolCompletions = pc]

AfterCompletion(l, m, r, held, again, popped) ==
    /\ Sound(m, held, again, r, popped)
    /\ m.state = [l.state EXCEPT ![r] = "Free"]
    /\ m.cancellations = l.cancellations /\ m.needsTeardown = l.needsTeardown \cup {r}
    /\ m.queue = l.queue /\ m.watched = l.watched

LEMMA Completed ==
  ASSUME NEW held, NEW again \in Requests \cup {Null}, NEW popped, NEW l,
         NEW r \in Requests, NEW mc \in Seq(Requests), NEW pc \in Seq(Requests),
         SoundUsage, Sound(l, held, again, Null, popped), l.state[r] = "Active",
         IsInjective(mc),
         \A x \in Requests : Contains(mc, x) <=> Contains(l.manualCompletions, x) /\ x # r,
         IsInjective(pc),
         \A x \in Requests : Contains(pc, x) <=> Contains(l.poolCompletions, x) /\ x # r
  PROVE  AfterCompletion(l, BeginComplete(WithLists(l, mc, pc), r), r, held, again, popped)
  <1> DEFINE k == WithLists(l, mc, pc)
             m == BeginComplete(k, r)
  <1>1. /\ l \in Loop /\ SequenceOf[r] = l.setting.sequenceOf[r]
        /\ SequenceOf[r] \in Sequences \cup {Null} /\ Null \notin Sequences
        /\ Null \notin Requests
        /\ SequenceOf[r] # Null => l.runningRequest[SequenceOf[r]] \in {r, Null}
        /\ r \in l.manual => r \notin l.listed
    BY MayLeave DEF Sound, Base
  <1>2. /\ k \in Loop /\ k.setting = l.setting /\ k.asserted = l.asserted /\ k.state = l.state
        /\ k.runningAsync = l.runningAsync /\ k.runningRequest = l.runningRequest
        /\ k.tracked = l.tracked /\ k.queue = l.queue
        /\ k.cancellations = l.cancellations /\ k.needsTeardown = l.needsTeardown
        /\ k.excluded = l.excluded /\ k.watched = l.watched /\ k.listed = l.listed
        /\ k.manual = l.manual /\ k.manualCompletions = mc
        /\ k.submissions = l.submissions /\ k.numberOfSubmissions = l.numberOfSubmissions
        /\ k.task = l.task /\ k.poolCompletions = pc
        /\ k.numberOfManualCompletions = l.numberOfManualCompletions
        /\ k.numberOfActiveHandles = l.numberOfActiveHandles
        /\ k.numberOfExternals = l.numberOfExternals
    BY <1>1 DEF Loop, WithLists, WithPool
  <1> HIDE DEF k
  <1> DEFINE q == SequenceOf[r]
             S == [k.state EXCEPT ![r] = "Free"]
             RA == k.runningAsync \ {q}
             RR == [p \in Sequences |-> IF p = q THEN Null ELSE k.runningRequest[p]]
             T == {p \in k.tracked : p = q => k.queue[p] # <<>>}
             NM == IF r \in k.manual THEN k.numberOfManualCompletions - 1
                         ELSE k.numberOfManualCompletions
             NA == IF r \in k.manual THEN k.numberOfActiveHandles
                         ELSE k.numberOfActiveHandles - 1
             NE == IF r \notin k.manual /\ r \in k.excluded THEN k.numberOfExternals + 1
                         ELSE k.numberOfExternals
             v == [k EXCEPT !.state = S, !.runningAsync = RA, !.runningRequest = RR, !.tracked = T,
                      !.numberOfManualCompletions = NM, !.numberOfActiveHandles = NA,
                      !.numberOfExternals = NE, !.listed = k.listed \ {r}]
  <1>3. RemoveActiveHandle(k, r) = v
    <2>1. /\ k \in Loop /\ k.state[r] = "Active"
          /\ SequenceOf[r] \in Sequences \cup {Null} /\ Null \notin Sequences
          /\ SequenceOf[r] # Null => k.runningRequest[SequenceOf[r]] \in {r, Null}
          /\ r \in k.manual => r \notin k.listed
      BY <1>1, <1>2
    <2> QED BY <2>1, ActiveRemoved
  <1>4. m = [v EXCEPT !.needsTeardown = @ \cup {r}, !.manual = @ \ {r}, !.task[r] = "idle"]
    BY <1>3 DEF BeginComplete
  <1> HIDE DEF m
  <1>5. /\ NM \in Nat /\ NA \in Nat /\ NE \in Int
    BY <1>1, <1>2, LessOne DEF Sound, Base, Counted, ActiveIn
  <1>6. /\ S \in [Requests -> States] /\ RR \in [Sequences -> Requests \cup {Null}]
        /\ RA \in SUBSET Sequences /\ T \in SUBSET Sequences
    BY <1>2 DEF Loop, States
  <1> HIDE DEF S, NM, NA, NE, RR, RA, T
  <1>7. v \in Loop
    BY <1>2, <1>5, <1>6 DEF Loop
  <1>8. /\ v.needsTeardown = k.needsTeardown /\ v.manual = k.manual /\ v.task = k.task
    BY <1>2 DEF Loop
  <1>9. m \in Loop
    <2>1. [v.task EXCEPT ![r] = "idle"] \in [Requests -> {"idle", "queued", "pushed", "done"}]
      BY <1>7 DEF Loop
    <2> HIDE DEF v
    <2> QED BY <1>4, <1>7, <2>1 DEF Loop
  <1>10. /\ m.setting = l.setting /\ m.asserted = l.asserted /\ m.state = S
        /\ m.runningAsync = RA /\ m.runningRequest = RR /\ m.tracked = T /\ m.queue = l.queue
        /\ m.cancellations = l.cancellations /\ m.needsTeardown = l.needsTeardown \cup {r}
        /\ m.excluded = l.excluded /\ m.watched = l.watched /\ m.listed = l.listed \ {r}
        /\ m.manual = l.manual \ {r} /\ m.manualCompletions = mc
        /\ m.submissions = l.submissions /\ m.numberOfSubmissions = l.numberOfSubmissions
        /\ m.task = [l.task EXCEPT ![r] = "idle"] /\ m.poolCompletions = pc
        /\ m.numberOfManualCompletions = NM /\ m.numberOfActiveHandles = NA
        /\ m.numberOfExternals = NE
    BY <1>2, <1>4, LoopFields
  <1> HIDE DEF v
  <1>11. Left(l, m, r, "Free")
    BY <1>1, <1>2, <1>10 DEF Left, S, RA, RR, T
  <1>12. Counted(m)
    <2>1. ActiveIn(m) = ActiveIn(l) \ {r}
      <3>1. m.state[r] = "Free" /\ \A x \in Requests : x # r => m.state[x] = l.state[x]
        BY <1>1, <1>2, <1>10 DEF Loop, S
      <3> QED BY <3>1 DEF ActiveIn
    <2>2. Counted(l) /\ m.numberOfSubmissions = Len(m.submissions)
      BY <1>10 DEF Sound, Base, Counted
    <2> QED BY <1>1, <1>2, <1>10, <2>1, <2>2, CountsLeave DEF NM, NA, NE
  <1>13. Sound(m, held, again, r, popped)
    <2>1. /\ \A x \in Requests : Contains(m.poolCompletions, x) <=> Contains(l.poolCompletions, x) /\ x # r
          /\ IsInjective(m.poolCompletions) /\ m.submissions = l.submissions
          /\ m.task = [l.task EXCEPT ![r] = "idle"]
      BY <1>10
    <2>2. r = r \/ l.setting.kind[r] \notin {"socket", "readiness"}
      OBVIOUS
    <2> QED BY <1>9, <1>11, <1>12, <2>1, <2>2, Finished
  <1> QED BY <1>2, <1>10, <1>13 DEF S, m, k, AfterCompletion

AfterStop(l, m, r, held, again, completing, popped) ==
    /\ Sound(m, held, again, completing, popped)
    /\ m.state = [l.state EXCEPT ![r] = "Cancelling"]
    /\ m.cancellations = l.cancellations /\ m.needsTeardown = l.needsTeardown \cup {r}
    /\ m.queue = l.queue /\ m.watched = l.watched /\ m.manual = l.manual \ {r}
    /\ m.runningRequest = [p \in Sequences |->
           IF p = SequenceOf[r] THEN Null ELSE l.runningRequest[p]]

LEMMA ActiveStopped ==
  ASSUME NEW held, NEW again \in Requests \cup {Null}, NEW completing, NEW popped, NEW l,
         NEW r \in Requests, NEW pc \in Seq(Requests),
         SoundUsage, Sound(l, held, again, completing, popped), l.state[r] = "Active",
         IsInjective(pc),
         \A x \in Requests : x # r => (Contains(pc, x) <=> Contains(l.poolCompletions, x)),
         pc = l.poolCompletions \/ (popped /\ ~Contains(pc, r))
  PROVE  AfterStop(l, StopActive(WithPool(l, pc), r), r, held, again, completing, popped)
  <1>1. /\ l \in Loop /\ SequenceOf[r] = l.setting.sequenceOf[r]
        /\ SequenceOf[r] \in Sequences \cup {Null} /\ Null \notin Sequences
        /\ Null \notin Requests
        /\ SequenceOf[r] # Null => l.runningRequest[SequenceOf[r]] \in {r, Null}
        /\ r \in l.manual => r \notin l.listed
        /\ ~Contains(l.submissions, r)
    BY MayLeave DEF Sound, Base
  <1> DEFINE mc == RemoveFirst(l.manualCompletions, r)
             sub == Append(l.submissions, r)
             k == [WithPool(l, pc) EXCEPT !.needsTeardown = @ \cup {r}]
             m == StopActive(WithPool(l, pc), r)
  <1>2. /\ mc \in Seq(Requests) /\ IsInjective(mc)
        /\ \A x : Contains(mc, x) <=> Contains(l.manualCompletions, x) /\ x # r
    <2>1. l.manualCompletions \in Seq(Requests) /\ IsInjective(l.manualCompletions)
      BY <1>1 DEF Sound, Base, Placed, Loop
    <2> QED BY <2>1, Removed
  <1>3. /\ sub \in Seq(Requests) /\ IsInjective(sub) /\ Len(sub) = Len(l.submissions) + 1
        /\ \A x : Contains(sub, x) <=> Contains(l.submissions, x) \/ x = r
    <2>1. l.submissions \in Seq(Requests) /\ IsInjective(l.submissions)
      BY <1>1 DEF Sound, Base, Placed, Loop
    <2> QED BY <1>1, <2>1, Appended
  <1>4. /\ k \in Loop /\ k.setting = l.setting /\ k.asserted = l.asserted /\ k.state = l.state
        /\ k.runningAsync = l.runningAsync /\ k.runningRequest = l.runningRequest
        /\ k.tracked = l.tracked /\ k.queue = l.queue
        /\ k.cancellations = l.cancellations /\ k.needsTeardown = l.needsTeardown \cup {r}
        /\ k.excluded = l.excluded /\ k.watched = l.watched /\ k.listed = l.listed
        /\ k.manual = l.manual /\ k.manualCompletions = l.manualCompletions
        /\ k.submissions = l.submissions /\ k.numberOfSubmissions = l.numberOfSubmissions
        /\ k.task = l.task /\ k.poolCompletions = pc
        /\ k.numberOfManualCompletions = l.numberOfManualCompletions
        /\ k.numberOfActiveHandles = l.numberOfActiveHandles
        /\ k.numberOfExternals = l.numberOfExternals
    BY <1>1 DEF Loop, WithLists, WithPool
  <1> HIDE DEF k
  <1> DEFINE q == SequenceOf[r]
             S == [k.state EXCEPT ![r] = "Free"]
             RA == k.runningAsync \ {q}
             RR == [p \in Sequences |-> IF p = q THEN Null ELSE k.runningRequest[p]]
             T == {p \in k.tracked : p = q => k.queue[p] # <<>>}
             NM == IF r \in k.manual THEN k.numberOfManualCompletions - 1
                         ELSE k.numberOfManualCompletions
             NA == IF r \in k.manual THEN k.numberOfActiveHandles
                         ELSE k.numberOfActiveHandles - 1
             NE == IF r \notin k.manual /\ r \in k.excluded THEN k.numberOfExternals + 1
                         ELSE k.numberOfExternals
             v == [k EXCEPT !.state = S, !.runningAsync = RA, !.runningRequest = RR, !.tracked = T,
                      !.numberOfManualCompletions = NM, !.numberOfActiveHandles = NA,
                      !.numberOfExternals = NE, !.listed = k.listed \ {r}]
  <1>5. RemoveActiveHandle(k, r) = v
    <2>1. /\ k \in Loop /\ k.state[r] = "Active"
          /\ SequenceOf[r] \in Sequences \cup {Null} /\ Null \notin Sequences
          /\ SequenceOf[r] # Null => k.runningRequest[SequenceOf[r]] \in {r, Null}
          /\ r \in k.manual => r \notin k.listed
      BY <1>1, <1>4
    <2> QED BY <2>1, ActiveRemoved
  <1>6. m = [v EXCEPT !.state[r] = "Cancelling",
                      !.manual = @ \ {r}, !.manualCompletions = RemoveFirst(@, r),
                      !.submissions = Append(@, r), !.numberOfSubmissions = @ + 1]
    BY <1>5 DEF StopActive, k
  <1> HIDE DEF m
  <1>7. /\ NM \in Nat /\ NA \in Nat /\ NE \in Int /\ l.numberOfSubmissions + 1 \in Nat
    <2>1. Counted(k) /\ k.state[r] = "Active"
      BY <1>4 DEF Sound, Base, Counted, ActiveIn
    <2>2. NM \in Nat /\ NA \in Nat /\ NE \in Int
      BY <1>4, <2>1, LessOne
    <2> QED BY <1>1, <2>2 DEF Loop
  <1>8. /\ S \in [Requests -> States] /\ RR \in [Sequences -> Requests \cup {Null}]
        /\ RA \in SUBSET Sequences /\ T \in SUBSET Sequences
        /\ [S EXCEPT ![r] = "Cancelling"] \in [Requests -> States]
        /\ [S EXCEPT ![r] = "Cancelling"] = [l.state EXCEPT ![r] = "Cancelling"]
    BY <1>4 DEF Loop, States
  <1> HIDE DEF S, NM, NA, NE, RR, RA, T
  <1>9. /\ v \in Loop /\ v.state = S /\ v.manual = l.manual
        /\ v.manualCompletions = l.manualCompletions
        /\ v.submissions = l.submissions /\ v.numberOfSubmissions = l.numberOfSubmissions
    BY <1>4, <1>7, <1>8 DEF Loop
  <1> HIDE DEF mc, sub
  <1>10. m = [v EXCEPT !.state = [S EXCEPT ![r] = "Cancelling"],
                      !.manual = l.manual \ {r}, !.manualCompletions = mc,
                      !.submissions = sub, !.numberOfSubmissions = l.numberOfSubmissions + 1]
    BY <1>6, <1>9 DEF mc, sub
  <1>11. m \in Loop
    <2>1. l.manual \ {r} \in SUBSET Requests
      BY <1>1 DEF Loop
    <2> HIDE DEF v
    <2> QED BY <1>2, <1>3, <1>7, <1>8, <1>9, <1>10, <2>1 DEF Loop
  <1>12. /\ m.setting = l.setting /\ m.asserted = l.asserted
         /\ m.state = [l.state EXCEPT ![r] = "Cancelling"]
         /\ m.runningAsync = RA /\ m.runningRequest = RR /\ m.tracked = T /\ m.queue = l.queue
         /\ m.cancellations = l.cancellations /\ m.needsTeardown = l.needsTeardown \cup {r}
         /\ m.excluded = l.excluded /\ m.watched = l.watched /\ m.listed = l.listed \ {r}
         /\ m.manual = l.manual \ {r} /\ m.manualCompletions = mc
         /\ m.submissions = sub /\ m.numberOfSubmissions = l.numberOfSubmissions + 1
         /\ m.task = l.task /\ m.poolCompletions = pc
         /\ m.numberOfManualCompletions = NM /\ m.numberOfActiveHandles = NA
         /\ m.numberOfExternals = NE
    BY <1>4, <1>8, <1>10 DEF Loop
  <1> HIDE DEF v
  <1>13. Left(l, m, r, "Cancelling")
    BY <1>1, <1>2, <1>4, <1>12 DEF Left, RA, RR, T
  <1>14. Counted(m)
    <2>1. ActiveIn(m) = ActiveIn(l) \ {r}
      <3>1. m.state[r] = "Cancelling" /\ \A x \in Requests : x # r => m.state[x] = l.state[x]
        BY <1>1, <1>12 DEF Loop
      <3> QED BY <3>1 DEF ActiveIn
    <2>2. Counted(l) /\ m.numberOfSubmissions = Len(m.submissions)
      BY <1>3, <1>12 DEF Sound, Base, Counted
    <2> QED BY <1>1, <1>4, <1>12, <2>1, <2>2, CountsLeave DEF NM, NA, NE
  <1>15. Sound(m, held, again, completing, popped)
    <2>1. /\ IsInjective(m.submissions)
          /\ \A x : Contains(m.submissions, x) <=> Contains(l.submissions, x) \/ x = r
      BY <1>3, <1>12
    <2>2. /\ m.task = l.task /\ IsInjective(m.poolCompletions)
          /\ \A x \in Requests : x # r => (Contains(m.poolCompletions, x) <=> Contains(l.poolCompletions, x))
          /\ \/ Contains(m.poolCompletions, r) <=> Contains(l.poolCompletions, r)
             \/ popped /\ ~Contains(m.poolCompletions, r)
      BY <1>12
    <2> QED BY <1>11, <1>13, <1>14, <2>1, <2>2, Stopped
  <1> QED BY <1>4, <1>12, <1>15 DEF RR, m, q, AfterStop

-----------------------------------------------------------------------------
(* Requests on their way from the submissions                              *)

\* The loop `m` after `r` left the submissions of `l`, with a state of its own.
Moved(l, m, r) ==
    /\ m.setting = l.setting /\ m.asserted = l.asserted
    /\ \A x \in Requests : x # r => m.state[x] = l.state[x]
    /\ m.queue = l.queue /\ m.tracked = l.tracked /\ m.runningAsync = l.runningAsync
    /\ m.runningRequest = l.runningRequest /\ m.cancellations = l.cancellations
    /\ m.manual = l.manual /\ m.manualCompletions = l.manualCompletions
    /\ m.listed = l.listed
    /\ m.excluded = l.excluded
    /\ m.numberOfActiveHandles = l.numberOfActiveHandles
    /\ m.numberOfManualCompletions = l.numberOfManualCompletions
    /\ m.numberOfExternals = l.numberOfExternals
    /\ m.numberOfSubmissions = Len(m.submissions)
    /\ IsInjective(m.submissions)
    /\ \A x \in Requests : Contains(m.submissions, x) <=> Contains(l.submissions, x) /\ x # r

\* A request taken from the submissions, or already in the hands of the loop.
LEMMA HeldMoved ==
  ASSUME NEW held, NEW again \in Requests \cup {Null}, NEW completing, NEW popped, NEW l,
         NEW r \in Requests, NEW m \in Loop,
         SoundUsage, Sound(l, held, again, completing, popped),
         r \in held \/ Contains(l.submissions, r), Moved(l, m, r),
         \/ m.state[r] = l.state[r]
         \/ /\ m.state[r] \in {"Submitting", "Cancelling"}
            /\ l.state[r] \in {"Setup", "Reactivate", "Submitting"},
         m.task = l.task, m.poolCompletions = l.poolCompletions,
         \/ m.watched = l.watched /\ (r \notin l.watched \/ m.state[r] # "Submitting")
         \/ m.watched = l.watched \ {r} /\ m.state[r] # "Reactivate"
  PROVE  Sound(m, held \cup {r}, again, completing, popped)
  <1>1. /\ l \in Loop /\ Null \notin Requests /\ Null \notin Sequences
    BY SettingFacts DEF Base, Sound
  <1>2. \A x \in Requests : Waits(m, x) <=> Waits(l, x)
    BY DEF Moved, Waits
  <1>3. /\ l.state[r] \in {"Setup", "Reactivate", "Submitting", "Cancelling"}
        /\ m.state[r] \in {"Setup", "Reactivate", "Submitting", "Cancelling"}
        /\ ~Waits(l, r) /\ ~Contains(l.cancellations, r)
        /\ r \notin l.manual /\ r \notin l.listed
    BY DEF Sound, Base, Placed
  <1>4. \A x \in Requests : OnItsWay(m, x) <=> OnItsWay(l, x)
    BY <1>2, <1>3 DEF Moved, OnItsWay
  <1>5. Counted(m)
    <2>1. ActiveIn(m) = ActiveIn(l)
      BY <1>3 DEF Moved, ActiveIn
    <2> QED BY <2>1, CountsKept DEF Moved, Sound, Base
  <1>6. Placed(m, held \cup {r})
    <2>1. ASSUME NEW x \in Requests
          PROVE  /\ Contains(m.submissions, x) <=> x \notin held \cup {r} /\
                      \/ m.state[x] \in {"Setup", "Reactivate"} /\ ~Waits(m, x)
                      \/ m.state[x] = "Cancelling" /\ ~Contains(m.cancellations, x)
                 /\ Waits(m, x) => m.state[x] = "Setup" /\ x \notin held \cup {r}
                 /\ Contains(m.cancellations, x) => m.state[x] = "Cancelling" /\ x \notin held \cup {r}
                 /\ m.state[x] = "Submitting" => x \in held \cup {r}
                 /\ x \in held \cup {r} =>
                      m.state[x] \in {"Setup", "Reactivate", "Submitting", "Cancelling"}
                 /\ Contains(m.manualCompletions, x) <=> x \in m.manual
                 /\ x \in m.manual => m.state[x] = "Active" /\ m.setting.kind[x] = "write"
                 /\ x \in m.listed <=>
                      m.state[x] = "Active" /\ x \notin m.manual /\ m.setting.sequenceOf[x] = Null
      <3>1. CASE x = r
        BY <1>2, <1>3, <3>1 DEF Moved, Sound, Base, Placed
      <3>2. CASE x # r
        BY <1>2, <3>2 DEF Moved, Sound, Base, Placed
      <3> QED BY <3>1, <3>2
    <2> QED BY <2>1 DEF Moved, Sound, Base, Placed
  <1>7. Tasked(m, popped)
    <2>1. ASSUME NEW x \in Requests
          PROVE  /\ Contains(m.poolCompletions, x) => m.task[x] \in {"pushed", "done"}
                 /\ m.task[x] \in {"pushed", "done"} =>
                      Contains(m.poolCompletions, x) \/ (m.state[x] = "Cancelling" /\ popped)
                 /\ m.task[x] # "idle" =>
                      /\ m.setting.kind[x] = "work"
                      /\ \/ m.state[x] = "Active"
                         \/ m.state[x] = "Cancelling" /\ ~Contains(m.cancellations, x)
      <3>1. CASE x = r
        BY <1>3, <3>1 DEF Moved, Sound, Base, Tasked
      <3>2. CASE x # r
        BY <3>2 DEF Moved, Sound, Base, Tasked
      <3> QED BY <3>1, <3>2
    <2> QED BY <2>1 DEF Sound, Base, Tasked
  <1>8. Registered(m, completing)
    <2>1. ASSUME NEW x \in Requests
          PROVE /\ x \in m.watched =>
                  /\ m.setting.kind[x] \in {"socket", "readiness"}
                  /\ \/ m.state[x] \in {"Active", "Reactivate"} \/ x = completing
                     \/ m.state[x] = "Cancelling" /\ ~Contains(m.cancellations, x)
                /\ m.state[x] \in {"Active", "Reactivate"} /\ m.setting.kind[x] \in {"socket", "readiness"} =>
                  x \in m.watched
      <3>1. CASE x = r
        BY <1>3, <3>1 DEF Moved, Sound, Base, Registered
      <3>2. CASE x # r
        BY <3>2 DEF Moved, Sound, Base, Registered
      <3> QED BY <3>1, <3>2
    <2> QED BY <2>1 DEF Registered
  <1>9. InTurn(m, again, Null)
    <2>1. \A p \in Sequences : l.runningRequest[p] \in Requests \cup {Null}
      BY <1>1 DEF Loop
    <2>2. \A x \in Requests : m.state[x] # "Cancelling" => l.state[x] # "Cancelling"
      BY <1>3 DEF Moved
    <2> QED BY <1>4, <2>1, <2>2 DEF Moved, Sound, InTurn
  <1> QED BY <1>5, <1>6, <1>7, <1>8, <1>9 DEF Moved, Sound, Base

\* The first of the submissions is in the hands of the loop.
Dequeuing(l) == [l EXCEPT !.submissions = Tail(@), !.numberOfSubmissions = @ - 1]
AfterDequeue(l, m, r, again, completing, popped) ==
    /\ r \in Requests /\ Contains(l.submissions, r)
    /\ Sound(m, {r}, again, completing, popped)
    /\ m.state = l.state /\ m.setting = l.setting /\ m.queue = l.queue

LEMMA Dequeued ==
  ASSUME NEW again \in Requests \cup {Null}, NEW completing, NEW popped, NEW l,
         SoundUsage, Sound(l, {}, again, completing, popped), l.submissions # <<>>
  PROVE  AfterDequeue(l, Dequeuing(l), Head(l.submissions), again, completing, popped)
  <1>1. l \in Loop /\ l.submissions \in Seq(Requests) /\ IsInjective(l.submissions)
        /\ l.numberOfSubmissions = Len(l.submissions)
    BY DEF Sound, Base, Placed, Counted, Loop
  <1> DEFINE r == Head(l.submissions)
             s == Tail(l.submissions)
             m == [l EXCEPT !.submissions = s, !.numberOfSubmissions = Len(s)]
  <1>2. /\ s \in Seq(Requests) /\ IsInjective(s) /\ r \in Requests /\ Contains(l.submissions, r)
        /\ \A x : Contains(s, x) <=> Contains(l.submissions, x) /\ x # r
        /\ Len(s) = Len(l.submissions) - 1
    BY <1>1, HeadTaken
  <1> HIDE DEF r, s
  <1>3. Len(s) \in Nat
    BY <1>2, LenProperties
  <1>4. /\ m \in Loop /\ m.setting = l.setting /\ m.asserted = l.asserted
        /\ m.state = l.state
        /\ m.submissions = s /\ m.numberOfSubmissions = Len(s)
        /\ m.queue = l.queue /\ m.tracked = l.tracked /\ m.runningAsync = l.runningAsync
        /\ m.runningRequest = l.runningRequest /\ m.cancellations = l.cancellations
        /\ m.manual = l.manual /\ m.manualCompletions = l.manualCompletions
        /\ m.listed = l.listed
        /\ m.excluded = l.excluded /\ m.needsTeardown = l.needsTeardown
        /\ m.numberOfActiveHandles = l.numberOfActiveHandles
        /\ m.numberOfManualCompletions = l.numberOfManualCompletions
        /\ m.numberOfExternals = l.numberOfExternals
        /\ m.task = l.task /\ m.poolCompletions = l.poolCompletions /\ m.watched = l.watched
    BY <1>1, <1>2, <1>3 DEF Loop
  <1>5. Dequeuing(l) = m
    BY <1>1, <1>2 DEF Dequeuing, s
  <1> HIDE DEF m
  <1>6. Moved(l, m, r)
    BY <1>2, <1>4 DEF Moved
  <1>7. m.state[r] # "Submitting"
    BY <1>2, <1>4 DEF Sound, Base, Placed
  <1>8. Sound(m, {} \cup {r}, again, completing, popped)
    BY <1>2, <1>4, <1>6, <1>7, HeldMoved
  <1>9. {} \cup {r} = {r}
    OBVIOUS
  <1>10. /\ r \in Requests /\ Contains(l.submissions, r)
         /\ Sound(m, {r}, again, completing, popped)
    BY <1>2, <1>4, <1>8, <1>9
  <1> QED BY <1>4, <1>5, <1>10 DEF AfterDequeue, r

\* CancelAsync and teardownAsync of a request the loop has in its hands.
LEMMA TornDown ==
  ASSUME NEW held, NEW again \in Requests \cup {Null}, NEW completing, NEW popped, NEW l,
         NEW r \in Requests,
         SoundUsage, Sound(l, held, again, completing, popped), r \in held,
         l.state[r] = "Cancelling"
  PROVE  LET m == TeardownAsync(CancelAsync(l, r), r) IN
         /\ Sound(m, held, again, completing, popped)
         /\ m.state = l.state /\ m.setting = l.setting /\ m.queue = l.queue
         /\ m.cancellations = l.cancellations /\ m.needsTeardown = l.needsTeardown
         /\ m.runningRequest = l.runningRequest /\ m.submissions = l.submissions
         /\ m.task[r] = "idle" /\ r \notin m.watched
         /\ \A x \in Requests : x # r => m.task[x] = l.task[x]
  <1> DEFINE pc == RemoveFirst(l.poolCompletions, r)
             t == [l.task EXCEPT ![r] = "idle"]
             m == [l EXCEPT !.poolCompletions = pc, !.task = t, !.watched = l.watched \ {r}]
  <1>1. l \in Loop /\ l.poolCompletions \in Seq(Requests) /\ IsInjective(l.poolCompletions)
    BY DEF Sound, Base, Tasked, Loop
  <1>2. /\ pc \in Seq(Requests) /\ IsInjective(pc)
        /\ \A x : Contains(pc, x) <=> Contains(l.poolCompletions, x) /\ x # r
    BY <1>1, Removed
  <1>3. /\ t \in [Requests -> {"idle", "queued", "pushed", "done"}]
        /\ t[r] = "idle" /\ \A x \in Requests : x # r => t[x] = l.task[x]
    BY <1>1 DEF Loop
  <1>4. TeardownAsync(CancelAsync(l, r), r) = m
    BY <1>1 DEF TeardownAsync, CancelAsync, Loop
  <1> HIDE DEF pc, t
  <1>5. m \in Loop
    BY <1>1, <1>2, <1>3 DEF Loop
  <1>6. /\ m.setting = l.setting /\ m.asserted = l.asserted
        /\ m.state = l.state
        /\ m.submissions = l.submissions /\ m.numberOfSubmissions = l.numberOfSubmissions
        /\ m.queue = l.queue /\ m.tracked = l.tracked /\ m.runningAsync = l.runningAsync
        /\ m.runningRequest = l.runningRequest /\ m.cancellations = l.cancellations
        /\ m.manual = l.manual /\ m.manualCompletions = l.manualCompletions
        /\ m.listed = l.listed
        /\ m.excluded = l.excluded /\ m.needsTeardown = l.needsTeardown
        /\ m.numberOfActiveHandles = l.numberOfActiveHandles
        /\ m.numberOfManualCompletions = l.numberOfManualCompletions
        /\ m.numberOfExternals = l.numberOfExternals
        /\ m.task = t /\ m.poolCompletions = pc /\ m.watched = l.watched \ {r}
    BY <1>1 DEF Loop
  <1> HIDE DEF m
  <1>7. Counted(m)
    BY <1>6 DEF Sound, Base, Counted, ActiveIn
  <1>8. Placed(m, held)
    BY <1>6 DEF Sound, Base, Placed, Waits
  <1>9. Tasked(m, popped)
    BY <1>2, <1>3, <1>6 DEF Sound, Base, Tasked
  <1>10. Registered(m, completing)
    BY <1>6 DEF Sound, Base, Registered
  <1>11. InTurn(m, again, Null)
    BY <1>6, InTurnKept DEF Sound
  <1>12. Sound(m, held, again, completing, popped)
    BY <1>5, <1>6, <1>7, <1>8, <1>9, <1>10, <1>11 DEF Sound, Base
  <1> QED BY <1>3, <1>4, <1>6, <1>12

AfterPush(l, m, r, held, again, completing, popped) ==
    /\ Sound(m, held \ {r}, again, completing, popped)
    /\ \A x \in Requests : m.state[x] # l.state[x] =>
         l.state[x] = "Setup" /\ m.state[x] = "Free" /\ Waits(l, x)
    /\ \A x \in Requests : l.state[x] # "Setup" =>
         (x \in m.needsTeardown <=> x \in l.needsTeardown)
    /\ m.cancellations = Append(l.cancellations, r) /\ m.watched = l.watched
    /\ \A p \in Sequences : l.queue[p] = <<>> => m.queue[p] = <<>>
    /\ m.runningRequest = l.runningRequest /\ m.submissions = l.submissions

LEMMA Pushed ==
  ASSUME NEW held, NEW again \in Requests \cup {Null}, NEW completing, NEW popped, NEW l,
         NEW r \in Requests,
         SoundUsage, Sound(l, held, again, completing, popped), r \in held,
         l.state[r] = "Cancelling", l.task[r] = "idle",
         r \notin l.watched \/ r = completing
  PROVE  AfterPush(l, PushToCancellationQueue(l, r), r, held, again, completing, popped)
  <1> DEFINE q == SequenceOf[r]
             k == IF q # Null /\ q \in ClearOnCancel THEN ClearSequence(l, q) ELSE l
             c == Append(l.cancellations, r)
             m == [k EXCEPT !.cancellations = c]
  <1>1. /\ l \in Loop /\ q \in Sequences \cup {Null} /\ l.setting = loop.setting
        /\ Null \notin Sequences
    BY SettingFacts DEF Base, Sound, SequenceOf
  <1>2. /\ Sound(k, held, again, completing, popped)
        /\ \A x \in Requests : l.state[x] # "Setup" =>
             k.state[x] = l.state[x] /\ (x \in k.needsTeardown <=> x \in l.needsTeardown)
        /\ \A x \in Requests : k.state[x] # l.state[x] =>
             l.state[x] = "Setup" /\ k.state[x] = "Free" /\ Waits(l, x)
        /\ k.submissions = l.submissions /\ k.cancellations = l.cancellations
        /\ k.runningRequest = l.runningRequest
        /\ k.watched = l.watched /\ k.task = l.task
        /\ \A p \in Sequences : l.queue[p] = <<>> => k.queue[p] = <<>>
    <2>1. CASE q # Null /\ q \in ClearOnCancel
      <3>1. k = ClearSequence(l, q) /\ q \in Sequences
        BY <1>1, <2>1
      <3>2. Base(l, held, completing, popped) /\ InTurn(l, again, q)
        BY <1>1, AnyIdle DEF Sound
      <3> HIDE DEF k, q
      <3>3. /\ Sound(k, held, again, completing, popped)
            /\ \A x \in Requests : l.state[x] # "Setup" =>
                 k.state[x] = l.state[x] /\ (x \in k.needsTeardown <=> x \in l.needsTeardown)
            /\ \A x \in Requests : k.state[x] # l.state[x] =>
                 l.state[x] = "Setup" /\ k.state[x] = "Free" /\ Waits(l, x)
            /\ k.submissions = l.submissions /\ k.cancellations = l.cancellations
            /\ k.runningRequest = l.runningRequest /\ k.watched = l.watched /\ k.task = l.task
            /\ k.queue[q] = <<>>
            /\ \A p \in Sequences : p # q => k.queue[p] = l.queue[p]
        BY <3>1, <3>2, Cleared

      <3>4. \A p \in Sequences : l.queue[p] = <<>> => k.queue[p] = <<>>
        BY <3>1, <3>3
      <3> QED BY <3>1, <3>3, <3>4
    <2>2. CASE ~(q # Null /\ q \in ClearOnCancel)
      BY <2>2
    <2> QED BY <2>1, <2>2
  <1>3. PushToCancellationQueue(l, r) = m
    <2>1. PushToCancellationQueue(l, r) = [k EXCEPT !.cancellations = Append(@, r)]
      BY DEF PushToCancellationQueue
    <2> HIDE DEF k
    <2> QED BY <1>2, <2>1
  <1>4. /\ c \in Seq(Requests) /\ IsInjective(c)
        /\ \A x : Contains(c, x) <=> Contains(l.cancellations, x) \/ x = r
    <2>1. l.cancellations \in Seq(Requests) /\ IsInjective(l.cancellations)
          /\ ~Contains(l.cancellations, r)
      BY <1>1 DEF Sound, Base, Placed, Loop
    <2> QED BY <2>1, Appended
  <1> HIDE DEF k, q
  <1>5. k \in Loop
    BY <1>2 DEF Sound, Base
  <1>6. /\ m \in Loop /\ m.setting = k.setting /\ m.asserted = k.asserted
        /\ m.state = k.state /\ m.submissions = k.submissions
        /\ m.numberOfSubmissions = k.numberOfSubmissions
        /\ m.queue = k.queue /\ m.tracked = k.tracked /\ m.runningAsync = k.runningAsync
        /\ m.runningRequest = k.runningRequest /\ m.cancellations = c
        /\ m.manual = k.manual /\ m.manualCompletions = k.manualCompletions
        /\ m.listed = k.listed
        /\ m.excluded = k.excluded /\ m.needsTeardown = k.needsTeardown
        /\ m.numberOfActiveHandles = k.numberOfActiveHandles
        /\ m.numberOfManualCompletions = k.numberOfManualCompletions
        /\ m.numberOfExternals = k.numberOfExternals
        /\ m.task = k.task /\ m.poolCompletions = k.poolCompletions /\ m.watched = k.watched
    BY <1>4, <1>5 DEF Loop
  <1> HIDE DEF m, c
  <1>7. k.state[r] = "Cancelling" /\ k.task[r] = "idle" /\ (r \notin k.watched \/ r = completing)
    BY <1>2
  <1>8. Counted(m)
    BY <1>2, <1>6 DEF Sound, Base, Counted, ActiveIn
  <1>9. Placed(m, held \ {r})
    <2>1. \A x : Waits(m, x) <=> Waits(k, x)
      BY <1>6 DEF Waits
    <2> QED BY <1>2, <1>4, <1>6, <1>7, <2>1 DEF Sound, Base, Placed
  <1>10. Tasked(m, popped)
    BY <1>2, <1>4, <1>6, <1>7 DEF Sound, Base, Tasked
  <1>11. Registered(m, completing)
    BY <1>2, <1>4, <1>6, <1>7 DEF Sound, Base, Registered
  <1>12. InTurn(m, again, Null)
    BY <1>2, <1>6, InTurnKept DEF Sound
  <1>13. Sound(m, held \ {r}, again, completing, popped)
    BY <1>2, <1>6, <1>8, <1>9, <1>10, <1>11, <1>12 DEF Sound, Base
  <1>14. /\ \A x \in Requests : m.state[x] # l.state[x] =>
              l.state[x] = "Setup" /\ m.state[x] = "Free" /\ Waits(l, x)
         /\ \A x \in Requests : l.state[x] # "Setup" =>
              (x \in m.needsTeardown <=> x \in l.needsTeardown)
         /\ m.cancellations = Append(l.cancellations, r) /\ m.watched = l.watched
         /\ \A p \in Sequences : l.queue[p] = <<>> => m.queue[p] = <<>>
         /\ m.runningRequest = l.runningRequest /\ m.submissions = l.submissions
    BY <1>2, <1>6 DEF c
  <1> QED BY <1>3, <1>13, <1>14 DEF AfterPush

-----------------------------------------------------------------------------
(* Stopping a request                                                      *)

\* What operations on the requests of `S` do to the others: those that wait in a sequence
\* may be dropped, and nobody leaves the cancellations.
Keeps(l, m, S) ==
    /\ \A x \in Requests \ S : m.state[x] # l.state[x] =>
         l.state[x] = "Setup" /\ m.state[x] = "Free" /\ Waits(l, x)
    /\ \A x \in Requests \ S : l.state[x] # "Setup" =>
         (x \in m.needsTeardown <=> x \in l.needsTeardown)
    /\ \A x \in Requests : Contains(l.cancellations, x) => Contains(m.cancellations, x)
    /\ \A p \in Sequences : l.queue[p] = <<>> => m.queue[p] = <<>>

WithWatched(l, W) == [l EXCEPT !.watched = W]

LEMMA SubmittedStopped ==
  ASSUME NEW held, NEW again \in Requests \cup {Null}, NEW completing, NEW popped, NEW l,
         NEW r \in Requests, NEW W,
         SoundUsage, Sound(l, held, again, completing, popped), Contains(l.submissions, r),
         \/ l.state[r] = "Setup" /\ W = l.watched
         \/ l.state[r] = "Reactivate" /\ W = l.watched \ {r}
  PROVE  LET m == StopSubmitted(WithWatched(l, W), r) IN
         /\ Sound(m, held, again, completing, popped)
         /\ m.state[r] = "Cancelling" /\ Contains(m.cancellations, r)
         /\ Keeps(l, m, {r}) /\ m.watched = W /\ m.runningRequest = l.runningRequest
  <1> DEFINE s == RemoveFirst(l.submissions, r)
             t == [l.state EXCEPT ![r] = "Cancelling"]
             k == [l EXCEPT !.watched = W, !.state = t, !.numberOfSubmissions = Len(s),
                            !.submissions = s]
             m == PushToCancellationQueue(k, r)
  <1>1. /\ l \in Loop /\ l.submissions \in Seq(Requests) /\ IsInjective(l.submissions)
        /\ l.numberOfSubmissions = Len(l.submissions) /\ r \notin held
        /\ l.task[r] = "idle"
    BY DEF Sound, Base, Placed, Counted, Loop, Tasked
  <1>2. /\ s \in Seq(Requests) /\ IsInjective(s)
        /\ \A x : Contains(s, x) <=> Contains(l.submissions, x) /\ x # r
        /\ Len(s) = Len(l.submissions) - 1
    BY <1>1, Removed
  <1>3. Len(s) \in Nat
    BY <1>2, LenProperties
  <1>4. /\ t \in [Requests -> States] /\ t[r] = "Cancelling"
        /\ \A x \in Requests : x # r => t[x] = l.state[x]
    BY <1>1 DEF Loop, States
  <1>5. W \in SUBSET Requests
    BY <1>1 DEF Loop
  <1>6. StopSubmitted(WithWatched(l, W), r) = m
    <2>1. k = [[l EXCEPT !.watched = W] EXCEPT !.state[r] = "Cancelling",
                  !.numberOfSubmissions = @ - 1, !.submissions = RemoveFirst(@, r)]
      BY <1>1, <1>2 DEF Loop
    <2> HIDE DEF k
    <2> QED BY <2>1 DEF StopSubmitted, WithWatched
  <1> HIDE DEF s, t
  <1>7. /\ k \in Loop /\ k.setting = l.setting /\ k.asserted = l.asserted
        /\ k.state = t
        /\ k.submissions = s /\ k.numberOfSubmissions = Len(s)
        /\ k.queue = l.queue /\ k.tracked = l.tracked /\ k.runningAsync = l.runningAsync
        /\ k.runningRequest = l.runningRequest /\ k.cancellations = l.cancellations
        /\ k.manual = l.manual /\ k.manualCompletions = l.manualCompletions
        /\ k.listed = l.listed
        /\ k.excluded = l.excluded /\ k.needsTeardown = l.needsTeardown
        /\ k.numberOfActiveHandles = l.numberOfActiveHandles
        /\ k.numberOfManualCompletions = l.numberOfManualCompletions
        /\ k.numberOfExternals = l.numberOfExternals
        /\ k.task = l.task /\ k.poolCompletions = l.poolCompletions /\ k.watched = W
    BY <1>1, <1>2, <1>3, <1>4, <1>5 DEF Loop
  <1> HIDE DEF k
  <1>8. Moved(l, k, r)
    BY <1>2, <1>4, <1>7 DEF Moved
  <1>9. Sound(k, held \cup {r}, again, completing, popped)
    <2>1. \/ k.watched = l.watched /\ (r \notin l.watched \/ k.state[r] # "Submitting")
          \/ k.watched = l.watched \ {r} /\ k.state[r] # "Reactivate"
      BY <1>4, <1>7
    <2>2. k.state[r] \in {"Submitting", "Cancelling"}
          /\ l.state[r] \in {"Setup", "Reactivate", "Submitting"}
      BY <1>4, <1>7
    <2>3. k \in Loop /\ k.task = l.task /\ k.poolCompletions = l.poolCompletions
      BY <1>7
    <2> QED BY <1>8, <2>1, <2>2, <2>3, HeldMoved
  <1>10. /\ k.state[r] = "Cancelling" /\ k.task[r] = "idle" /\ r \in held \cup {r}
         /\ r \notin k.watched \/ r = completing
    BY <1>1, <1>4, <1>7 DEF Sound, Base, Registered
  <1>20. AfterPush(k, m, r, held \cup {r}, again, completing, popped)
    BY <1>9, <1>10, Pushed
  <1>11. /\ Sound(m, (held \cup {r}) \ {r}, again, completing, popped)
         /\ \A x \in Requests : m.state[x] # k.state[x] =>
              k.state[x] = "Setup" /\ m.state[x] = "Free" /\ Waits(k, x)
         /\ \A x \in Requests : k.state[x] # "Setup" =>
              (x \in m.needsTeardown <=> x \in k.needsTeardown)
         /\ m.cancellations = Append(k.cancellations, r) /\ m.watched = k.watched
         /\ \A p \in Sequences : k.queue[p] = <<>> => m.queue[p] = <<>>
         /\ m.runningRequest = k.runningRequest
    BY <1>20 DEF AfterPush
  <1> HIDE DEF m
  <1>12. (held \cup {r}) \ {r} = held
    BY <1>1
  <1>13. \A x : Contains(m.cancellations, x) <=> Contains(l.cancellations, x) \/ x = r
    <2>1. l.cancellations \in Seq(Requests) /\ IsInjective(l.cancellations)
          /\ ~Contains(l.cancellations, r)
      BY <1>1 DEF Sound, Base, Placed, Loop
    <2> QED BY <1>7, <1>11, <2>1, Appended
  <1>14. Keeps(l, m, {r})
    <2>1. ASSUME NEW x \in Requests \ {r}
          PROVE  /\ m.state[x] # l.state[x] =>
                      l.state[x] = "Setup" /\ m.state[x] = "Free" /\ Waits(l, x)
                 /\ l.state[x] # "Setup" => (x \in m.needsTeardown <=> x \in l.needsTeardown)
      BY <1>4, <1>7, <1>11 DEF Waits
    <2> QED BY <1>7, <1>11, <1>13, <2>1 DEF Keeps
  <1>15. m.state[r] = "Cancelling" /\ Contains(m.cancellations, r) /\ m.watched = W
         /\ m.runningRequest = l.runningRequest
    BY <1>7, <1>10, <1>11, <1>13
  <1> QED BY <1>6, <1>11, <1>12, <1>14, <1>15

\* Requests that wait in their sequence are not stopped.
AfterRequestStop(l, m, r, held, again, completing, popped) ==
    /\ Sound(m, held, again, completing, popped)
    /\ m.state[r] = "Cancelling"
    /\ l.state[r] = "Active" => r \in m.needsTeardown /\ m.manual = l.manual \ {r}
    /\ l.state[r] # "Active" => Contains(m.cancellations, r)
    /\ Keeps(l, m, {r})
    /\ m.watched = l.watched \/ (l.state[r] = "Reactivate" /\ m.watched = l.watched \ {r})
    /\ \A p \in Sequences : m.runningRequest[p] =
         IF l.state[r] = "Active" /\ p = SequenceOf[r] THEN Null ELSE l.runningRequest[p]

LEMMA RequestStopped ==
  ASSUME NEW held, NEW again \in Requests \cup {Null}, NEW completing, NEW popped, NEW l,
         NEW r \in Requests,
         SoundUsage, Sound(l, held, again, completing, popped), l.setting = loop.setting,
         l.state[r] \in {"Setup", "Active", "Reactivate"}, r \notin held, ~Waits(l, r)
  PROVE  AfterRequestStop(l, StopRequest(l, r), r, held, again, completing, popped)
  <1> DEFINE m == StopRequest(l, r)
  <1>1. /\ l \in Loop /\ l.setting = loop.setting
        /\ l.state[r] # "Active" => Contains(l.submissions, r)
    BY DEF Sound, Base, Placed
  <1>2. CASE l.state[r] = "Active"
    <2>1. l.poolCompletions \in Seq(Requests) /\ IsInjective(l.poolCompletions)
      BY <1>1 DEF Sound, Base, Tasked, Loop
    <2>2. WithPool(l, l.poolCompletions) = l
      BY <1>1 DEF Loop, WithPool
    <2>3. AfterStop(l, StopActive(WithPool(l, l.poolCompletions), r), r,
                    held, again, completing, popped)
      BY <1>2, <2>1, ActiveStopped
    <2>4. m = StopActive(l, r)
      BY <1>2 DEF StopRequest
    <2> HIDE DEF m
    <2>5. /\ Sound(m, held, again, completing, popped)
          /\ m.state = [l.state EXCEPT ![r] = "Cancelling"]
          /\ m.cancellations = l.cancellations /\ m.needsTeardown = l.needsTeardown \cup {r}
          /\ m.queue = l.queue /\ m.watched = l.watched /\ m.manual = l.manual \ {r}
          /\ m.runningRequest = [p \in Sequences |->
                 IF p = SequenceOf[r] THEN Null ELSE l.runningRequest[p]]
      BY <2>2, <2>3, <2>4 DEF AfterStop
    <2>6. m.state[r] = "Cancelling" /\ \A x \in Requests : x # r => m.state[x] = l.state[x]
      BY <1>1, <2>5 DEF Loop
    <2>7. Keeps(l, m, {r})
      BY <2>5, <2>6 DEF Keeps
    <2>8. \A p \in Sequences : m.runningRequest[p] =
              IF l.state[r] = "Active" /\ p = SequenceOf[r] THEN Null ELSE l.runningRequest[p]
      BY <1>2, <2>5
    <2> QED BY <1>2, <2>5, <2>6, <2>7, <2>8 DEF m, AfterRequestStop
  <1>3. CASE l.state[r] = "Setup"
    <2>1. WithWatched(l, l.watched) = l
      BY <1>1 DEF Loop, WithWatched
    <2>2. LET u == StopSubmitted(WithWatched(l, l.watched), r) IN
          /\ Sound(u, held, again, completing, popped)
          /\ u.state[r] = "Cancelling" /\ Contains(u.cancellations, r)
          /\ Keeps(l, u, {r}) /\ u.watched = l.watched /\ u.runningRequest = l.runningRequest
      BY <1>1, <1>3, SubmittedStopped
    <2>3. m = StopSubmitted(l, r)
      BY <1>3 DEF StopRequest
    <2> HIDE DEF m
    <2> QED BY <1>3, <2>1, <2>2, <2>3 DEF m, AfterRequestStop
  <1>4. CASE l.state[r] = "Reactivate"
    <2>1. WithWatched(l, l.watched \ {r}) = TeardownAsync(l, r)
      BY DEF TeardownAsync, WithWatched
    <2>2. LET u == StopSubmitted(WithWatched(l, l.watched \ {r}), r) IN
          /\ Sound(u, held, again, completing, popped)
          /\ u.state[r] = "Cancelling" /\ Contains(u.cancellations, r)
          /\ Keeps(l, u, {r}) /\ u.watched = l.watched \ {r} /\ u.runningRequest = l.runningRequest
      BY <1>1, <1>4, SubmittedStopped
    <2>3. m = StopSubmitted(TeardownAsync(l, r), r)
      BY <1>4 DEF StopRequest
    <2> HIDE DEF m
    <2> QED BY <1>4, <2>1, <2>2, <2>3 DEF m, AfterRequestStop
  <1> QED BY <1>2, <1>3, <1>4

-----------------------------------------------------------------------------
(* Requests that become active                                             *)

\* m is x with r active, counted where it belongs and running its sequence.
Added(m, x, r) ==
       LET q == SequenceOf[r]
           joins == q # Null /\ r \notin x.manual IN
       m =
         [x EXCEPT !.state = [x.state EXCEPT ![r] = "Active"],
                   !.tracked = IF joins THEN x.tracked \cup {q} ELSE x.tracked,
                   !.runningAsync = IF joins THEN x.runningAsync \cup {q} ELSE x.runningAsync,
                   !.runningRequest = [p \in Sequences |->
                       IF joins /\ p = q THEN r ELSE x.runningRequest[p]],
                   !.numberOfManualCompletions =
                       IF r \in x.manual THEN x.numberOfManualCompletions + 1
                       ELSE x.numberOfManualCompletions,
                   !.numberOfActiveHandles =
                       IF r \in x.manual THEN x.numberOfActiveHandles
                       ELSE x.numberOfActiveHandles + 1,
                   !.numberOfExternals =
                       IF r \notin x.manual /\ r \in x.excluded THEN x.numberOfExternals - 1
                       ELSE x.numberOfExternals,
                   !.listed = IF r \notin x.manual /\ InTypedList(r) THEN x.listed \cup {r}
                              ELSE x.listed]

LEMMA HandleAdded ==
  ASSUME NEW x \in Loop, NEW r \in Requests, x.state[r] = "Submitting",
         SequenceOf[r] \in Sequences \cup {Null}, Null \notin Sequences
  PROVE  Added(AddActiveHandle(x, r), x, r)
  <1> USE DEF Added
  <1> DEFINE q == SequenceOf[r]
             joins == q # Null /\ r \notin x.manual
             S == [x.state EXCEPT ![r] = "Active"]
             TR == IF joins THEN x.tracked \cup {q} ELSE x.tracked
             RA == IF joins THEN x.runningAsync \cup {q} ELSE x.runningAsync
             RR == [p \in Sequences |-> IF joins /\ p = q THEN r ELSE x.runningRequest[p]]
             NE == IF r \in x.excluded THEN x.numberOfExternals - 1 ELSE x.numberOfExternals
             L == IF InTypedList(r) THEN x.listed \cup {r} ELSE x.listed
  <1>1. AssertRelease(x, x.state[r] = "Submitting") = x
    BY DEF AssertRelease
  <1>2. ~joins => RR = x.runningRequest /\ TR = x.tracked /\ RA = x.runningAsync
    BY DEF Loop
  <1>3. joins => RR = [x.runningRequest EXCEPT ![q] = r]
    BY DEF Loop
  <1>4. CASE r \in x.manual
    <2>1. AddActiveHandle(x, r) =
            [[x EXCEPT !.state[r] = "Active"] EXCEPT !.numberOfManualCompletions = @ + 1]
      BY <1>1, <1>4 DEF AddActiveHandle
    <2>2. AddActiveHandle(x, r) =
            [x EXCEPT !.state = S,
                      !.numberOfManualCompletions = x.numberOfManualCompletions + 1]
      BY <2>1 DEF Loop
    <2> HIDE DEF S
    <2>3. AddActiveHandle(x, r) =
            [x EXCEPT !.state = S, !.tracked = x.tracked, !.runningAsync = x.runningAsync,
                      !.runningRequest = x.runningRequest,
                      !.numberOfManualCompletions = x.numberOfManualCompletions + 1,
                      !.numberOfActiveHandles = x.numberOfActiveHandles,
                      !.numberOfExternals = x.numberOfExternals, !.listed = x.listed]
      BY <2>2, LoopFields
    <2> QED BY <1>2, <1>4, <2>3 DEF S
  <1>5. CASE r \notin x.manual /\ q = Null
    <2>1. AddActiveHandle(x, r) =
            [[x EXCEPT !.state[r] = "Active"] EXCEPT !.numberOfActiveHandles = @ + 1,
                       !.numberOfExternals = IF r \in x.excluded THEN @ - 1 ELSE @,
                       !.listed = IF InTypedList(r) THEN @ \cup {r} ELSE @]
      <3> DEFINE y == AssertRelease(x, x.state[r] = "Submitting")
      <3>1. y = x
        BY <1>1
      <3> HIDE DEF y
      <3>2. AddActiveHandle(x, r) =
              [[y EXCEPT !.state[r] = "Active"] EXCEPT !.numberOfActiveHandles = @ + 1,
                         !.numberOfExternals = IF r \in x.excluded THEN @ - 1 ELSE @,
                         !.listed = IF InTypedList(r) THEN @ \cup {r} ELSE @]
        BY <1>5 DEF AddActiveHandle, y
      <3> QED BY <3>1, <3>2
    <2>2. AddActiveHandle(x, r) =
            [x EXCEPT !.state = S, !.numberOfActiveHandles = x.numberOfActiveHandles + 1,
                       !.numberOfExternals = NE, !.listed = L]
      BY <2>1 DEF Loop
    <2> HIDE DEF S, L
    <2>3. AddActiveHandle(x, r) =
            [x EXCEPT !.state = S, !.tracked = x.tracked, !.runningAsync = x.runningAsync,
                      !.runningRequest = x.runningRequest,
                      !.numberOfManualCompletions = x.numberOfManualCompletions,
                      !.numberOfActiveHandles = x.numberOfActiveHandles + 1,
                       !.numberOfExternals = NE, !.listed = L]
      BY <2>2, LoopFields
    <2> QED BY <1>2, <1>5, <2>3 DEF S, L
  <1>6. CASE r \notin x.manual /\ q # Null
    <2> DEFINE a == AssertRelease(x, x.state[r] = "Submitting")
               w == [[a EXCEPT !.state[r] = "Active"] EXCEPT
                       !.tracked = @ \cup {q}, !.runningAsync = @ \cup {q},
                       !.runningRequest[q] = r]
               v == [[x EXCEPT !.state[r] = "Active"] EXCEPT
                       !.tracked = @ \cup {q}, !.runningAsync = @ \cup {q},
                       !.runningRequest[q] = r]
    <2>5. AddActiveHandle(x, r) =
            [w EXCEPT !.numberOfActiveHandles = @ + 1,
                       !.numberOfExternals = IF r \in x.excluded THEN @ - 1 ELSE @,
                       !.listed = IF InTypedList(r) THEN @ \cup {r} ELSE @]
      BY <1>6 DEF AddActiveHandle
    <2>6. w = v
      BY <1>1
    <2> HIDE DEF w
    <2>1. AddActiveHandle(x, r) =
            [v EXCEPT !.numberOfActiveHandles = @ + 1,
                       !.numberOfExternals = IF r \in x.excluded THEN @ - 1 ELSE @,
                       !.listed = IF InTypedList(r) THEN @ \cup {r} ELSE @]
      BY <2>5, <2>6
    <2> DEFINE R == [x.runningRequest EXCEPT ![q] = r]
    <2>2. AddActiveHandle(x, r) =
            [x EXCEPT !.state = S, !.tracked = x.tracked \cup {q},
                      !.runningAsync = x.runningAsync \cup {q}, !.runningRequest = R,
                      !.numberOfActiveHandles = x.numberOfActiveHandles + 1,
                       !.numberOfExternals = NE, !.listed = L]
      BY <2>1 DEF Loop
    <2> HIDE DEF S, L, R
    <2>3. AddActiveHandle(x, r) =
            [x EXCEPT !.state = S, !.tracked = x.tracked \cup {q},
                      !.runningAsync = x.runningAsync \cup {q}, !.runningRequest = R,
                      !.numberOfManualCompletions = x.numberOfManualCompletions,
                      !.numberOfActiveHandles = x.numberOfActiveHandles + 1,
                       !.numberOfExternals = NE, !.listed = L]
      BY <2>2, LoopFields
    <2>4. RR = R
      BY <1>3, <1>6 DEF R
    <2> QED BY <1>6, <2>3, <2>4 DEF S, L
  <1> QED BY <1>4, <1>5, <1>6

LEMMA Joins ==
  ASSUME NEW held, NEW popped, NEW l, NEW r \in Requests, NEW m \in Loop,
         SoundUsage, Sound(l, held, Null, r, popped), l.state[r] # "Active",
         ~Contains(l.submissions, r), ~Contains(l.cancellations, r), ~Waits(l, r),
         l.task[r] = "idle",
         l.setting.kind[r] \in {"socket", "readiness"} => r \in l.watched,
         l.setting.sequenceOf[r] # Null =>
            l.runningRequest[l.setting.sequenceOf[r]] \in {r, Null}
            /\ m.runningRequest[l.setting.sequenceOf[r]] = r,
         Counted(m), m.setting = l.setting, m.asserted = l.asserted,
         m.state = [l.state EXCEPT ![r] = "Active"],
         \A p \in Sequences : p # l.setting.sequenceOf[r] =>
            /\ m.runningRequest[p] = l.runningRequest[p]
            /\ p \in m.runningAsync <=> p \in l.runningAsync
            /\ p \in m.tracked <=> p \in l.tracked,
         l.setting.sequenceOf[r] # Null =>
            l.setting.sequenceOf[r] \in m.runningAsync /\ l.setting.sequenceOf[r] \in m.tracked,
         m.queue = l.queue, m.cancellations = l.cancellations, m.submissions = l.submissions,
         m.watched = l.watched, m.poolCompletions = l.poolCompletions,
         \A x \in Requests : x # r => m.task[x] = l.task[x],
         m.task[r] = "idle" \/ (m.task[r] = "queued" /\ l.setting.kind[r] = "work"),
         r \in m.manual => l.setting.kind[r] = "write",
         \A x \in Requests : x # r => (x \in m.manual <=> x \in l.manual),
         IsInjective(m.manualCompletions),
         \A x \in Requests : Contains(m.manualCompletions, x) <=>
            Contains(l.manualCompletions, x) \/ (x = r /\ r \in m.manual),
         \A x \in Requests : x \in m.listed <=>
            x \in l.listed \/ (x = r /\ r \notin m.manual /\ l.setting.sequenceOf[r] = Null)
  PROVE  Sound(m, held \ {r}, Null, Null, popped)
  <1>1. /\ l \in Loop /\ Null \notin Requests /\ Null \notin Sequences
        /\ l.setting.sequenceOf[r] \in Sequences \cup {Null}
    BY SettingFacts DEF Base, Sound
  <1>2. m.state[r] = "Active" /\ \A x \in Requests : x # r => m.state[x] = l.state[x]
    BY <1>1 DEF Loop
  <1>3. \A x \in Requests : Waits(m, x) <=> Waits(l, x)
    BY DEF Waits
  <1>4. /\ r \notin l.manual /\ r \notin l.listed /\ ~Contains(l.manualCompletions, r)
        /\ ~Contains(l.poolCompletions, r)
    BY DEF Sound, Base, Placed, Tasked
  <1>5. Placed(m, held \ {r})
    <2>1. ASSUME NEW x \in Requests
          PROVE  /\ Contains(m.submissions, x) <=> x \notin held \ {r} /\
                      \/ m.state[x] \in {"Setup", "Reactivate"} /\ ~Waits(m, x)
                      \/ m.state[x] = "Cancelling" /\ ~Contains(m.cancellations, x)
                 /\ Waits(m, x) => m.state[x] = "Setup" /\ x \notin held \ {r}
                 /\ Contains(m.cancellations, x) => m.state[x] = "Cancelling" /\ x \notin held \ {r}
                 /\ m.state[x] = "Submitting" => x \in held \ {r}
                 /\ x \in held \ {r} =>
                      m.state[x] \in {"Setup", "Reactivate", "Submitting", "Cancelling"}
                 /\ Contains(m.manualCompletions, x) <=> x \in m.manual
                 /\ x \in m.manual => m.state[x] = "Active" /\ m.setting.kind[x] = "write"
                 /\ x \in m.listed <=>
                      m.state[x] = "Active" /\ x \notin m.manual /\ m.setting.sequenceOf[x] = Null
      <3>1. CASE x = r
        BY <1>2, <1>3, <1>4, <3>1
      <3>2. CASE x # r
        BY <1>2, <1>3, <3>2 DEF Sound, Base, Placed
      <3> QED BY <3>1, <3>2
    <2> QED BY <2>1 DEF Sound, Base, Placed
  <1>6. Tasked(m, popped)
    <2>1. ASSUME NEW x \in Requests
          PROVE  /\ Contains(m.poolCompletions, x) => m.task[x] \in {"pushed", "done"}
                 /\ m.task[x] \in {"pushed", "done"} =>
                      Contains(m.poolCompletions, x) \/ (m.state[x] = "Cancelling" /\ popped)
                 /\ m.task[x] # "idle" =>
                      /\ m.setting.kind[x] = "work"
                      /\ \/ m.state[x] = "Active"
                         \/ m.state[x] = "Cancelling" /\ ~Contains(m.cancellations, x)
      <3>1. CASE x = r
        BY <1>2, <1>4, <3>1
      <3>2. CASE x # r
        BY <1>2, <3>2 DEF Sound, Base, Tasked
      <3> QED BY <3>1, <3>2
    <2> QED BY <2>1 DEF Sound, Base, Tasked
  <1>7. Registered(m, Null)
    <2>1. ASSUME NEW x \in Requests
          PROVE /\ x \in m.watched =>
                  /\ m.setting.kind[x] \in {"socket", "readiness"}
                  /\ \/ m.state[x] \in {"Active", "Reactivate"} \/ x = Null
                     \/ m.state[x] = "Cancelling" /\ ~Contains(m.cancellations, x)
                /\ m.state[x] \in {"Active", "Reactivate"} /\ m.setting.kind[x] \in {"socket", "readiness"} =>
                  x \in m.watched
      <3>1. CASE x = r
        BY <1>2, <3>1 DEF Sound, Base, Registered
      <3>2. CASE x # r
        BY <1>2, <3>2 DEF Sound, Base, Registered
      <3> QED BY <3>1, <3>2
    <2> QED BY <2>1 DEF Registered
  <1>8. InTurn(m, Null, Null)
    <2> DEFINE q == l.setting.sequenceOf[r]
    <2>1. /\ OnItsWay(m, r)
          /\ \A x \in Requests : x # r => (OnItsWay(m, x) <=> OnItsWay(l, x))
      BY <1>2, <1>3 DEF OnItsWay
    <2>2. ASSUME NEW p \in Sequences
          PROVE  /\ p \in m.runningAsync \/ m.queue[p] # <<>> => p \in m.tracked
                 /\ p \in m.tracked => p \in m.runningAsync \/ m.queue[p] # <<>> \/ p = Null
                 /\ p \in m.runningAsync <=> m.runningRequest[p] # Null
                 /\ m.runningRequest[p] # Null =>
                     /\ m.setting.sequenceOf[m.runningRequest[p]] = p
                     /\ OnItsWay(m, m.runningRequest[p])
      <3>1. CASE p = q
        BY <1>1, <2>1, <3>1
      <3>2. CASE p # q
        <4>1. l.runningRequest[p] # Null =>
                /\ l.runningRequest[p] \in Requests
                /\ l.setting.sequenceOf[l.runningRequest[p]] = p
                /\ l.runningRequest[p] # r
          BY <1>1, <3>2, RunningIs DEF Sound
        <4>2. /\ m.runningRequest[p] = l.runningRequest[p]
              /\ p \in m.runningAsync <=> p \in l.runningAsync
              /\ p \in m.tracked <=> p \in l.tracked
          BY <3>2
        <4>3. /\ p \in l.runningAsync \/ l.queue[p] # <<>> => p \in l.tracked
              /\ p \in l.tracked => p \in l.runningAsync \/ l.queue[p] # <<>> \/ p = Null
              /\ p \in l.runningAsync <=> l.runningRequest[p] # Null
              /\ l.runningRequest[p] # Null => OnItsWay(l, l.runningRequest[p])
          BY DEF Sound, InTurn
        <4> QED BY <2>1, <4>1, <4>2, <4>3
      <3> QED BY <3>1, <3>2
    <2>3. ASSUME NEW x \in Requests, m.setting.sequenceOf[x] # Null, OnItsWay(m, x),
                 m.state[x] # "Cancelling"
          PROVE  m.runningRequest[m.setting.sequenceOf[x]] = x
                 \/ (x = Null /\ m.setting.sequenceOf[x] \notin m.runningAsync)
      <3>1. CASE x = r
        BY <2>3, <3>1
      <3>2. CASE x # r
        <4>1. l.setting.sequenceOf[x] \in Sequences
          BY <1>1, <2>3, SettingFacts
        <4>2. l.runningRequest[l.setting.sequenceOf[x]] = x
          BY <1>1, <1>2, <2>1, <2>3, <3>2 DEF Sound, InTurn
        <4>3. l.setting.sequenceOf[x] # q
          BY <1>1, <3>2, <4>1, <4>2
        <4> QED BY <4>1, <4>2, <4>3
      <3> QED BY <3>1, <3>2
    <2> QED BY <2>2, <2>3 DEF InTurn
  <1> QED BY <1>5, <1>6, <1>7, <1>8 DEF Sound, Base

AfterActivation(k, m, r, held, popped) ==
    /\ Sound(m, held \ {r}, Null, Null, popped)
    /\ m.state = [k.state EXCEPT ![r] = "Active"] /\ m.cancellations = k.cancellations
    /\ m.needsTeardown = k.needsTeardown /\ m.queue = k.queue /\ m.submissions = k.submissions

LEMMA Activated ==
  ASSUME NEW held, NEW popped, NEW k, NEW r \in Requests,
         SoundUsage, Sound(k, held, Null, r, popped), k.setting = loop.setting, r \in held,
         k.state[r] \in {"Setup", "Reactivate"},
         k.setting.kind[r] \in {"socket", "readiness"} => r \in k.watched
  PROVE  AfterActivation(k, ActivateAsync(k, r), r, held, popped)
  <1>1. /\ k \in Loop /\ SequenceOf[r] = k.setting.sequenceOf[r] /\ Kind[r] = k.setting.kind[r]
        /\ SequenceOf[r] \in Sequences \cup {Null} /\ Null \notin Sequences /\ Null \notin Requests
        /\ k.setting.kind[r] \in Kinds
        /\ k.setting.kind[r] = "timeout" => k.setting.sequenceOf[r] = Null
    BY SettingFacts DEF Sound, Base, SequenceOf, Kind
  <1>2. /\ ~Contains(k.submissions, r) /\ ~Contains(k.cancellations, r) /\ ~Waits(k, r)
        /\ r \notin k.manual /\ r \notin k.listed /\ ~Contains(k.manualCompletions, r)
        /\ IsInjective(k.manualCompletions) /\ k.manualCompletions \in Seq(Requests)
        /\ k.task[r] = "idle"
    BY <1>1 DEF Sound, Base, Placed, Tasked, Loop
  <1>3. OnItsWay(k, r)
    BY <1>2 DEF OnItsWay
  <1>4. SequenceOf[r] # Null => /\ k.runningRequest[SequenceOf[r]] = r
                                /\ SequenceOf[r] \in k.runningAsync
                                /\ SequenceOf[r] \in k.tracked
    <2>1. SequenceOf[r] # Null => k.runningRequest[SequenceOf[r]] = r
      BY <1>1, <1>3 DEF Sound, InTurn
    <2> QED BY <1>1, <2>1 DEF Sound, InTurn
  <1> DEFINE S == [k.state EXCEPT ![r] = "Submitting"]
             T == IF Kind[r] = "work" THEN [k.task EXCEPT ![r] = "queued"] ELSE k.task
             M == IF Kind[r] = "write" THEN k.manual \cup {r} ELSE k.manual
             MC == IF Kind[r] = "write" THEN Append(k.manualCompletions, r)
                   ELSE k.manualCompletions
             x == [k EXCEPT !.state = S, !.task = T, !.manual = M, !.manualCompletions = MC]
             m == ActivateAsync(k, r)
  <1>5. m = AddActiveHandle(x, r)
    <2> DEFINE u == [k EXCEPT !.state[r] = "Submitting"]
    <2>1. CASE Kind[r] = "work"
      <3>1. x = [u EXCEPT !.task[r] = "queued"]
        BY <1>1, <2>1 DEF Loop
      <3> HIDE DEF x
      <3> QED BY <2>1, <3>1 DEF ActivateAsync
    <2>2. CASE Kind[r] = "write"
      <3>1. x = PosixWriteActivate(u, r)
        BY <1>1, <2>2 DEF Loop, PosixWriteActivate
      <3> HIDE DEF x
      <3> QED BY <2>2, <3>1 DEF ActivateAsync
    <2>3. CASE Kind[r] \notin {"work", "write"}
      <3>1. x = u
        BY <1>1, <2>3 DEF Loop
      <3> HIDE DEF x
      <3> QED BY <2>3, <3>1 DEF ActivateAsync
    <2> QED BY <2>1, <2>2, <2>3
  <1>6. /\ Append(k.manualCompletions, r) \in Seq(Requests)
        /\ IsInjective(Append(k.manualCompletions, r))
        /\ \A y : Contains(Append(k.manualCompletions, r), y) <=> Contains(k.manualCompletions, y) \/ y = r
    BY <1>2, Appended
  <1>7. /\ S \in [Requests -> States] /\ S[r] = "Submitting"
        /\ T \in [Requests -> {"idle", "queued", "pushed", "done"}]
        /\ T[r] = (IF Kind[r] = "work" THEN "queued" ELSE "idle")
        /\ \A y \in Requests : y # r => T[y] = k.task[y]
        /\ M \in SUBSET Requests
        /\ MC \in Seq(Requests) /\ IsInjective(MC)
        /\ \A y \in Requests : Contains(MC, y) <=> Contains(k.manualCompletions, y) \/ (y = r /\ r \in M)
        /\ [S EXCEPT ![r] = "Active"] = [k.state EXCEPT ![r] = "Active"]
    BY <1>1, <1>2, <1>6 DEF Loop, States
  <1>8. /\ r \in M <=> Kind[r] = "write"
        /\ \A y \in Requests : y # r => (y \in M <=> y \in k.manual)
        /\ M = k.manual \/ M = k.manual \cup {r}
    BY <1>2
  <1> HIDE DEF S, T, M, MC, m
  <1>9. /\ x \in Loop /\ x.setting = k.setting /\ x.asserted = k.asserted
        /\ x.state = S
        /\ x.submissions = k.submissions /\ x.numberOfSubmissions = k.numberOfSubmissions
        /\ x.queue = k.queue /\ x.tracked = k.tracked /\ x.runningAsync = k.runningAsync
        /\ x.runningRequest = k.runningRequest /\ x.cancellations = k.cancellations
        /\ x.manual = M /\ x.manualCompletions = MC
        /\ x.listed = k.listed
        /\ x.excluded = k.excluded /\ x.needsTeardown = k.needsTeardown
        /\ x.numberOfActiveHandles = k.numberOfActiveHandles
        /\ x.numberOfManualCompletions = k.numberOfManualCompletions
        /\ x.numberOfExternals = k.numberOfExternals
        /\ x.task = T /\ x.poolCompletions = k.poolCompletions /\ x.watched = k.watched
    BY <1>1, <1>7 DEF Loop
  <1> HIDE DEF x
  <1> DEFINE q == SequenceOf[r]
             joins == q # Null /\ r \notin x.manual
             SA == [x.state EXCEPT ![r] = "Active"]
             TR == IF joins THEN x.tracked \cup {q} ELSE x.tracked
             RA == IF joins THEN x.runningAsync \cup {q} ELSE x.runningAsync
             RR == [p \in Sequences |-> IF joins /\ p = q THEN r ELSE x.runningRequest[p]]
             NM == IF r \in x.manual THEN x.numberOfManualCompletions + 1
                   ELSE x.numberOfManualCompletions
             NA == IF r \in x.manual THEN x.numberOfActiveHandles ELSE x.numberOfActiveHandles + 1
             NE == IF r \notin x.manual /\ r \in x.excluded THEN x.numberOfExternals - 1
                   ELSE x.numberOfExternals
             L == IF r \notin x.manual /\ InTypedList(r) THEN x.listed \cup {r} ELSE x.listed
  <1>10. m = [x EXCEPT !.state = SA, !.tracked = TR, !.runningAsync = RA, !.runningRequest = RR,
                     !.numberOfManualCompletions = NM, !.numberOfActiveHandles = NA,
                     !.numberOfExternals = NE, !.listed = L]
    <2>1. x \in Loop /\ x.state[r] = "Submitting"
      BY <1>1, <1>5, <1>7, <1>9
    <2>2. Added(AddActiveHandle(x, r), x, r)
      BY <1>1, <2>1, HandleAdded
    <2>3. m = AddActiveHandle(x, r)
      BY <1>1, <1>5, <1>7, <1>9
    <2> HIDE DEF m
    <2> QED BY <2>2, <2>3 DEF Added
  <1>11. /\ TR = k.tracked /\ RA = k.runningAsync /\ RR = k.runningRequest
         /\ SA = [k.state EXCEPT ![r] = "Active"] /\ SA \in [Requests -> States]
         /\ L \in SUBSET Requests
    BY <1>1, <1>4, <1>7, <1>9 DEF Loop, States
  <1>12. /\ x.numberOfManualCompletions + 1 \in Nat /\ x.numberOfActiveHandles + 1 \in Nat
         /\ x.numberOfExternals - 1 \in Int
    BY <1>9 DEF Loop
  <1>13. NM \in Nat /\ NA \in Nat /\ NE \in Int
    BY <1>9, <1>12 DEF Loop
  <1>14. \A y \in Requests : y \in L <=> y \in k.listed \/ (y = r /\ r \notin M /\ q = Null)
    BY <1>1, <1>9 DEF InTypedList
  <1> HIDE DEF SA, TR, RA, RR, NM, NA, NE, L
  <1>15. m \in Loop
    <2>1. /\ x \in Loop /\ SA \in [Requests -> States] /\ TR \in SUBSET Sequences
          /\ RA \in SUBSET Sequences /\ RR \in [Sequences -> Requests \cup {Null}]
          /\ L \in SUBSET Requests
      BY <1>1, <1>9, <1>11 DEF Loop
    <2> QED BY <1>10, <1>13, <2>1 DEF Loop
  <1>16. /\ m.setting = k.setting /\ m.asserted = k.asserted
         /\ m.state = SA /\ m.tracked = TR /\ m.runningAsync = RA /\ m.runningRequest = RR
         /\ m.numberOfManualCompletions = NM /\ m.numberOfActiveHandles = NA
         /\ m.numberOfExternals = NE /\ m.listed = L
         /\ m.submissions = k.submissions /\ m.numberOfSubmissions = k.numberOfSubmissions
         /\ m.queue = k.queue /\ m.cancellations = k.cancellations
         /\ m.manual = M /\ m.manualCompletions = MC
         /\ m.excluded = k.excluded /\ m.needsTeardown = k.needsTeardown
         /\ m.task = T /\ m.poolCompletions = k.poolCompletions /\ m.watched = k.watched
    BY <1>9, <1>10 DEF Loop
  <1>17. Counted(m)
    <2>1. ActiveIn(m) = ActiveIn(k) \cup {r}
      <3>1. m.state[r] = "Active" /\ \A y \in Requests : y # r => m.state[y] = k.state[y]
        BY <1>1, <1>11, <1>16 DEF Loop
      <3> QED BY <3>1 DEF ActiveIn
    <2>2. Counted(k) /\ m.numberOfSubmissions = Len(m.submissions)
      BY <1>16 DEF Sound, Base, Counted
    <2>3. /\ m.numberOfManualCompletions = IF r \in m.manual THEN k.numberOfManualCompletions + 1
                                       ELSE k.numberOfManualCompletions
          /\ m.numberOfActiveHandles = IF r \in m.manual THEN k.numberOfActiveHandles
                                   ELSE k.numberOfActiveHandles + 1
          /\ m.numberOfExternals = IF r \notin m.manual /\ r \in k.excluded
                               THEN k.numberOfExternals - 1 ELSE k.numberOfExternals
      BY <1>9, <1>16 DEF NM, NA, NE
    <2>4. m.manual = k.manual \/ m.manual = k.manual \cup {r}
      BY <1>8, <1>16
    <2> QED BY <1>1, <1>2, <1>16, <2>1, <2>2, <2>3, <2>4, CountsJoin
  <1>18. Sound(m, held \ {r}, Null, Null, popped)
    <2>1. /\ k.state[r] # "Active" /\ k.task[r] = "idle"
          /\ ~Contains(k.submissions, r) /\ ~Contains(k.cancellations, r) /\ ~Waits(k, r)
      BY <1>2
    <2>2. /\ q # Null =>
               k.runningRequest[q] \in {r, Null} /\ m.runningRequest[q] = r
          /\ q # Null => q \in m.runningAsync /\ q \in m.tracked
          /\ \A p \in Sequences : p # q =>
                /\ m.runningRequest[p] = k.runningRequest[p]
                /\ p \in m.runningAsync <=> p \in k.runningAsync
                /\ p \in m.tracked <=> p \in k.tracked
      BY <1>4, <1>11, <1>16
    <2>3. /\ m.state = [k.state EXCEPT ![r] = "Active"]
          /\ \A y \in Requests : y # r => m.task[y] = k.task[y]
          /\ m.task[r] = "idle" \/ (m.task[r] = "queued" /\ k.setting.kind[r] = "work")
      BY <1>1, <1>7, <1>11, <1>16
    <2>4. /\ r \in m.manual => k.setting.kind[r] = "write"
          /\ \A y \in Requests : y # r => (y \in m.manual <=> y \in k.manual)
          /\ IsInjective(m.manualCompletions)
          /\ \A y \in Requests : Contains(m.manualCompletions, y) <=>
                Contains(k.manualCompletions, y) \/ (y = r /\ r \in m.manual)
      BY <1>1, <1>7, <1>8, <1>16
    <2>5. \A y \in Requests : y \in m.listed <=>
            y \in k.listed \/ (y = r /\ r \notin m.manual /\ q = Null)
      BY <1>14, <1>16
    <2>6. /\ m.queue = k.queue /\ m.cancellations = k.cancellations
          /\ m.submissions = k.submissions
          /\ m.watched = k.watched /\ m.poolCompletions = k.poolCompletions
          /\ m.setting = k.setting /\ m.asserted = k.asserted
      BY <1>16
    <2>7. q = k.setting.sequenceOf[r]
      BY <1>1
    <2> HIDE DEF q
    <2> QED BY <1>15, <1>17, <2>1, <2>2, <2>3, <2>4, <2>5, <2>6, <2>7, Joins
  <1> QED BY <1>11, <1>16, <1>18 DEF AfterActivation, m

\* A readiness request that its callback reactivates is active at once.
ReadyAgain(l, r) == AddActiveHandle([l EXCEPT !.state[r] = "Submitting"], r)

AfterReadyAgain(l, m, r, held, popped) ==
    /\ Sound(m, held, Null, Null, popped)
    /\ m.state = [l.state EXCEPT ![r] = "Active"] /\ m.cancellations = l.cancellations
    /\ m.needsTeardown = l.needsTeardown /\ m.queue = l.queue /\ m.submissions = l.submissions
    /\ SequenceOf[r] # Null => m.runningRequest[SequenceOf[r]] = r

LEMMA ReactivatedAtOnce ==
  ASSUME NEW held, NEW popped, NEW l, NEW r \in Requests,
         SoundUsage, Sound(l, held, Null, r, popped), l.setting = loop.setting,
         l.state[r] = "Free", l.setting.kind[r] = "readiness", r \in l.watched,
         SequenceOf[r] \notin l.runningAsync
  PROVE  AfterReadyAgain(l, ReadyAgain(l, r), r, held, popped)
  <1>1. /\ l \in Loop /\ SequenceOf[r] = l.setting.sequenceOf[r]
        /\ SequenceOf[r] \in Sequences \cup {Null} /\ Null \notin Sequences /\ Null \notin Requests
    BY SettingFacts DEF Sound, Base, SequenceOf, Kind
  <1>2. /\ ~Contains(l.submissions, r) /\ ~Contains(l.cancellations, r) /\ ~Waits(l, r)
        /\ r \notin l.manual /\ r \notin l.listed /\ ~Contains(l.manualCompletions, r)
        /\ IsInjective(l.manualCompletions) /\ l.manualCompletions \in Seq(Requests)
        /\ l.task[r] = "idle" /\ r \notin held
    BY <1>1 DEF Sound, Base, Placed, Tasked, Loop
  <1> DEFINE x == [l EXCEPT !.state[r] = "Submitting"]
             m == ReadyAgain(l, r)
             q == SequenceOf[r]
  <1>3. m = AddActiveHandle(x, r)
    BY DEF ReadyAgain
  <1> HIDE DEF m
  <1>9. /\ x \in Loop /\ x.setting = l.setting /\ x.asserted = l.asserted
        /\ x.state = [l.state EXCEPT ![r] = "Submitting"]
        /\ x.submissions = l.submissions /\ x.numberOfSubmissions = l.numberOfSubmissions
        /\ x.queue = l.queue /\ x.tracked = l.tracked /\ x.runningAsync = l.runningAsync
        /\ x.runningRequest = l.runningRequest /\ x.cancellations = l.cancellations
        /\ x.manual = l.manual /\ x.manualCompletions = l.manualCompletions
        /\ x.listed = l.listed
        /\ x.excluded = l.excluded /\ x.needsTeardown = l.needsTeardown
        /\ x.numberOfActiveHandles = l.numberOfActiveHandles
        /\ x.numberOfManualCompletions = l.numberOfManualCompletions
        /\ x.numberOfExternals = l.numberOfExternals
        /\ x.task = l.task /\ x.poolCompletions = l.poolCompletions /\ x.watched = l.watched
    <2>1. [l.state EXCEPT ![r] = "Submitting"] \in [Requests -> States]
      BY <1>1 DEF Loop, States
    <2> QED BY <1>1, <2>1 DEF Loop
  <1> HIDE DEF x
  <1> DEFINE joins == q # Null /\ r \notin x.manual
             SA == [x.state EXCEPT ![r] = "Active"]
             TR == IF joins THEN x.tracked \cup {q} ELSE x.tracked
             RA == IF joins THEN x.runningAsync \cup {q} ELSE x.runningAsync
             RR == [p \in Sequences |-> IF joins /\ p = q THEN r ELSE x.runningRequest[p]]
             NM == IF r \in x.manual THEN x.numberOfManualCompletions + 1
                   ELSE x.numberOfManualCompletions
             NA == IF r \in x.manual THEN x.numberOfActiveHandles ELSE x.numberOfActiveHandles + 1
             NE == IF r \notin x.manual /\ r \in x.excluded THEN x.numberOfExternals - 1
                   ELSE x.numberOfExternals
             L == IF r \notin x.manual /\ InTypedList(r) THEN x.listed \cup {r} ELSE x.listed
  <1>10. m = [x EXCEPT !.state = SA, !.tracked = TR, !.runningAsync = RA, !.runningRequest = RR,
                     !.numberOfManualCompletions = NM, !.numberOfActiveHandles = NA,
                     !.numberOfExternals = NE, !.listed = L]
    <2>1. x.state[r] = "Submitting"
      BY <1>1, <1>9 DEF Loop
    <2>2. x \in Loop /\ q \in Sequences \cup {Null} /\ Null \notin Sequences
      BY <1>1, <1>9
    <2>3. Added(AddActiveHandle(x, r), x, r)
      BY <2>1, <2>2, HandleAdded
    <2> HIDE DEF m
    <2> QED BY <1>3, <2>3 DEF Added
  <1>11. /\ TR \in SUBSET Sequences /\ RA \in SUBSET Sequences
         /\ RR \in [Sequences -> Requests \cup {Null}]
         /\ SA = [l.state EXCEPT ![r] = "Active"] /\ SA \in [Requests -> States]
         /\ L \in SUBSET Requests
    BY <1>1, <1>9 DEF Loop, States
  <1>12. /\ x.numberOfActiveHandles + 1 \in Nat /\ x.numberOfExternals - 1 \in Int
    BY <1>9 DEF Loop
  <1>13. NM \in Nat /\ NA \in Nat /\ NE \in Int
    BY <1>2, <1>9, <1>12 DEF Loop
  <1>14. \A y \in Requests : y \in L <=> y \in l.listed \/ (y = r /\ r \notin l.manual /\ q = Null)
    <2>1. InTypedList(r) <=> q = Null
      <3>1. Kind[r] # "timeout"
        BY <1>1 DEF Kind
      <3> QED BY <3>1 DEF InTypedList
    <2> QED BY <1>2, <1>9, <2>1
  <1>19. /\ q # Null =>
               l.runningRequest[q] \in {r, Null} /\ RR[q] = r
         /\ q # Null => q \in RA /\ q \in TR
         /\ \A p \in Sequences : p # q =>
                /\ RR[p] = l.runningRequest[p]
                /\ p \in RA <=> p \in l.runningAsync
                /\ p \in TR <=> p \in l.tracked
    <2>1. q # Null => l.runningRequest[q] = Null
      BY <1>1 DEF Sound, InTurn
    <2> QED BY <1>1, <1>2, <1>9, <2>1
  <1> HIDE DEF SA, TR, RA, RR, NM, NA, NE, L
  <1>15. m \in Loop
    BY <1>1, <1>9, <1>10, <1>11, <1>13 DEF Loop
  <1>16. /\ m.setting = l.setting /\ m.asserted = l.asserted
         /\ m.state = SA /\ m.tracked = TR /\ m.runningAsync = RA /\ m.runningRequest = RR
         /\ m.numberOfManualCompletions = NM /\ m.numberOfActiveHandles = NA
         /\ m.numberOfExternals = NE /\ m.listed = L
         /\ m.submissions = l.submissions /\ m.numberOfSubmissions = l.numberOfSubmissions
         /\ m.queue = l.queue /\ m.cancellations = l.cancellations
         /\ m.manual = l.manual /\ m.manualCompletions = l.manualCompletions
         /\ m.excluded = l.excluded /\ m.needsTeardown = l.needsTeardown
         /\ m.task = l.task /\ m.poolCompletions = l.poolCompletions /\ m.watched = l.watched
    BY <1>9, <1>10 DEF Loop
  <1>17. Counted(m)
    <2>1. ActiveIn(m) = ActiveIn(l) \cup {r}
      <3>1. m.state[r] = "Active" /\ \A y \in Requests : y # r => m.state[y] = l.state[y]
        BY <1>1, <1>11, <1>16 DEF Loop
      <3> QED BY <3>1 DEF ActiveIn
    <2>2. Counted(l) /\ m.numberOfSubmissions = Len(m.submissions)
      BY <1>16 DEF Sound, Base, Counted
    <2>3. /\ m.numberOfManualCompletions = IF r \in m.manual THEN l.numberOfManualCompletions + 1
                                       ELSE l.numberOfManualCompletions
          /\ m.numberOfActiveHandles = IF r \in m.manual THEN l.numberOfActiveHandles
                                   ELSE l.numberOfActiveHandles + 1
          /\ m.numberOfExternals = IF r \notin m.manual /\ r \in l.excluded
                               THEN l.numberOfExternals - 1 ELSE l.numberOfExternals
      BY <1>9, <1>16 DEF NM, NA, NE
    <2>4. m.manual = l.manual \/ m.manual = l.manual \cup {r}
      BY <1>16
    <2> QED BY <1>1, <1>2, <1>16, <2>1, <2>2, <2>3, <2>4, CountsJoin
  <1>18. Sound(m, held \ {r}, Null, Null, popped)
    <2>1. /\ l.state[r] # "Active" /\ l.task[r] = "idle"
          /\ ~Contains(l.submissions, r) /\ ~Contains(l.cancellations, r) /\ ~Waits(l, r)
      BY <1>2
    <2>2. /\ q # Null =>
               l.runningRequest[q] \in {r, Null} /\ m.runningRequest[q] = r
          /\ q # Null => q \in m.runningAsync /\ q \in m.tracked
          /\ \A p \in Sequences : p # q =>
                /\ m.runningRequest[p] = l.runningRequest[p]
                /\ p \in m.runningAsync <=> p \in l.runningAsync
                /\ p \in m.tracked <=> p \in l.tracked
      BY <1>16, <1>19
    <2>3. /\ m.state = [l.state EXCEPT ![r] = "Active"]
          /\ \A y \in Requests : y # r => m.task[y] = l.task[y]
          /\ m.task[r] = "idle" \/ (m.task[r] = "queued" /\ l.setting.kind[r] = "work")
      BY <1>2, <1>11, <1>16
    <2>4. /\ r \in m.manual => l.setting.kind[r] = "write"
          /\ \A y \in Requests : y # r => (y \in m.manual <=> y \in l.manual)
          /\ IsInjective(m.manualCompletions)
          /\ \A y \in Requests : Contains(m.manualCompletions, y) <=>
                Contains(l.manualCompletions, y) \/ (y = r /\ r \in m.manual)
      BY <1>2, <1>16
    <2>5. \A y \in Requests : y \in m.listed <=>
            y \in l.listed \/ (y = r /\ r \notin m.manual /\ q = Null)
      BY <1>14, <1>16
    <2>6. /\ m.queue = l.queue /\ m.cancellations = l.cancellations
          /\ m.submissions = l.submissions
          /\ m.watched = l.watched /\ m.poolCompletions = l.poolCompletions
          /\ m.setting = l.setting /\ m.asserted = l.asserted
      BY <1>16
    <2>7. q = l.setting.sequenceOf[r]
      BY <1>1
    <2> HIDE DEF q
    <2> QED BY <1>15, <1>17, <2>1, <2>2, <2>3, <2>4, <2>5, <2>6, <2>7, Joins
  <1>20. held \ {r} = held
    BY <1>2
  <1> QED BY <1>11, <1>16, <1>18, <1>19, <1>20 DEF AfterReadyAgain, m

-----------------------------------------------------------------------------
(* Submissions that fail or are cancelled                                  *)

\* What Sound does not look at, and the registrations, may differ.
Alike(l, m) ==
    /\ m.setting = l.setting /\ m.asserted = l.asserted /\ m.state = l.state
    /\ m.submissions = l.submissions /\ m.numberOfSubmissions = l.numberOfSubmissions
    /\ m.queue = l.queue /\ m.tracked = l.tracked /\ m.runningAsync = l.runningAsync
    /\ m.runningRequest = l.runningRequest /\ m.cancellations = l.cancellations
    /\ m.manual = l.manual /\ m.manualCompletions = l.manualCompletions
    /\ m.listed = l.listed /\ m.excluded = l.excluded
    /\ m.numberOfActiveHandles = l.numberOfActiveHandles
    /\ m.numberOfManualCompletions = l.numberOfManualCompletions
    /\ m.numberOfExternals = l.numberOfExternals
    /\ m.task = l.task /\ m.poolCompletions = l.poolCompletions

LEMMA AlikeSound ==
  ASSUME NEW held, NEW again, NEW completing, NEW done, NEW popped, NEW l, NEW m \in Loop,
         Sound(l, held, again, completing, popped), Alike(l, m), Registered(m, done)
  PROVE  Sound(m, held, again, done, popped)
  <1>1. Counted(m)
    BY DEF Alike, Sound, Base, Counted, ActiveIn
  <1>2. Placed(m, held)
    BY DEF Alike, Sound, Base, Placed, Waits
  <1>3. Tasked(m, popped)
    BY DEF Alike, Sound, Base, Tasked
  <1>4. InTurn(m, again, Null)
    BY InTurnKept DEF Alike, Sound
  <1> QED BY <1>1, <1>2, <1>3, <1>4 DEF Alike, Sound, Base

LEMMA AlikeKept ==
  ASSUME NEW held, NEW again, NEW completing, NEW popped, NEW l, NEW m \in Loop,
         Sound(l, held, again, completing, popped), Alike(l, m), m.watched = l.watched
  PROVE  Sound(m, held, again, completing, popped)
  <1>1. Registered(m, completing)
    BY DEF Alike, Sound, Base, Registered
  <1> QED BY <1>1, AlikeSound

AfterSetup(l, m, r, held, popped) ==
    /\ Sound(m, held, Null, r, popped) /\ Alike(l, m)
    /\ m.needsTeardown = l.needsTeardown \ {r}
    /\ l.setting.kind[r] \in {"socket", "readiness"} => r \in m.watched
    /\ l.setting.kind[r] \notin {"socket", "readiness"} => m.watched = l.watched

LEMMA SetUp ==
  ASSUME NEW held, NEW popped, NEW l, NEW r \in Requests,
         SoundUsage, Sound(l, held, Null, Null, popped), l.setting = loop.setting, r \in held,
         l.state[r] = "Setup"
  PROVE  AfterSetup(l, SetupDone(l, r), r, held, popped)
  <1> DEFINE m == SetupDone(l, r)
             W == IF Watches(r) THEN l.watched \cup {r} ELSE l.watched
             n == [l EXCEPT !.manual = l.manual \ {r}, !.needsTeardown = l.needsTeardown \ {r},
                            !.watched = W]
  <1>1. l \in Loop /\ Kind[r] = l.setting.kind[r] /\ r \notin l.manual /\ Null \notin Requests
    BY EventLoopAssumption DEF Sound, Base, Placed, Kind
  <1>2. m = n
    BY <1>1 DEF SetupDone, SetupAsync, Loop
  <1>3. W \in SUBSET Requests /\ l.manual \ {r} = l.manual
    BY <1>1 DEF Loop
  <1> HIDE DEF m, W
  <1>4. n \in Loop
    BY <1>1, <1>3 DEF Loop
  <1>5. Alike(l, n) /\ n.needsTeardown = l.needsTeardown \ {r} /\ n.watched = W
    BY <1>1, <1>3 DEF Loop, Alike
  <1> HIDE DEF n
  <1>6. Registered(n, r)
    <2>1. \A x \in Requests : x \in n.watched <=>
            x \in l.watched \/ (x = r /\ l.setting.kind[r] \in {"socket", "readiness"})
      BY <1>1, <1>5 DEF W, Watches
    <2>2. /\ n.state = l.state /\ n.setting = l.setting /\ n.cancellations = l.cancellations
          /\ Registered(l, Null)
      BY <1>5 DEF Alike, Sound, Base
    <2> QED BY <1>1, <2>1, <2>2 DEF Registered
  <1>7. Sound(n, held, Null, r, popped)
    BY <1>4, <1>5, <1>6, AlikeSound
  <1> QED BY <1>1, <1>2, <1>5, <1>7 DEF AfterSetup, W, Watches, m

\* A callback reports the error; the requests that wait in the sequence may be dropped.
AfterFailure(l, m, r, held, popped) ==
    /\ Sound(m, held, Null, Null, popped) /\ m.state[r] = l.state[r]
    /\ Keeps(l, m, {}) /\ m.submissions = l.submissions

LEMMA FailureReported ==
  ASSUME NEW held, NEW popped, NEW l, NEW r \in Requests,
         SoundUsage, Sound(l, held, Null, Null, popped), l.setting = loop.setting, r \in held
  PROVE  AfterFailure(l, BeginError(l, r), r, held, popped)
  <1> DEFINE q == SequenceOf[r]
             m == BeginError(l, r)
  <1>1. l \in Loop /\ q \in Sequences \cup {Null} /\ Null \notin Sequences
    BY SettingFacts DEF Sound, Base, SequenceOf
  <1>2. l.state[r] # "Active" /\ ~Waits(l, r)
    BY DEF Sound, Base, Placed
  <1>3. CASE q # Null /\ q \in ClearOnError
    <2>1. m = ClearSequence(l, q)
      BY <1>2, <1>3 DEF BeginError
    <2>2. Base(l, held, Null, popped) /\ InTurn(l, Null, q) /\ q \in Sequences
      BY <1>1, <1>3, AnyIdle DEF Sound
    <2> HIDE DEF m, q
    <2>3. /\ Sound(m, held, Null, Null, popped)
          /\ \A x \in Requests : l.state[x] # "Setup" =>
               m.state[x] = l.state[x] /\ (x \in m.needsTeardown <=> x \in l.needsTeardown)
          /\ \A x \in Requests : m.state[x] # l.state[x] =>
               l.state[x] = "Setup" /\ m.state[x] = "Free" /\ Waits(l, x)
          /\ m.submissions = l.submissions /\ m.cancellations = l.cancellations
          /\ m.queue[q] = <<>>
          /\ \A p \in Sequences : p # q => m.queue[p] = l.queue[p]
      BY <2>1, <2>2, Cleared
    <2>4. Keeps(l, m, {})
      BY <2>2, <2>3 DEF Keeps
    <2> QED BY <1>2, <2>3, <2>4 DEF AfterFailure, m
  <1>4. CASE ~(q # Null /\ q \in ClearOnError)
    <2>1. m = l
      BY <1>2, <1>4 DEF BeginError
    <2> HIDE DEF m
    <2> QED BY <2>1 DEF AfterFailure, Keeps, m
  <1> QED BY <1>3, <1>4

LEMMA SetupFailed ==
  ASSUME NEW held, NEW popped, NEW l, NEW r \in Requests,
         SoundUsage, Sound(l, held, Null, Null, popped), l.setting = loop.setting, r \in held
  PROVE  /\ Sound(SetupAsync(l, r), held, Null, Null, popped) /\ Alike(l, SetupAsync(l, r))
         /\ SetupAsync(l, r).needsTeardown = l.needsTeardown \ {r}
  <1> DEFINE n == [l EXCEPT !.manual = l.manual \ {r}, !.needsTeardown = l.needsTeardown \ {r}]
  <1>1. l \in Loop /\ l.manual \ {r} = l.manual
    BY DEF Sound, Base, Placed
  <1>2. SetupAsync(l, r) = n
    BY DEF SetupAsync
  <1>3. n \in Loop
    BY <1>1 DEF Loop
  <1>4. Alike(l, n) /\ n.needsTeardown = l.needsTeardown \ {r} /\ n.watched = l.watched
    BY <1>1 DEF Loop, Alike
  <1> HIDE DEF n
  <1> QED BY <1>2, <1>3, <1>4, AlikeKept

\* The state of a request whose activation fails.
Submits(l, r, T) == [l EXCEPT !.state = [l.state EXCEPT ![r] = "Submitting"], !.needsTeardown = T]

AfterAttempt(l, m, r, T, held, popped) ==
    /\ Sound(m, held, Null, Null, popped)
    /\ m.state = [l.state EXCEPT ![r] = "Submitting"] /\ m.needsTeardown = T
    /\ m.setting = l.setting /\ m.queue = l.queue /\ m.cancellations = l.cancellations
    /\ m.submissions = l.submissions

LEMMA ActivationFailed ==
  ASSUME NEW held, NEW popped, NEW l, NEW r \in Requests, NEW T \in SUBSET Requests,
         SoundUsage, Sound(l, held, Null, Null, popped), r \in held,
         l.state[r] \in {"Setup", "Reactivate"},
         l.setting.kind[r] \notin {"socket", "readiness"}
  PROVE  AfterAttempt(l, Submits(l, r, T), r, T, held, popped)
  <1> DEFINE m == Submits(l, r, T)
             S == [l.state EXCEPT ![r] = "Submitting"]
  <1>1. /\ l \in Loop /\ r \notin l.watched /\ IsInjective(l.submissions)
        /\ l.numberOfSubmissions = Len(l.submissions) /\ ~Contains(l.submissions, r)
    BY DEF Sound, Base, Registered, Placed, Counted
  <1>2. /\ S \in [Requests -> States] /\ S[r] = "Submitting"
        /\ \A x \in Requests : x # r => S[x] = l.state[x]
    BY <1>1 DEF Loop, States
  <1>3. m \in Loop
    BY <1>1, <1>2 DEF Loop, Submits
  <1>4. /\ m.setting = l.setting /\ m.asserted = l.asserted
        /\ m.state = S
        /\ m.submissions = l.submissions /\ m.numberOfSubmissions = l.numberOfSubmissions
        /\ m.queue = l.queue /\ m.tracked = l.tracked /\ m.runningAsync = l.runningAsync
        /\ m.runningRequest = l.runningRequest /\ m.cancellations = l.cancellations
        /\ m.manual = l.manual /\ m.manualCompletions = l.manualCompletions
        /\ m.listed = l.listed
        /\ m.excluded = l.excluded /\ m.needsTeardown = T
        /\ m.numberOfActiveHandles = l.numberOfActiveHandles
        /\ m.numberOfManualCompletions = l.numberOfManualCompletions
        /\ m.numberOfExternals = l.numberOfExternals
        /\ m.task = l.task /\ m.poolCompletions = l.poolCompletions /\ m.watched = l.watched
    BY <1>1 DEF Loop, Submits
  <1> HIDE DEF m, S
  <1>5. Moved(l, m, r)
    BY <1>1, <1>2, <1>4 DEF Moved
  <1>6. m.watched = l.watched /\ (r \notin l.watched \/ m.state[r] # "Submitting")
    BY <1>1, <1>4
  <1>7. m.state[r] \in {"Submitting", "Cancelling"}
        /\ l.state[r] \in {"Setup", "Reactivate", "Submitting"}
    BY <1>2, <1>4
  <1>8. Sound(m, held \cup {r}, Null, Null, popped)
    BY <1>3, <1>4, <1>5, <1>6, <1>7, HeldMoved
  <1>9. held \cup {r} = held
    OBVIOUS
  <1> QED BY <1>4, <1>8, <1>9 DEF AfterAttempt, m, S

\* A stopped request goes from the submissions to the cancellations.
AfterCancel(l, m, r, held, popped) ==
    /\ Sound(m, held \ {r}, Null, Null, popped) /\ m.state[r] = "Cancelling"
    /\ Keeps(l, m, {r}) /\ m.submissions = l.submissions

LEMMA Cancelled ==
  ASSUME NEW held, NEW popped, NEW l, NEW r \in Requests,
         SoundUsage, Sound(l, held, Null, Null, popped), r \in held,
         l.state[r] = "Cancelling"
  PROVE  AfterCancel(l, PushToCancellationQueue(TeardownAsync(CancelAsync(l, r), r), r), r,
                     held, popped)
  <1> DEFINE k == TeardownAsync(CancelAsync(l, r), r)
             m == PushToCancellationQueue(k, r)
  <1>1. /\ Sound(k, held, Null, Null, popped)
        /\ k.state = l.state /\ k.setting = l.setting /\ k.queue = l.queue
        /\ k.cancellations = l.cancellations /\ k.needsTeardown = l.needsTeardown
        /\ k.submissions = l.submissions
        /\ k.task[r] = "idle" /\ r \notin k.watched
    BY TornDown
  <1> HIDE DEF k
  <1>2. AfterPush(k, m, r, held, Null, Null, popped)
    BY <1>1, Pushed
  <1> HIDE DEF m
  <1>3. /\ Sound(m, held \ {r}, Null, Null, popped) /\ m.submissions = l.submissions
        /\ \A x \in Requests : m.state[x] # l.state[x] =>
             l.state[x] = "Setup" /\ m.state[x] = "Free" /\ Waits(k, x)
        /\ \A x \in Requests : l.state[x] # "Setup" =>
             (x \in m.needsTeardown <=> x \in l.needsTeardown)
        /\ m.cancellations = Append(l.cancellations, r)
        /\ \A p \in Sequences : l.queue[p] = <<>> => m.queue[p] = <<>>
    BY <1>1, <1>2 DEF AfterPush
  <1>4. \A x \in Requests : Waits(k, x) <=> Waits(l, x)
    BY <1>1 DEF Waits
  <1>5. \A x : Contains(m.cancellations, x) <=> Contains(l.cancellations, x) \/ x = r
    <2>1. l.cancellations \in Seq(Requests) /\ IsInjective(l.cancellations)
          /\ ~Contains(l.cancellations, r)
      BY DEF Sound, Base, Placed, Loop
    <2> QED BY <1>3, <2>1, Appended
  <1>6. Keeps(l, m, {r})
    BY <1>3, <1>4, <1>5 DEF Keeps
  <1>7. m.state[r] = "Cancelling"
    BY <1>3
  <1> QED BY <1>3, <1>6, <1>7 DEF AfterCancel, m, k

-----------------------------------------------------------------------------
(* Requests that get free                                                  *)

\* Who is known only to the cancellations or to the loop gets free.
Gone(l, n, r) ==
    /\ n.setting = l.setting /\ n.asserted = l.asserted
    /\ n.state = [x \in Requests |-> IF x \in {r} THEN "Free" ELSE l.state[x]]
    /\ n.manual = l.manual \ {r} /\ n.excluded = l.excluded \ {r}
    /\ n.submissions = l.submissions /\ n.numberOfSubmissions = l.numberOfSubmissions
    /\ n.queue = l.queue /\ n.tracked = l.tracked /\ n.manualCompletions = l.manualCompletions
    /\ n.listed = l.listed /\ n.numberOfActiveHandles = l.numberOfActiveHandles
    /\ n.numberOfManualCompletions = l.numberOfManualCompletions
    /\ n.numberOfExternals = l.numberOfExternals
    /\ n.task = l.task /\ n.poolCompletions = l.poolCompletions /\ n.watched = l.watched
    /\ IsInjective(n.cancellations)
    /\ \A x \in Requests : Contains(n.cancellations, x) <=> Contains(l.cancellations, x) /\ x # r
    /\ \A p \in Sequences : n.runningRequest[p] =
         IF l.runningRequest[p] = r THEN Null ELSE l.runningRequest[p]
    /\ \A p \in Sequences : p \in n.runningAsync <=>
         p \in l.runningAsync /\ l.runningRequest[p] # r

AfterGone(l, n, r, q, held, popped) ==
    Base(n, held \ {r}, Null, popped) /\ InTurn(n, Null, q)

LEMMA Released ==
  ASSUME NEW held, NEW popped, NEW l, NEW r \in Requests, NEW q, NEW n \in Loop,
         SoundUsage, Sound(l, held, Null, Null, popped), q = l.setting.sequenceOf[r],
         \/ r \in held /\ l.state[r] \in {"Setup", "Submitting"}
         \/ Contains(l.cancellations, r),
         Gone(l, n, r)
  PROVE  AfterGone(l, n, r, q, held, popped)
  <1>1. /\ l \in Loop /\ Null \notin Requests /\ Null \notin Sequences
        /\ q \in Sequences \cup {Null}
    BY SettingFacts DEF Base, Sound
  <1>2. n.state[r] = "Free" /\ \A x \in Requests : x # r => n.state[x] = l.state[x]
    BY DEF Gone
  <1>3. \A x \in Requests : Waits(n, x) <=> Waits(l, x)
    BY DEF Waits, Gone
  <1>4. /\ ~Contains(l.submissions, r) /\ ~Waits(l, r)
        /\ r \notin l.manual /\ r \notin l.listed
        /\ \/ l.state[r] \in {"Setup", "Submitting"}
           \/ l.state[r] = "Cancelling" /\ Contains(l.cancellations, r)
    BY DEF Sound, Base, Placed
  <1>4a. l.task[r] = "idle"
    BY <1>4 DEF Sound, Base, Tasked
  <1>4b. n.manual = l.manual
    BY <1>4 DEF Gone
  <1>5. Counted(n)
    <2>1. ActiveIn(n) = ActiveIn(l) /\ r \notin ActiveIn(l)
      BY <1>2, <1>4 DEF ActiveIn
    <2>2. ActiveIn(n) \cap n.excluded = ActiveIn(l) \cap l.excluded
      BY <2>1 DEF Gone
    <2>3. n.numberOfSubmissions = Len(n.submissions) /\ Counted(l)
      BY DEF Sound, Base, Counted, Gone
    <2> QED BY <1>4b, <2>1, <2>2, <2>3, CountsKept DEF Gone
  <1>6. Placed(n, held \ {r})
    <2>1. ASSUME NEW x \in Requests
          PROVE  /\ Contains(n.submissions, x) <=> x \notin held \ {r} /\
                      \/ n.state[x] \in {"Setup", "Reactivate"} /\ ~Waits(n, x)
                      \/ n.state[x] = "Cancelling" /\ ~Contains(n.cancellations, x)
                 /\ Waits(n, x) => n.state[x] = "Setup" /\ x \notin held \ {r}
                 /\ Contains(n.cancellations, x) => n.state[x] = "Cancelling" /\ x \notin held \ {r}
                 /\ n.state[x] = "Submitting" => x \in held \ {r}
                 /\ x \in held \ {r} =>
                      n.state[x] \in {"Setup", "Reactivate", "Submitting", "Cancelling"}
                 /\ Contains(n.manualCompletions, x) <=> x \in n.manual
                 /\ x \in n.manual => n.state[x] = "Active" /\ n.setting.kind[x] = "write"
                 /\ x \in n.listed <=>
                      n.state[x] = "Active" /\ x \notin n.manual /\ n.setting.sequenceOf[x] = Null
      <3>1. CASE x = r
        BY <1>2, <1>3, <1>4, <3>1 DEF Sound, Base, Placed, Gone
      <3>2. CASE x # r
        BY <1>2, <1>3, <3>2 DEF Sound, Base, Placed, Gone
      <3> QED BY <3>1, <3>2
    <2> QED BY <2>1 DEF Sound, Base, Placed, Gone
  <1>7. Tasked(n, popped)
    BY <1>2, <1>4a DEF Sound, Base, Tasked, Gone
  <1>8. Registered(n, Null)
    <2>1. r \notin l.watched
      BY <1>1, <1>4 DEF Sound, Base, Registered
    <2> QED BY <1>2, <2>1 DEF Sound, Base, Registered, Gone
  <1>9. InTurn(n, Null, q)
    <2>1. \A x \in Requests : x # r => (OnItsWay(n, x) <=> OnItsWay(l, x))
      BY <1>2, <1>3 DEF OnItsWay
    <2> USE DEF Gone
    <2>2. ASSUME NEW p \in Sequences
          PROVE  /\ p \in n.runningAsync \/ n.queue[p] # <<>> => p \in n.tracked
                 /\ p \in n.tracked => p \in n.runningAsync \/ n.queue[p] # <<>> \/ p = q
                 /\ p \in n.runningAsync <=> n.runningRequest[p] # Null
                 /\ n.runningRequest[p] # Null =>
                     /\ n.setting.sequenceOf[n.runningRequest[p]] = p
                     /\ OnItsWay(n, n.runningRequest[p])
      <3>1. l.runningRequest[p] \in Requests \cup {Null}
        BY <1>1 DEF Loop
      <3>2. /\ p \in l.runningAsync \/ l.queue[p] # <<>> => p \in l.tracked
            /\ p \in l.tracked => p \in l.runningAsync \/ l.queue[p] # <<>> \/ p = Null
            /\ p \in l.runningAsync <=> l.runningRequest[p] # Null
            /\ l.runningRequest[p] # Null =>
                 /\ l.setting.sequenceOf[l.runningRequest[p]] = p
                 /\ OnItsWay(l, l.runningRequest[p])
        BY DEF Sound, InTurn
      <3>3. CASE l.runningRequest[p] = r
        <4>1. p = q /\ n.runningRequest[p] = Null /\ p \notin n.runningAsync
          BY <1>1, <3>2, <3>3
        <4> QED BY <3>2, <4>1
      <3>4. CASE l.runningRequest[p] # r
        BY <1>1, <2>1, <3>1, <3>2, <3>4
      <3> QED BY <3>3, <3>4
    <2>3. ASSUME NEW x \in Requests, n.setting.sequenceOf[x] # Null, OnItsWay(n, x),
                 n.state[x] # "Cancelling"
          PROVE  n.runningRequest[n.setting.sequenceOf[x]] = x
                 \/ (x = Null /\ n.setting.sequenceOf[x] \notin n.runningAsync)
      <3>1. x # r /\ n.setting.sequenceOf[x] \in Sequences
        BY <1>1, <1>2, <2>3, SettingFacts DEF OnItsWay
      <3>2. l.runningRequest[l.setting.sequenceOf[x]] = x
        BY <1>1, <1>2, <2>1, <2>3, <3>1 DEF Sound, InTurn
      <3> QED BY <3>1, <3>2
    <2> QED BY <2>2, <2>3 DEF InTurn
  <1> QED BY <1>5, <1>6, <1>7, <1>8, <1>9 DEF Sound, Base, Gone, AfterGone

AfterUntrack(l, m, q, held, again, completing, popped) ==
    /\ Sound(m, held, again, completing, popped)
    /\ \E T \in SUBSET Sequences : m = [l EXCEPT !.tracked = T]

LEMMA IdleUntracked ==
  ASSUME NEW held, NEW again, NEW completing, NEW popped, NEW l, NEW q \in Sequences,
         SoundUsage, Base(l, held, completing, popped), InTurn(l, again, q)
  PROVE  AfterUntrack(l, UntrackSequenceIfIdle(l, q), q, held, again, completing, popped)
  <1>1. Sound(UntrackSequenceIfIdle(l, q), held, again, completing, popped)
    BY Untracked
  <1>2. l \in Loop
    BY DEF Base
  <1>3. \E T \in SUBSET Sequences : UntrackSequenceIfIdle(l, q) = [l EXCEPT !.tracked = T]
    <2>1. l.tracked \in SUBSET Sequences /\ l = [l EXCEPT !.tracked = l.tracked]
      BY <1>2 DEF Loop
    <2>2. l.tracked \ {q} \in SUBSET Sequences
      BY <2>1
    <2> QED BY <2>1, <2>2 DEF UntrackSequenceIfIdle
  <1> QED BY <1>1, <1>3 DEF AfterUntrack

\* After the error callback.
FreedAfterError(l, r) ==
    LET q == SequenceOf[r]
        m == IF q # Null /\ l.runningRequest[q] = r
             THEN UntrackSequenceIfIdle([l EXCEPT !.runningAsync = @ \ {q},
                                                  !.runningRequest[q] = Null], q)
             ELSE l
    IN  MarkAsFree(m, {r})

AfterError(l, m, r, held, popped) ==
    /\ Sound(m, held \ {r}, Null, Null, popped) /\ m.state[r] = "Free"
    /\ Keeps(l, m, {r}) /\ m.submissions = l.submissions

LEMMA FreedSoundly ==
  ASSUME NEW held, NEW popped, NEW l, NEW r \in Requests,
         SoundUsage, Sound(l, held, Null, Null, popped), l.setting = loop.setting, r \in held,
         l.state[r] \in {"Setup", "Submitting"}
  PROVE  AfterError(l, FreedAfterError(l, r), r, held, popped)
  <1> DEFINE q == SequenceOf[r]
             F == [x \in Requests |-> IF x \in {r} THEN "Free" ELSE l.state[x]]
             M == l.manual \ {r}
             E == l.excluded \ {r}
             N == l.needsTeardown \ {r}
             RR == [p \in Sequences |-> IF p = q THEN Null ELSE l.runningRequest[p]]
             RA == l.runningAsync \ {q}
             T == {p \in l.tracked : p = q => l.queue[p] # <<>>}
             n == [l EXCEPT !.state = F, !.manual = M, !.excluded = E, !.needsTeardown = N,
                            !.runningAsync = RA, !.runningRequest = RR]
             m == FreedAfterError(l, r)
  <1>1. /\ l \in Loop /\ q \in Sequences \cup {Null} /\ Null \notin Sequences
        /\ Null \notin Requests /\ q = l.setting.sequenceOf[r]
    BY SettingFacts DEF Sound, Base, SequenceOf
  <1>2. ~Waits(l, r) /\ ~Contains(l.cancellations, r) /\ IsInjective(l.cancellations)
    BY DEF Sound, Base, Placed
  <1>3. q # Null => l.runningRequest[q] = r
    BY <1>1, <1>2 DEF Sound, InTurn, OnItsWay
  <1>4. \A p \in Sequences : p # q => l.runningRequest[p] # r
    BY <1>1 DEF Sound, InTurn
  <1>5. n \in Loop
    <2>1. /\ F \in [Requests -> States] /\ M \in SUBSET Requests /\ E \in SUBSET Requests
          /\ N \in SUBSET Requests /\ RA \in SUBSET Sequences
          /\ RR \in [Sequences -> Requests \cup {Null}]
      BY <1>1 DEF Loop, States
    <2> HIDE DEF F, M, E, N, RA, RR
    <2> QED BY <1>1, <2>1 DEF Loop
  <1>6. /\ n.setting = l.setting /\ n.asserted = l.asserted /\ n.state = F
        /\ n.manual = M /\ n.excluded = E /\ n.needsTeardown = N
        /\ n.submissions = l.submissions /\ n.numberOfSubmissions = l.numberOfSubmissions
        /\ n.queue = l.queue /\ n.tracked = l.tracked /\ n.cancellations = l.cancellations
        /\ n.manualCompletions = l.manualCompletions
        /\ n.listed = l.listed /\ n.numberOfActiveHandles = l.numberOfActiveHandles
        /\ n.numberOfManualCompletions = l.numberOfManualCompletions
        /\ n.numberOfExternals = l.numberOfExternals
        /\ n.task = l.task /\ n.poolCompletions = l.poolCompletions /\ n.watched = l.watched
        /\ n.runningAsync = RA /\ n.runningRequest = RR
    BY <1>1 DEF Loop
  <1>7. Base(n, held \ {r}, Null, popped) /\ InTurn(n, Null, q)
    <2>1. \A x \in Requests : Contains(n.cancellations, x) <=> Contains(l.cancellations, x) /\ x # r
      BY <1>2, <1>6
    <2>2. \A p \in Sequences : n.runningRequest[p] =
             IF l.runningRequest[p] = r THEN Null ELSE l.runningRequest[p]
      BY <1>3, <1>4, <1>6, <1>1
    <2>3. \A p \in Sequences : p \in n.runningAsync <=>
             p \in l.runningAsync /\ l.runningRequest[p] # r
      BY <1>1, <1>3, <1>4, <1>6
    <2>4. Gone(l, n, r)
      <3> HIDE DEF n
      <3> QED BY <1>2, <1>6, <2>1, <2>2, <2>3 DEF Gone
    <2> HIDE DEF n, q
    <2>5. AfterGone(l, n, r, q, held, popped)
      BY <1>1, <1>5, <2>4, Released
    <2> QED BY <2>5 DEF AfterGone
  <1>8. CASE q = Null
    <2>1. m = MarkAsFree(l, {r})
      BY <1>8 DEF FreedAfterError
    <2>2. RR = l.runningRequest /\ RA = l.runningAsync
      BY <1>1, <1>8 DEF Loop
    <2>3. MarkAsFree(l, {r}) = n
      <3>1. MarkAsFree(l, {r}) = [l EXCEPT !.state = F, !.manual = M, !.excluded = E,
                                           !.needsTeardown = N]
        BY DEF MarkAsFree
      <3> DEFINE A == RA  R == RR
      <3> HIDE DEF F, M, E, N, RA, RR
      <3> QED BY <1>1, <2>2, <3>1 DEF Loop
    <2>4. Sound(m, held \ {r}, Null, Null, popped)
      BY <1>7, <1>8, <2>1, <2>3 DEF Sound
    <2>5. Keeps(l, n, {r}) /\ n.state[r] = "Free" /\ n.submissions = l.submissions
      BY <1>6 DEF Keeps
    <2> QED BY <2>1, <2>3, <2>4, <2>5 DEF AfterError
  <1>9. CASE q # Null
    <2> DEFINE k == [l EXCEPT !.runningAsync = RA, !.runningRequest = RR]
    <2>1. RR = [l.runningRequest EXCEPT ![q] = Null]
      BY <1>1, <1>9 DEF Loop
    <2>2. m = MarkAsFree(UntrackSequenceIfIdle(k, q), {r})
      <3>1. k = [l EXCEPT !.runningAsync = @ \ {q}, !.runningRequest[q] = Null]
        BY <2>1
      <3> HIDE DEF k
      <3> QED BY <1>3, <1>9, <3>1 DEF FreedAfterError
    <2>3. MarkAsFree(UntrackSequenceIfIdle(k, q), {r}) = UntrackSequenceIfIdle(n, q)
      <3>1. k.queue = l.queue /\ k.runningAsync = RA /\ k.tracked = l.tracked
            /\ k.state = l.state /\ k.manual = l.manual /\ k.excluded = l.excluded
            /\ k.needsTeardown = l.needsTeardown
        BY <1>1 DEF Loop
      <3>2. MarkAsFree(k, {r}) = [k EXCEPT !.state = F, !.manual = M, !.excluded = E,
                                           !.needsTeardown = N]
        BY <3>1 DEF MarkAsFree
      <3>3. CASE l.queue[q] = <<>>
        <4> DEFINE u == [k EXCEPT !.tracked = l.tracked \ {q}]
        <4>1. UntrackSequenceIfIdle(k, q) = u
          BY <3>1, <3>3 DEF UntrackSequenceIfIdle
        <4>2. UntrackSequenceIfIdle(n, q) = [n EXCEPT !.tracked = l.tracked \ {q}]
          BY <1>6, <3>3 DEF UntrackSequenceIfIdle
        <4>3. /\ u.state = l.state /\ u.manual = l.manual /\ u.excluded = l.excluded
              /\ u.needsTeardown = l.needsTeardown
          BY <1>1 DEF Loop
        <4>4. MarkAsFree(u, {r}) = [u EXCEPT !.state = F, !.manual = M, !.excluded = E,
                                             !.needsTeardown = N]
          BY <4>3 DEF MarkAsFree
        <4> HIDE DEF F, M, E, N, RA, RR
        <4>5. [u EXCEPT !.state = F, !.manual = M, !.excluded = E, !.needsTeardown = N]
              = [n EXCEPT !.tracked = l.tracked \ {q}]
          BY <1>1 DEF Loop
        <4> QED BY <4>1, <4>2, <4>4, <4>5
      <3>4. CASE l.queue[q] # <<>>
        <4>1. UntrackSequenceIfIdle(k, q) = k
          BY <3>1, <3>4 DEF UntrackSequenceIfIdle
        <4>2. UntrackSequenceIfIdle(n, q) = n
          BY <1>6, <3>4 DEF UntrackSequenceIfIdle
        <4> HIDE DEF F, M, E, N, RA, RR
        <4>3. [k EXCEPT !.state = F, !.manual = M, !.excluded = E, !.needsTeardown = N] = n
          BY <1>1 DEF Loop
        <4> QED BY <3>2, <4>1, <4>2, <4>3
      <3> QED BY <3>3, <3>4
    <2> HIDE DEF n, k, m, q
    <2>0. q \in Sequences
      BY <1>1, <1>9
    <2>4. /\ Sound(UntrackSequenceIfIdle(n, q), held \ {r}, Null, Null, popped)
          /\ \E X \in SUBSET Sequences : UntrackSequenceIfIdle(n, q) = [n EXCEPT !.tracked = X]
      <3> DEFINE h == held \ {r}
      <3>1. Base(n, h, Null, popped) /\ InTurn(n, Null, q)
        BY <1>7
      <3> HIDE DEF h
      <3>2. AfterUntrack(n, UntrackSequenceIfIdle(n, q), q, h, Null, Null, popped)
        BY <2>0, <3>1, IdleUntracked
      <3> QED BY <3>2 DEF h, AfterUntrack
    <2>5. m = UntrackSequenceIfIdle(n, q)
      BY <2>2, <2>3
    <2>6. /\ m.state = n.state /\ m.needsTeardown = n.needsTeardown
          /\ m.cancellations = n.cancellations /\ m.queue = n.queue
          /\ m.submissions = n.submissions
      BY <1>5, <2>4, <2>5 DEF Loop
    <2>7. Keeps(l, m, {r}) /\ m.state[r] = "Free" /\ m.submissions = l.submissions
      BY <1>6, <2>6 DEF Keeps
    <2> QED BY <2>4, <2>5, <2>7 DEF AfterError, m
  <1> QED BY <1>8, <1>9

\* After the close callback is due: the request is free and its sequence goes on.
AfterCancellation(l, m, r, popped) ==
    /\ Sound(m, {}, Null, Null, popped)
    /\ m.state = [x \in Requests |-> IF x \in {r} THEN "Free" ELSE l.state[x]]
    /\ m.cancellations = RemoveFirst(l.cancellations, r)
    /\ m.needsTeardown = l.needsTeardown \ {r}
    /\ \A p \in Sequences : l.queue[p] = <<>> => m.queue[p] = <<>>
    /\ (\A p \in Sequences : l.queue[p] = <<>>) => m.submissions = l.submissions

LEMMA CancellationCompleted ==
  ASSUME NEW popped, NEW l, NEW r \in Requests,
         SoundUsage, Sound(l, {}, Null, Null, popped), l.setting = loop.setting,
         Contains(l.cancellations, r)
  PROVE  AfterCancellation(l, CompleteCancellation(l, r), r, popped)
  <1> DEFINE q == SequenceOf[r]
             F == [x \in Requests |-> IF x \in {r} THEN "Free" ELSE l.state[x]]
             M == l.manual \ {r}
             E == l.excluded \ {r}
             N == l.needsTeardown \ {r}
             RR == [p \in Sequences |-> IF l.runningRequest[p] = r THEN Null ELSE l.runningRequest[p]]
             RA == {p \in l.runningAsync : l.runningRequest[p] # r}
             C == RemoveFirst(l.cancellations, r)
             n == [l EXCEPT !.state = F, !.manual = M, !.excluded = E, !.needsTeardown = N,
                            !.runningAsync = RA, !.runningRequest = RR, !.cancellations = C]
             m == CompleteCancellation(l, r)
  <1>1. /\ l \in Loop /\ q \in Sequences \cup {Null} /\ Null \notin Sequences
        /\ Null \notin Requests /\ q = l.setting.sequenceOf[r]
    BY SettingFacts DEF Sound, Base, SequenceOf
  <1>2. /\ l.cancellations \in Seq(Requests) /\ IsInjective(l.cancellations)
        /\ l.runningRequest \in [Sequences -> Requests \cup {Null}]
        /\ l.runningAsync \in SUBSET Sequences
    BY <1>1 DEF Sound, Base, Placed, Loop
  <1>3. /\ C \in Seq(Requests) /\ IsInjective(C)
        /\ \A x : Contains(C, x) <=> Contains(l.cancellations, x) /\ x # r
    BY <1>2, Removed
  <1>4. \A p \in Sequences : l.runningRequest[p] = r => p = q
    BY <1>1 DEF Sound, InTurn
  <1>4a. \A p \in Sequences : p \in l.runningAsync <=> l.runningRequest[p] # Null
    BY DEF Sound, InTurn
  <1>5. n \in Loop
    <2>1. /\ F \in [Requests -> States] /\ M \in SUBSET Requests /\ E \in SUBSET Requests
          /\ N \in SUBSET Requests /\ RA \in SUBSET Sequences
          /\ RR \in [Sequences -> Requests \cup {Null}]
      BY <1>1 DEF Loop, States
    <2> HIDE DEF F, M, E, N, RA, RR, C
    <2> QED BY <1>1, <1>3, <2>1 DEF Loop
  <1>6. /\ n.setting = l.setting /\ n.asserted = l.asserted /\ n.state = F
        /\ n.manual = M /\ n.excluded = E /\ n.needsTeardown = N
        /\ n.submissions = l.submissions /\ n.numberOfSubmissions = l.numberOfSubmissions
        /\ n.queue = l.queue /\ n.tracked = l.tracked /\ n.cancellations = C
        /\ n.manualCompletions = l.manualCompletions
        /\ n.listed = l.listed /\ n.numberOfActiveHandles = l.numberOfActiveHandles
        /\ n.numberOfManualCompletions = l.numberOfManualCompletions
        /\ n.numberOfExternals = l.numberOfExternals
        /\ n.task = l.task /\ n.poolCompletions = l.poolCompletions /\ n.watched = l.watched
        /\ n.runningAsync = RA /\ n.runningRequest = RR
    <2> HIDE DEF F, M, E, N, RA, RR, C
    <2> QED BY <1>1 DEF Loop
  <1>7. Base(n, {}, Null, popped) /\ InTurn(n, Null, q)
    <2>1. Gone(l, n, r)
      <3>1. \A x \in Requests : Contains(n.cancellations, x) <=> Contains(l.cancellations, x) /\ x # r
        BY <1>3, <1>6
      <3>2. \A p \in Sequences : n.runningRequest[p] =
              IF l.runningRequest[p] = r THEN Null ELSE l.runningRequest[p]
        BY <1>6
      <3>3. \A p \in Sequences : p \in n.runningAsync <=>
              p \in l.runningAsync /\ l.runningRequest[p] # r
        BY <1>6
      <3>4. IsInjective(n.cancellations)
        BY <1>3, <1>6
      <3>5. /\ n.state = [x \in Requests |-> IF x \in {r} THEN "Free" ELSE l.state[x]]
            /\ n.manual = l.manual \ {r} /\ n.excluded = l.excluded \ {r}
        BY <1>6
      <3> HIDE DEF n, C, F, M, E, N, RR, RA
      <3> QED BY <1>6, <3>1, <3>2, <3>3, <3>4, <3>5 DEF Gone
    <2> DEFINE held == {}
    <2>2. Sound(l, held, Null, Null, popped)
      OBVIOUS
    <2> HIDE DEF n, q, held
    <2>3. AfterGone(l, n, r, q, held, popped)
      BY <1>1, <1>5, <2>1, <2>2, Released
    <2>4. held \ {r} = {}
      BY DEF held
    <2> QED BY <2>3, <2>4 DEF AfterGone
  <1>8. CompleteCancellation(l, r) =
          IF q = Null THEN n
          ELSE IF q \notin ClearOnCancel THEN ResumeSequence(n, q) ELSE UntrackSequenceIfIdle(n, q)
    <2> DEFINE k == IF q # Null /\ l.runningRequest[q] = r
                    THEN [l EXCEPT !.runningAsync = @ \ {q}, !.runningRequest[q] = Null] ELSE l
               k2 == [l EXCEPT !.runningAsync = RA, !.runningRequest = RR]
    <2>1. k = k2
      <3>1. CASE q # Null /\ l.runningRequest[q] = r
        <4>1. RR = [l.runningRequest EXCEPT ![q] = Null]
          BY <1>1, <1>2, <1>4, <3>1
        <4>2. RA = l.runningAsync \ {q}
          BY <1>1, <1>2, <1>4, <3>1
        <4>3. k = [l EXCEPT !.runningAsync = l.runningAsync \ {q},
                            !.runningRequest = [l.runningRequest EXCEPT ![q] = Null]]
          BY <3>1
        <4> QED BY <4>1, <4>2, <4>3
      <3>2. CASE ~(q # Null /\ l.runningRequest[q] = r)
        <4>1. \A p \in Sequences : l.runningRequest[p] # r
          BY <1>1, <1>4, <3>2
        <4>2. RR = l.runningRequest /\ RA = l.runningAsync
          BY <1>2, <4>1
        <4>3. k = l
          BY <3>2
        <4> HIDE DEF k, RR, RA
        <4> QED BY <1>1, <4>2, <4>3 DEF Loop
      <3> QED BY <3>1, <3>2
    <2>2. k2.cancellations = l.cancellations /\ k2.state = l.state /\ k2.manual = l.manual
          /\ k2.excluded = l.excluded /\ k2.needsTeardown = l.needsTeardown
      <3> HIDE DEF RA, RR
      <3> QED BY <1>1 DEF Loop
    <2> DEFINE k3 == [k2 EXCEPT !.state = F, !.manual = M, !.excluded = E, !.needsTeardown = N]
    <2>3. MarkAsFree(k2, {r}) = k3
      <3> HIDE DEF k2
      <3> QED BY <2>2 DEF MarkAsFree
    <2>4. [k3 EXCEPT !.cancellations = C] = n
      <3> HIDE DEF F, M, E, N, RA, RR, C
      <3> QED BY <1>1 DEF Loop
    <2>5. k3.cancellations = l.cancellations
      <3> HIDE DEF F, M, E, N, RA, RR
      <3> QED BY <1>1 DEF Loop
    <2>6. [MarkAsFree(k, {r}) EXCEPT !.cancellations = RemoveFirst(@, r)] = n
      <3> HIDE DEF k, k2, k3, n
      <3> QED BY <2>1, <2>3, <2>4, <2>5
    <2> HIDE DEF n
    <2> QED BY <2>6 DEF CompleteCancellation
  <1> HIDE DEF n
  <1>9. CASE q = Null
    <2>1. m = n
      BY <1>8, <1>9
    <2>2. Sound(n, {}, Null, Null, popped)
      BY <1>7, <1>9 DEF Sound
    <2> QED BY <1>6, <2>1, <2>2 DEF AfterCancellation
  <1>10. CASE q # Null /\ q \notin ClearOnCancel
    <2>1. m = ResumeSequence(n, q) /\ q \in Sequences
      BY <1>1, <1>8, <1>10
    <2> DEFINE held == {}
    <2>2. Base(n, held, Null, popped) /\ InTurn(n, Null, q)
      BY <1>7
    <2> HIDE DEF m, q, held
    <2>3. AfterResume(n, ResumeSequence(n, q), q, held, Null, popped)
      BY <2>1, <2>2, Resumed
    <2>4. AfterResume(n, m, q, {}, Null, popped)
      BY <2>1, <2>3 DEF held
    <2>5. AfterCancellation(l, m, r, popped)
      BY <1>6, <2>1, <2>4 DEF AfterResume, AfterCancellation
    <2> QED BY <2>5 DEF m
  <1>11. CASE q # Null /\ q \in ClearOnCancel
    <2>1. m = UntrackSequenceIfIdle(n, q) /\ q \in Sequences
      BY <1>1, <1>8, <1>11
    <2> DEFINE held == {}
    <2>2. Base(n, held, Null, popped) /\ InTurn(n, Null, q)
      BY <1>7
    <2> HIDE DEF m, q, held
    <2>3. AfterUntrack(n, UntrackSequenceIfIdle(n, q), q, held, Null, Null, popped)
      BY <2>1, <2>2, IdleUntracked
    <2>4. AfterUntrack(n, m, q, {}, Null, Null, popped)
      BY <2>1, <2>3 DEF held
    <2>5. /\ m.state = n.state /\ m.needsTeardown = n.needsTeardown
          /\ m.cancellations = n.cancellations /\ m.queue = n.queue
          /\ m.submissions = n.submissions
      BY <1>5, <2>4 DEF Loop, AfterUntrack
    <2>6. AfterCancellation(l, m, r, popped)
      BY <1>6, <2>4, <2>5 DEF AfterUntrack, AfterCancellation
    <2> QED BY <2>6 DEF m
  <1> QED BY <1>9, <1>10, <1>11

-----------------------------------------------------------------------------
(* After a callback                                                        *)

AfterReturn(l, m, r, popped) ==
    /\ Sound(m, {}, Null, Null, popped) /\ Keeps(l, m, {r})
    /\ m.state[r] = l.state[r] \/ m.state[r] = "Free"

\* A reactivated request takes its sequence again.
Rejoined(l, r) ==
    LET q == SequenceOf[r]
        m == [l EXCEPT !.needsTeardown = @ \ {r}]
    IN  IF q = Null THEN m
        ELSE [m EXCEPT !.tracked = @ \cup {q}, !.runningAsync = @ \cup {q},
                       !.runningRequest[q] = r]

LEMMA Rejoins ==
  ASSUME NEW popped, NEW l, NEW r \in Requests,
         SoundUsage, Sound(l, {}, r, Null, popped), l.setting = loop.setting,
         l.state[r] \in {"Reactivate", "Cancelling", "Active"},
         SequenceOf[r] # Null => l.runningRequest[SequenceOf[r]] \in {Null, r}
  PROVE  AfterReturn(l, Rejoined(l, r), r, popped)
  <1> DEFINE q == SequenceOf[r]
             N == l.needsTeardown \ {r}
             T == IF q = Null THEN l.tracked ELSE l.tracked \cup {q}
             RA == IF q = Null THEN l.runningAsync ELSE l.runningAsync \cup {q}
             RR == [p \in Sequences |-> IF p = q THEN r ELSE l.runningRequest[p]]
             m == [l EXCEPT !.needsTeardown = N, !.tracked = T, !.runningAsync = RA,
                            !.runningRequest = RR]
  <1>1. /\ l \in Loop /\ q \in Sequences \cup {Null} /\ Null \notin Sequences
        /\ Null \notin Requests /\ q = l.setting.sequenceOf[r]
    BY SettingFacts DEF Sound, Base, SequenceOf
  <1>2. ~Waits(l, r)
    BY DEF Sound, Base, Placed
  <1>3. Rejoined(l, r) = m
    <2>1. l.runningRequest \in [Sequences -> Requests \cup {Null}]
      BY <1>1 DEF Loop
    <2>2. CASE q = Null
      <3>1. RR = l.runningRequest /\ T = l.tracked /\ RA = l.runningAsync
        BY <1>1, <2>1, <2>2
      <3>2. Rejoined(l, r) = [l EXCEPT !.needsTeardown = N]
        BY <2>2 DEF Rejoined
      <3> HIDE DEF N, RR, T, RA
      <3> QED BY <1>1, <3>1, <3>2 DEF Loop
    <2>3. CASE q # Null
      <3> DEFINE k == [l EXCEPT !.needsTeardown = N]
      <3>1. Rejoined(l, r) = [k EXCEPT !.tracked = @ \cup {q}, !.runningAsync = @ \cup {q},
                                       !.runningRequest[q] = r]
        BY <2>3 DEF Rejoined
      <3>2. k.tracked = l.tracked /\ k.runningAsync = l.runningAsync
            /\ k.runningRequest = l.runningRequest
        BY <1>1 DEF Loop
      <3>3. RR = [l.runningRequest EXCEPT ![q] = r]
        BY <1>1, <2>1, <2>3
      <3>4. T = l.tracked \cup {q} /\ RA = l.runningAsync \cup {q}
        BY <2>3
      <3>5. Rejoined(l, r) = [k EXCEPT !.tracked = T, !.runningAsync = RA, !.runningRequest = RR]
        <4> HIDE DEF k, RR, T, RA
        <4> QED BY <3>1, <3>2, <3>3, <3>4
      <3> HIDE DEF N, T, RA, RR
      <3> QED BY <1>1, <3>5 DEF Loop
    <2> QED BY <2>2, <2>3
  <1>4. m \in Loop
    <2>1. /\ N \in SUBSET Requests /\ T \in SUBSET Sequences /\ RA \in SUBSET Sequences
          /\ RR \in [Sequences -> Requests \cup {Null}]
      BY <1>1 DEF Loop
    <2> HIDE DEF N, T, RA, RR
    <2> QED BY <1>1, <2>1 DEF Loop
  <1>5. /\ m.setting = l.setting /\ m.asserted = l.asserted /\ m.state = l.state
        /\ m.submissions = l.submissions /\ m.numberOfSubmissions = l.numberOfSubmissions
        /\ m.queue = l.queue /\ m.cancellations = l.cancellations
        /\ m.manual = l.manual /\ m.manualCompletions = l.manualCompletions
        /\ m.listed = l.listed /\ m.excluded = l.excluded
        /\ m.numberOfActiveHandles = l.numberOfActiveHandles
        /\ m.numberOfManualCompletions = l.numberOfManualCompletions
        /\ m.numberOfExternals = l.numberOfExternals
        /\ m.task = l.task /\ m.poolCompletions = l.poolCompletions /\ m.watched = l.watched
        /\ m.needsTeardown = N /\ m.tracked = T /\ m.runningAsync = RA /\ m.runningRequest = RR
    <2> HIDE DEF N, T, RA, RR
    <2> QED BY <1>1 DEF Loop
  <1>6. \A p \in Sequences :
          /\ p \in m.tracked <=> p \in l.tracked \/ p = q
          /\ p \in m.runningAsync <=> p \in l.runningAsync \/ p = q
          /\ m.runningRequest[p] = IF p = q THEN r ELSE l.runningRequest[p]
    BY <1>1, <1>5
  <1>7. /\ \A x \in Requests : x \in m.needsTeardown <=> x \in l.needsTeardown /\ x # r
    BY <1>1, <1>5 DEF Loop
  <1> HIDE DEF m, N, T, RA, RR, q
  <1>8. \A x \in Requests : Waits(m, x) <=> Waits(l, x)
    BY <1>5 DEF Waits
  <1>9. \A x \in Requests : OnItsWay(m, x) <=> OnItsWay(l, x)
    BY <1>5, <1>8 DEF OnItsWay
  <1>10. Base(m, {}, Null, popped)
    <2>1. Counted(m)
      BY <1>5 DEF Sound, Base, Counted, ActiveIn
    <2>2. Placed(m, {})
      BY <1>5, <1>8 DEF Sound, Base, Placed
    <2>3. Tasked(m, popped) /\ Registered(m, Null)
      BY <1>5 DEF Sound, Base, Tasked, Registered
    <2> QED BY <1>4, <1>5, <2>1, <2>2, <2>3 DEF Sound, Base
  <1>11. InTurn(m, Null, Null)
    <2>1. ASSUME NEW p \in Sequences
          PROVE  /\ p \in m.runningAsync \/ m.queue[p] # <<>> => p \in m.tracked
                 /\ p \in m.tracked => p \in m.runningAsync \/ m.queue[p] # <<>> \/ p = Null
                 /\ p \in m.runningAsync <=> m.runningRequest[p] # Null
                 /\ m.runningRequest[p] # Null =>
                     /\ m.setting.sequenceOf[m.runningRequest[p]] = p
                     /\ OnItsWay(m, m.runningRequest[p])
      <3>1. CASE p = q
        BY <1>1, <1>2, <1>5, <1>6, <1>9, <3>1 DEF Sound, InTurn, OnItsWay
      <3>2. CASE p # q
        <4>1. l.runningRequest[p] \in Requests \cup {Null}
          BY <1>1 DEF Loop
        <4> QED BY <1>1, <1>5, <1>6, <1>9, <3>2, <4>1 DEF Sound, InTurn
      <3> QED BY <3>1, <3>2
    <2>2. ASSUME NEW x \in Requests, m.setting.sequenceOf[x] # Null, OnItsWay(m, x),
                 m.state[x] # "Cancelling"
          PROVE  m.runningRequest[m.setting.sequenceOf[x]] = x
                 \/ (x = Null /\ m.setting.sequenceOf[x] \notin m.runningAsync)
      <3>1. m.setting.sequenceOf[x] \in Sequences
        BY <1>4, <2>2, SettingFacts
      <3>2. l.runningRequest[l.setting.sequenceOf[x]] = x
              \/ (x = r /\ l.setting.sequenceOf[x] \notin l.runningAsync)
        BY <1>5, <1>9, <2>2 DEF Sound, InTurn
      <3>3. CASE l.setting.sequenceOf[x] = q
        <4>1. x = r
          BY <1>1, <2>2, <1>5, <3>2, <3>3 DEF q
        <4> QED BY <1>5, <1>6, <3>1, <3>3, <4>1
      <3>4. CASE l.setting.sequenceOf[x] # q
        BY <1>1, <1>5, <1>6, <3>1, <3>2, <3>4
      <3> QED BY <3>3, <3>4
    <2> QED BY <2>1, <2>2 DEF InTurn
  <1>12. Keeps(l, m, {r})
    BY <1>5, <1>7 DEF Keeps
  <1> QED BY <1>3, <1>5, <1>10, <1>11, <1>12 DEF Sound, AfterReturn

\* A request that is done leaves epoll, and its sequence goes on.
LEMMA LeavesEpoll ==
  ASSUME NEW popped, NEW l, NEW r \in Requests,
         SoundUsage, Sound(l, {}, Null, r, popped),
         l.state[r] \in {"Free", "Setup", "Cancelling"}
  PROVE  /\ Sound(TeardownAsync(l, r), {}, Null, Null, popped) /\ Alike(l, TeardownAsync(l, r))
         /\ TeardownAsync(l, r).needsTeardown = l.needsTeardown
  <1> DEFINE W == l.watched \ {r}
             m == [l EXCEPT !.watched = W]
  <1>1. l \in Loop /\ Null \notin Requests
    BY SettingFacts DEF Sound, Base
  <1>2. TeardownAsync(l, r) = m
    BY DEF TeardownAsync
  <1>3. m \in Loop
    <2>1. W \in SUBSET Requests
      BY <1>1 DEF Loop
    <2> HIDE DEF W
    <2> QED BY <1>1, <2>1 DEF Loop
  <1>4. Alike(l, m) /\ m.watched = W /\ m.needsTeardown = l.needsTeardown
    <2> HIDE DEF W
    <2> QED BY <1>1 DEF Loop, Alike
  <1> HIDE DEF m
  <1>5. Registered(m, Null)
    BY <1>1, <1>4 DEF Sound, Base, Registered, Alike
  <1>6. Sound(m, {}, Null, Null, popped)
    BY <1>3, <1>4, <1>5, AlikeSound
  <1> QED BY <1>2, <1>4, <1>6

LEMMA CompletionEnds ==
  ASSUME SoundUsage, IInv, cb.kind = "complete"
  PROVE  AfterReturn(loop, EndComplete(loop), cb.req, Popped)
  <1> DEFINE r == cb.req
             q == SequenceOf[r]
             n == TeardownAsync(loop, r)
  <1>1. /\ loop \in Loop /\ r \in Requests /\ Held = {}
        /\ Null \notin Requests /\ Null \notin Sequences /\ q \in Sequences \cup {Null}
    <2>1. loop \in Loop /\ r \in Requests
      BY DEF IInv, TypeOK, CallbackInv
    <2> QED BY <2>1, SettingFacts DEF Held, SequenceOf
  <1>2. CASE cb.again
    <2>1. Sound(loop, {}, r, Null, Popped)
      BY <1>1, <1>2 DEF IInv, Again, Completing
    <2>2. loop.state[r] \in {"Reactivate", "Cancelling", "Active"}
          /\ (q # Null => loop.runningRequest[q] \in {Null, r})
      BY <1>2 DEF IInv, CallbackInv
    <2>3. AfterReturn(loop, Rejoined(loop, r), r, Popped)
      BY <1>1, <2>1, <2>2, Rejoins
    <2>4. EndComplete(loop) = Rejoined(loop, r)
      BY <1>2 DEF EndComplete, Rejoined
    <2> QED BY <2>3, <2>4
  <1>3. CASE ~cb.again
    <2>1. Sound(loop, {}, Null, r, Popped)
      BY <1>1, <1>3 DEF IInv, Again, Completing
    <2>2. loop.state[r] \in {"Free", "Setup", "Cancelling"}
      BY <1>3 DEF IInv, CallbackInv
    <2>3. Sound(n, {}, Null, Null, Popped) /\ Alike(loop, n) /\ n.needsTeardown = loop.needsTeardown
      BY <1>1, <2>1, <2>2, LeavesEpoll
    <2> HIDE DEF n
    <2>3a. Base(n, {}, Null, Popped) /\ InTurn(n, Null, Null)
      BY <2>3 DEF Sound
    <2>3b. \A x \in Requests : Waits(n, x) <=> Waits(loop, x)
      BY <2>3 DEF Waits, Alike
    <2>4. CASE q = Null
      <3>1. EndComplete(loop) = n
        BY <1>3, <2>4 DEF EndComplete, n
      <3>2. AfterReturn(loop, n, r, Popped)
        BY <2>3 DEF AfterReturn, Keeps, Alike
      <3> QED BY <3>1, <3>2
    <2>5. CASE q # Null /\ ~(~cb.ok /\ q \in ClearOnError)
      <3> DEFINE m == ResumeSequence(n, q)  held == {}
      <3>1. EndComplete(loop) = m
        BY <1>3, <2>5 DEF EndComplete, n
      <3>2. q \in Sequences /\ InTurn(n, Null, q) /\ Base(n, held, Null, Popped)
        BY <1>1, <2>3a, <2>5, AnyIdle
      <3> HIDE DEF q, held
      <3>3. AfterResume(n, ResumeSequence(n, q), q, held, Null, Popped)
        BY <3>2, Resumed
      <3> HIDE DEF m
      <3>4. AfterResume(n, m, q, {}, Null, Popped)
        BY <3>3 DEF m, held
      <3>5. AfterReturn(loop, m, r, Popped)
        BY <2>3, <3>4 DEF AfterReturn, AfterResume, Keeps, Alike
      <3> QED BY <3>1, <3>5
    <2>6. CASE q # Null /\ ~cb.ok /\ q \in ClearOnError
      <3> DEFINE m == ClearSequence(n, q)  held == {}
      <3>1. EndComplete(loop) = m
        BY <1>3, <2>6 DEF EndComplete, n
      <3>2. q \in Sequences /\ InTurn(n, Null, q) /\ Base(n, held, Null, Popped)
        BY <1>1, <2>3a, <2>6, AnyIdle
      <3>3. m = ClearSequence(n, q)
        OBVIOUS
      <3> HIDE DEF q, held, m
      <3>4. /\ Sound(m, held, Null, Null, Popped)
            /\ \A x \in Requests : n.state[x] # "Setup" =>
                 m.state[x] = n.state[x] /\ (x \in m.needsTeardown <=> x \in n.needsTeardown)
            /\ \A x \in Requests : m.state[x] # n.state[x] =>
                 n.state[x] = "Setup" /\ m.state[x] = "Free" /\ Waits(n, x)
            /\ m.cancellations = n.cancellations /\ m.queue[q] = <<>>
            /\ \A p \in Sequences : p # q => m.queue[p] = n.queue[p]
        BY <3>2, <3>3, Cleared
      <3>5. Keeps(loop, m, {r})
        <4>1. \A p \in Sequences : loop.queue[p] = <<>> => m.queue[p] = <<>>
          BY <2>3, <3>4 DEF Alike
        <4> QED BY <2>3, <2>3b, <3>4, <4>1 DEF Keeps, Alike
      <3>6. m.state[r] = loop.state[r] \/ m.state[r] = "Free"
        BY <1>1, <2>3, <3>4 DEF Alike
      <3>7. Sound(m, {}, Null, Null, Popped)
        BY <3>4 DEF held
      <3> QED BY <3>1, <3>5, <3>6, <3>7 DEF AfterReturn
    <2> QED BY <2>4, <2>5, <2>6
  <1> QED BY <1>2, <1>3

LEMMA ErrorEnds ==
  ASSUME SoundUsage, IInv, cb.kind = "error"
  PROVE  AfterReturn(loop, EndError(loop), cb.req, Popped)
  <1> DEFINE r == cb.req
  <1>1. /\ loop \in Loop /\ r \in Requests /\ Held = {r}
        /\ loop.state[r] \in {"Setup", "Submitting"} /\ ~cb.again
    BY DEF IInv, TypeOK, CallbackInv, Held
  <1> DEFINE held == {r}
  <1>2. Sound(loop, held, Null, Null, Popped)
    BY <1>1 DEF IInv, Again, Completing
  <1>3. EndError(loop) = FreedAfterError(loop, r)
    BY <1>1 DEF EndError, FreedAfterError
  <1>4. r \in held
    OBVIOUS
  <1> HIDE DEF held, r
  <1>5. AfterError(loop, FreedAfterError(loop, r), r, held, Popped)
    BY <1>1, <1>2, <1>4, FreedSoundly
  <1>6. held \ {r} = {}
    BY DEF held
  <1> QED BY <1>3, <1>5, <1>6 DEF AfterError, AfterReturn, r

-----------------------------------------------------------------------------
(* What a callback does to its own request                                 *)

\* A loop `m` where `r` has another state and entered or left the submissions.
Requeued(l, m, r) ==
    /\ m.setting = l.setting /\ m.asserted = l.asserted
    /\ \A x \in Requests : x # r => m.state[x] = l.state[x]
    /\ m.queue = l.queue /\ m.tracked = l.tracked /\ m.runningAsync = l.runningAsync
    /\ m.runningRequest = l.runningRequest /\ m.cancellations = l.cancellations
    /\ m.manual = l.manual /\ m.manualCompletions = l.manualCompletions
    /\ m.listed = l.listed /\ m.excluded = l.excluded /\ m.needsTeardown = l.needsTeardown
    /\ m.numberOfActiveHandles = l.numberOfActiveHandles
    /\ m.numberOfManualCompletions = l.numberOfManualCompletions
    /\ m.numberOfExternals = l.numberOfExternals
    /\ m.task = l.task /\ m.poolCompletions = l.poolCompletions /\ m.watched = l.watched
    /\ m.numberOfSubmissions = Len(m.submissions)
    /\ IsInjective(m.submissions)

AfterRequeue(l, m, r, again, completing, popped) ==
    Sound(m, {}, again, completing, popped) /\ Requeued(l, m, r)

\* `r` is free in one of the loops and reactivated in the other.
LEMMA FreeOrReactivated ==
  ASSUME NEW again, NEW completing, NEW popped, NEW l, NEW r \in Requests, NEW m \in Loop,
         NEW was, NEW done,
         SoundUsage, Sound(l, {}, was, done, popped), Requeued(l, m, r),
         was \in {r, Null}, done \in {r, Null},
         \/ /\ l.state[r] = "Free" /\ m.state[r] = "Reactivate" /\ again = r /\ completing = Null
            /\ \A x \in Requests : Contains(m.submissions, x) <=> Contains(l.submissions, x) \/ x = r
            /\ l.setting.kind[r] \in {"socket", "readiness"} => r \in l.watched
         \/ /\ l.state[r] = "Reactivate" /\ m.state[r] = "Free" /\ again = Null
            /\ \A x \in Requests : Contains(m.submissions, x) <=> Contains(l.submissions, x) /\ x # r
            /\ completing = r \/ (completing = Null /\ l.setting.kind[r] \notin {"socket", "readiness"})
            /\ done = Null,
         l.setting.sequenceOf[r] # Null =>
            l.runningRequest[l.setting.sequenceOf[r]] = Null
  PROVE  AfterRequeue(l, m, r, again, completing, popped)
  <1>1. /\ l \in Loop /\ Null \notin Requests /\ Null \notin Sequences
        /\ \A x \in Requests : l.setting.sequenceOf[x] \in Sequences \cup {Null}
    BY SettingFacts DEF Base, Sound
  <1>2. \A x \in Requests : Waits(m, x) <=> Waits(l, x)
    BY DEF Requeued, Waits
  <1>3. /\ ~Waits(l, r) /\ ~Contains(l.cancellations, r) /\ r \notin l.manual /\ r \notin l.listed
        /\ ~Contains(l.manualCompletions, r)
    BY DEF Sound, Base, Placed
  <1>3a. l.task[r] = "idle"
    BY DEF Sound, Base, Tasked
  <1>3b. l.state[r] \in {"Free", "Reactivate"} /\ m.state[r] \in {"Free", "Reactivate"}
    OBVIOUS
  <1>4. \A x \in Requests : x # r => (OnItsWay(m, x) <=> OnItsWay(l, x))
    BY <1>2 DEF Requeued, OnItsWay
  <1>5. Counted(m)
    <2>1. ActiveIn(m) = ActiveIn(l)
      BY <1>3b DEF Requeued, ActiveIn
    <2> QED BY <2>1, CountsKept DEF Requeued, Sound, Base
  <1>6. Placed(m, {})
    <2>1. ASSUME NEW x \in Requests
          PROVE  /\ Contains(m.submissions, x) <=>
                      \/ m.state[x] \in {"Setup", "Reactivate"} /\ ~Waits(m, x)
                      \/ m.state[x] = "Cancelling" /\ ~Contains(m.cancellations, x)
                 /\ Waits(m, x) => m.state[x] = "Setup"
                 /\ Contains(m.cancellations, x) => m.state[x] = "Cancelling"
                 /\ m.state[x] # "Submitting"
                 /\ Contains(m.manualCompletions, x) <=> x \in m.manual
                 /\ x \in m.manual => m.state[x] = "Active" /\ m.setting.kind[x] = "write"
                 /\ x \in m.listed <=>
                      m.state[x] = "Active" /\ x \notin m.manual /\ m.setting.sequenceOf[x] = Null
      <3>1. CASE x = r
        BY <1>2, <1>3, <1>3b, <3>1 DEF Requeued, Sound, Base, Placed
      <3>2. CASE x # r
        BY <1>2, <3>2 DEF Requeued, Sound, Base, Placed
      <3> QED BY <3>1, <3>2
    <2> QED BY <2>1 DEF Requeued, Sound, Base, Placed
  <1>7. Tasked(m, popped)
    <2>1. ASSUME NEW x \in Requests
          PROVE  /\ Contains(m.poolCompletions, x) => m.task[x] \in {"pushed", "done"}
                 /\ m.task[x] \in {"pushed", "done"} =>
                      Contains(m.poolCompletions, x) \/ (m.state[x] = "Cancelling" /\ popped)
                 /\ m.task[x] # "idle" =>
                      /\ m.setting.kind[x] = "work"
                      /\ \/ m.state[x] = "Active"
                         \/ m.state[x] = "Cancelling" /\ ~Contains(m.cancellations, x)
      <3>1. CASE x = r
        BY <1>3a, <3>1 DEF Requeued, Sound, Base, Tasked
      <3>2. CASE x # r
        BY <3>2 DEF Requeued, Sound, Base, Tasked
      <3> QED BY <3>1, <3>2
    <2> QED BY <2>1 DEF Requeued, Sound, Base, Tasked
  <1>8. Registered(m, completing)
    <2>1. ASSUME NEW x \in Requests
          PROVE /\ x \in m.watched =>
                  /\ m.setting.kind[x] \in {"socket", "readiness"}
                  /\ \/ m.state[x] \in {"Active", "Reactivate"} \/ x = completing
                     \/ m.state[x] = "Cancelling" /\ ~Contains(m.cancellations, x)
                /\ m.state[x] \in {"Active", "Reactivate"} /\ m.setting.kind[x] \in {"socket", "readiness"} =>
                  x \in m.watched
      <3>1. CASE x = r
        BY <1>1, <1>3, <3>1 DEF Requeued, Sound, Base, Registered
      <3>2. CASE x # r
        BY <1>1, <3>2 DEF Requeued, Sound, Base, Registered
      <3> QED BY <3>1, <3>2
    <2> QED BY <2>1 DEF Registered
  <1>9. InTurn(m, again, Null)
    <2>1. ASSUME NEW p \in Sequences
          PROVE  /\ p \in m.runningAsync \/ m.queue[p] # <<>> => p \in m.tracked
                 /\ p \in m.tracked => p \in m.runningAsync \/ m.queue[p] # <<>> \/ p = Null
                 /\ p \in m.runningAsync <=> m.runningRequest[p] # Null
                 /\ m.runningRequest[p] # Null =>
                     /\ m.setting.sequenceOf[m.runningRequest[p]] = p
                     /\ OnItsWay(m, m.runningRequest[p])
      <3>1. l.runningRequest[p] \in Requests \cup {Null}
        BY <1>1 DEF Loop
      <3>2. l.runningRequest[p] # r
        BY <1>1 DEF Sound, InTurn
      <3> QED BY <1>1, <1>4, <3>1, <3>2 DEF Requeued, Sound, InTurn
    <2>2. ASSUME NEW x \in Requests, m.setting.sequenceOf[x] # Null, OnItsWay(m, x),
                 m.state[x] # "Cancelling"
          PROVE  m.runningRequest[m.setting.sequenceOf[x]] = x
                 \/ (x = again /\ m.setting.sequenceOf[x] \notin m.runningAsync)
      <3>1. l.setting.sequenceOf[x] \in Sequences /\ m.setting.sequenceOf[x] = l.setting.sequenceOf[x]
        BY <1>1, <2>2 DEF Requeued
      <3>2. CASE x = r
        <4>1. again = r
          BY <2>2, <3>2 DEF OnItsWay
        <4>2. l.setting.sequenceOf[r] \notin l.runningAsync
          BY <1>1, <3>1, <3>2 DEF Sound, InTurn
        <4> QED BY <3>1, <3>2, <4>1, <4>2 DEF Requeued
      <3>3. CASE x # r
        <4>1. OnItsWay(l, x) /\ l.state[x] # "Cancelling"
          BY <1>4, <2>2, <3>3 DEF Requeued
        <4>2. l.runningRequest[l.setting.sequenceOf[x]] = x
          BY <1>1, <3>1, <3>3, <4>1 DEF Sound, InTurn
        <4> QED BY <3>1, <4>2 DEF Requeued
      <3> QED BY <3>2, <3>3
    <2> QED BY <2>1, <2>2 DEF InTurn
  <1> QED BY <1>5, <1>6, <1>7, <1>8, <1>9 DEF Requeued, Sound, Base, AfterRequeue

\* reactivateRequest(true) of a request that is not a readiness request.
Revived(l, r) ==
    [l EXCEPT !.state[r] = "Reactivate", !.submissions = Append(@, r),
              !.numberOfSubmissions = @ + 1]

LEMMA Revives ==
  ASSUME NEW done, NEW popped, NEW l, NEW r \in Requests,
         SoundUsage, Sound(l, {}, Null, done, popped), done \in {r, Null}, l.state[r] = "Free",
         l.setting.kind[r] \in {"socket", "readiness"} => r \in l.watched,
         l.setting.sequenceOf[r] \notin l.runningAsync
  PROVE  /\ AfterRequeue(l, Revived(l, r), r, r, Null, popped)
         /\ Revived(l, r).state[r] = "Reactivate"
  <1> DEFINE F == [l.state EXCEPT ![r] = "Reactivate"]
             S == Append(l.submissions, r)
             N == l.numberOfSubmissions + 1
             m == [l EXCEPT !.state = F, !.submissions = S, !.numberOfSubmissions = N]
  <1>1. l \in Loop /\ l.setting.sequenceOf[r] \in Sequences \cup {Null} /\ Null \notin Requests
    BY SettingFacts DEF Sound, Base
  <1>2. /\ S \in Seq(Requests) /\ IsInjective(S) /\ Len(S) = N
        /\ \A x : Contains(S, x) <=> Contains(l.submissions, x) \/ x = r
    <2>1. /\ l.submissions \in Seq(Requests) /\ IsInjective(l.submissions)
          /\ ~Contains(l.submissions, r) /\ l.numberOfSubmissions = Len(l.submissions)
      BY <1>1 DEF Sound, Base, Placed, Counted, Loop
    <2> QED BY <2>1, Appended
  <1>3. N \in Nat /\ F \in [Requests -> States] /\ F[r] = "Reactivate"
        /\ \A x \in Requests : x # r => F[x] = l.state[x]
    BY <1>1 DEF Loop, States
  <1>4. Revived(l, r) = m
    BY DEF Revived
  <1> HIDE DEF F, S, N
  <1>5. m \in Loop
    BY <1>1, <1>2, <1>3 DEF Loop
  <1>6. Requeued(l, m, r) /\ m.state[r] = "Reactivate" /\ m.submissions = S
    BY <1>1, <1>2, <1>3 DEF Loop, Requeued
  <1>7. l.setting.sequenceOf[r] # Null => l.runningRequest[l.setting.sequenceOf[r]] = Null
    BY <1>1 DEF Sound, InTurn
  <1> HIDE DEF m
  <1> DEFINE was == Null  completing == Null  again == r
  <1>8. was \in {r, Null} /\ Sound(l, {}, was, done, popped) /\ again = r /\ completing = Null
    OBVIOUS
  <1>9. \A x \in Requests : Contains(m.submissions, x) <=> Contains(l.submissions, x) \/ x = r
    BY <1>2, <1>6
  <1> HIDE DEF was, completing, again
  <1>10. AfterRequeue(l, m, r, again, completing, popped)
    BY <1>5, <1>6, <1>7, <1>8, <1>9, FreeOrReactivated
  <1> QED BY <1>4, <1>6, <1>10 DEF again, completing

\* reactivateRequest(false) after reactivateRequest(true).
Withdrawn(l, r) ==
    [l EXCEPT !.state[r] = "Free", !.submissions = RemoveFirst(@, r),
              !.numberOfSubmissions = @ - 1]

LEMMA Withdraws ==
  ASSUME NEW completing, NEW popped, NEW l, NEW r \in Requests,
         SoundUsage, Sound(l, {}, r, Null, popped), l.state[r] = "Reactivate",
         \/ completing = r
         \/ completing = Null /\ l.setting.kind[r] \notin {"socket", "readiness"},
         l.setting.sequenceOf[r] # Null =>
            l.runningRequest[l.setting.sequenceOf[r]] = Null
  PROVE  /\ AfterRequeue(l, Withdrawn(l, r), r, Null, completing, popped)
         /\ Withdrawn(l, r).state[r] = "Free"
  <1> DEFINE F == [l.state EXCEPT ![r] = "Free"]
             S == RemoveFirst(l.submissions, r)
             N == l.numberOfSubmissions - 1
             m == [l EXCEPT !.state = F, !.submissions = S, !.numberOfSubmissions = N]
  <1>1. l \in Loop /\ Null \notin Requests
    BY SettingFacts DEF Sound, Base
  <1>2. /\ S \in Seq(Requests) /\ IsInjective(S) /\ Len(S) = N
        /\ \A x : Contains(S, x) <=> Contains(l.submissions, x) /\ x # r
    <2>1. ~Waits(l, r)
      BY DEF Sound, Base, Placed
    <2>2. /\ l.submissions \in Seq(Requests) /\ IsInjective(l.submissions)
          /\ Contains(l.submissions, r) /\ l.numberOfSubmissions = Len(l.submissions)
      BY <1>1, <2>1 DEF Sound, Base, Placed, Counted, Loop
    <2> QED BY <2>2, Removed
  <1>3. N \in Nat /\ F \in [Requests -> States] /\ F[r] = "Free"
        /\ \A x \in Requests : x # r => F[x] = l.state[x]
    <2>1. Len(S) \in Nat
      BY <1>2, LenProperties
    <2> QED BY <1>1, <1>2, <2>1 DEF Loop, States
  <1>4. Withdrawn(l, r) = m
    BY DEF Withdrawn
  <1> HIDE DEF F, S, N
  <1>5. m \in Loop
    BY <1>1, <1>2, <1>3 DEF Loop
  <1>6. Requeued(l, m, r) /\ m.state[r] = "Free" /\ m.submissions = S
    BY <1>1, <1>2, <1>3 DEF Loop, Requeued
  <1> HIDE DEF m
  <1> DEFINE was == r  done == Null  again == Null
  <1>8. was \in {r, Null} /\ done \in {r, Null} /\ Sound(l, {}, was, done, popped)
        /\ again = Null /\ done = Null
    OBVIOUS
  <1>9. \A x \in Requests : Contains(m.submissions, x) <=> Contains(l.submissions, x) /\ x # r
    BY <1>2, <1>6
  <1> HIDE DEF was, done, again
  <1>10. AfterRequeue(l, m, r, again, completing, popped)
    BY <1>5, <1>6, <1>8, <1>9, FreeOrReactivated
  <1> QED BY <1>4, <1>6, <1>10 DEF again

-----------------------------------------------------------------------------
(* Steps that change few fields                                            *)

\* excludeFromActiveCount and includeInActiveCount.
Excluding(l, X, n) == [l EXCEPT !.excluded = X, !.numberOfExternals = n]

LEMMA ExclusionCounted ==
  ASSUME NEW held, NEW again, NEW completing, NEW popped, NEW l,
         NEW X \in SUBSET Requests, NEW n \in Int,
         Sound(l, held, again, completing, popped),
         -n = Cardinality((ActiveIn(l) \ l.manual) \cap X)
  PROVE  /\ Sound(Excluding(l, X, n), held, again, completing, popped)
         /\ Excluding(l, X, n).state = l.state
         /\ Excluding(l, X, n).needsTeardown = l.needsTeardown
         /\ Excluding(l, X, n).cancellations = l.cancellations
         /\ Excluding(l, X, n).submissions = l.submissions
         /\ Excluding(l, X, n).queue = l.queue
         /\ Excluding(l, X, n).watched = l.watched
         /\ Excluding(l, X, n).runningRequest = l.runningRequest
         /\ Excluding(l, X, n).runningAsync = l.runningAsync
         /\ Excluding(l, X, n).manual = l.manual
  <1> DEFINE m == Excluding(l, X, n)
  <1>1. l \in Loop
    BY DEF Sound, Base
  <1>2. m \in Loop
    BY <1>1 DEF Loop, Excluding
  <1>3. /\ m.setting = l.setting /\ m.asserted = l.asserted /\ m.state = l.state
        /\ m.submissions = l.submissions /\ m.numberOfSubmissions = l.numberOfSubmissions
        /\ m.queue = l.queue /\ m.tracked = l.tracked /\ m.runningAsync = l.runningAsync
        /\ m.runningRequest = l.runningRequest /\ m.cancellations = l.cancellations
        /\ m.manual = l.manual /\ m.manualCompletions = l.manualCompletions
        /\ m.listed = l.listed /\ m.needsTeardown = l.needsTeardown
        /\ m.numberOfActiveHandles = l.numberOfActiveHandles
        /\ m.numberOfManualCompletions = l.numberOfManualCompletions
        /\ m.task = l.task /\ m.poolCompletions = l.poolCompletions /\ m.watched = l.watched
        /\ m.excluded = X /\ m.numberOfExternals = n
    BY <1>1 DEF Loop, Excluding
  <1> HIDE DEF m
  <1>4. \A x : (Waits(m, x) <=> Waits(l, x)) /\ (OnItsWay(m, x) <=> OnItsWay(l, x))
    BY <1>3 DEF Waits, OnItsWay
  <1>5. Counted(m)
    BY <1>3 DEF Sound, Base, Counted, ActiveIn
  <1>6. Placed(m, held)
    BY <1>3, <1>4 DEF Sound, Base, Placed
  <1>7. Tasked(m, popped) /\ Registered(m, completing)
    BY <1>3 DEF Sound, Base, Tasked, Registered
  <1>8. InTurn(m, again, Null)
    BY <1>3, <1>4 DEF Sound, InTurn
  <1>9. Sound(m, held, again, completing, popped)
    BY <1>2, <1>3, <1>5, <1>6, <1>7, <1>8 DEF Sound, Base
  <1> QED BY <1>3, <1>9 DEF m

\* The count of those excluded follows the set.
LEMMA ExcludedCount ==
  ASSUME NEW l \in Loop, NEW r \in Requests, Counted(l)
  PROVE  /\ r \notin l.excluded =>
              -(IF l.state[r] = "Active" /\ r \notin l.manual THEN l.numberOfExternals - 1
                ELSE l.numberOfExternals)
              = Cardinality((ActiveIn(l) \ l.manual) \cap (l.excluded \cup {r}))
         /\ r \in l.excluded =>
              -(IF l.state[r] = "Active" /\ r \notin l.manual THEN l.numberOfExternals + 1
                ELSE l.numberOfExternals)
              = Cardinality((ActiveIn(l) \ l.manual) \cap (l.excluded \ {r}))
  <1> DEFINE A == ActiveIn(l) \ l.manual
             X == A \cap l.excluded
             n == l.numberOfExternals
             c == l.state[r] = "Active" /\ r \notin l.manual
  <1>1. n \in Int /\ -n = Cardinality(X) /\ IsFiniteSet(X) /\ (c <=> r \in A)
    BY ActiveFinite DEF Loop, Counted, ActiveIn
  <1>2. ASSUME r \notin l.excluded
        PROVE  -(IF c THEN n - 1 ELSE n) = Cardinality(A \cap (l.excluded \cup {r}))
    <2>1. CASE c
      <3>1. A \cap (l.excluded \cup {r}) = X \cup {r} /\ r \notin X
        BY <1>1, <1>2, <2>1
      <3> HIDE DEF X, n
      <3>2. -(n - 1) = Cardinality(X \cup {r})
        BY <1>1, <3>1, OneMore
      <3> HIDE DEF A
      <3> QED BY <2>1, <3>1, <3>2
    <2>2. CASE ~c
      <3>1. A \cap (l.excluded \cup {r}) = X
        BY <1>1, <2>2
      <3> QED BY <1>1, <2>2, <3>1
    <2> QED BY <2>1, <2>2
  <1>3. ASSUME r \in l.excluded
        PROVE  -(IF c THEN n + 1 ELSE n) = Cardinality(A \cap (l.excluded \ {r}))
    <2> DEFINE Y == A \cap (l.excluded \ {r})
    <2>1. CASE c
      <3>1. X = Y \cup {r} /\ r \notin Y
        BY <1>1, <1>3, <2>1
      <3>2. IsFiniteSet(Y) /\ Cardinality(X) = Cardinality(Y) + 1 /\ Cardinality(Y) \in Nat
        <4>1. IsFiniteSet(Y)
          BY <1>1, <3>1, FS_Subset
        <4> HIDE DEF X, Y
        <4> QED BY <3>1, <4>1, FS_AddElement, FS_CardinalityType
      <3> HIDE DEF X, Y, n
      <3>3. -(n + 1) = Cardinality(Y)
        BY <1>1, <3>2
      <3> QED BY <2>1, <3>3 DEF Y
    <2>2. CASE ~c
      <3>1. Y = X
        BY <1>1, <2>2
      <3> QED BY <1>1, <2>2, <3>1
    <2> QED BY <2>1, <2>2
  <1> QED BY <1>2, <1>3

\* What close() took out of the completions of the pool stays out of them.
LEMMA PoppedStays ==
  ASSUME NEW held, NEW again, NEW completing, NEW popped, NEW l,
         Sound(l, held, again, completing, popped)
  PROVE  Sound(l, held, again, completing, TRUE)
  <1>1. Tasked(l, TRUE)
    BY DEF Sound, Base, Tasked
  <1> QED BY <1>1 DEF Sound, Base

\* While a request is free or reactivated nobody has to complete it.
LEMMA NobodyCompletes ==
  ASSUME NEW held, NEW again, NEW completing, NEW popped, NEW l,
         Sound(l, held, again, Null, popped), Null \notin Requests
  PROVE  Sound(l, held, again, completing, popped)
  BY DEF Sound, Base, Registered

\* A worker hands its completion over, and wakes the loop up.
Pushes(l, r) == [l EXCEPT !.task[r] = "pushed", !.poolCompletions = Append(@, r)]
Wakes(l, r) == [l EXCEPT !.task[r] = "done", !.wake = TRUE]

Worked(l, r, v, c, w) ==
    [l EXCEPT !.task = [l.task EXCEPT ![r] = v], !.poolCompletions = c, !.wake = w]

AfterWork(l, m, held, again, completing, popped) ==
    /\ Sound(m, held, again, completing, popped)
    /\ m.setting = l.setting /\ m.state = l.state
    /\ m.submissions = l.submissions /\ m.queue = l.queue /\ m.cancellations = l.cancellations
    /\ m.runningAsync = l.runningAsync /\ m.runningRequest = l.runningRequest
    /\ m.manual = l.manual /\ m.needsTeardown = l.needsTeardown /\ m.watched = l.watched

LEMMA WorkerMoves ==
  ASSUME NEW held, NEW again, NEW completing, NEW popped, NEW l, NEW m, NEW r \in Requests,
         NEW c \in Seq(Requests), NEW v \in {"pushed", "done"}, NEW w \in BOOLEAN,
         Sound(l, held, again, completing, popped),
         m = Worked(l, r, v, c, w),
         IsInjective(c), l.task[r] # "idle",
         \/ v = "pushed" /\ \A x \in Requests : Contains(c, x) <=> Contains(l.poolCompletions, x) \/ x = r
         \/ v = "done" /\ l.task[r] = "pushed" /\ c = l.poolCompletions
  PROVE  AfterWork(l, m, held, again, completing, popped)
  <1> DEFINE K == [l.task EXCEPT ![r] = v]
  <1>1. l \in Loop
    BY DEF Sound, Base
  <1>2. K \in [Requests -> {"idle", "queued", "pushed", "done"}] /\ K[r] = v
        /\ \A x \in Requests : x # r => K[x] = l.task[x]
    BY <1>1 DEF Loop
  <1> HIDE DEF K
  <1>3. m \in Loop
    BY <1>1, <1>2 DEF Worked, Loop, K
  <1>4. /\ m.setting = l.setting /\ m.asserted = l.asserted /\ m.state = l.state
        /\ m.submissions = l.submissions /\ m.numberOfSubmissions = l.numberOfSubmissions
        /\ m.queue = l.queue /\ m.tracked = l.tracked /\ m.runningAsync = l.runningAsync
        /\ m.runningRequest = l.runningRequest /\ m.cancellations = l.cancellations
        /\ m.manual = l.manual /\ m.manualCompletions = l.manualCompletions
        /\ m.listed = l.listed /\ m.needsTeardown = l.needsTeardown /\ m.excluded = l.excluded
        /\ m.numberOfActiveHandles = l.numberOfActiveHandles
        /\ m.numberOfManualCompletions = l.numberOfManualCompletions
        /\ m.numberOfExternals = l.numberOfExternals
        /\ m.task = K /\ m.poolCompletions = c /\ m.watched = l.watched
    BY <1>1 DEF Worked, Loop, K
  <1>5. \A x : (Waits(m, x) <=> Waits(l, x)) /\ (OnItsWay(m, x) <=> OnItsWay(l, x))
    BY <1>4 DEF Waits, OnItsWay
  <1>6. Counted(m)
    BY <1>4 DEF Sound, Base, Counted, ActiveIn
  <1>7. Placed(m, held)
    BY <1>4, <1>5 DEF Sound, Base, Placed
  <1>8. Tasked(m, popped)
    <2>1. ASSUME NEW x \in Requests
          PROVE  /\ Contains(m.poolCompletions, x) => m.task[x] \in {"pushed", "done"}
                 /\ m.task[x] \in {"pushed", "done"} =>
                      Contains(m.poolCompletions, x) \/ (m.state[x] = "Cancelling" /\ popped)
                 /\ m.task[x] # "idle" =>
                      /\ m.setting.kind[x] = "work"
                      /\ \/ m.state[x] = "Active"
                         \/ m.state[x] = "Cancelling" /\ ~Contains(m.cancellations, x)
      <3>1. CASE x = r
        BY <1>2, <1>4, <3>1 DEF Sound, Base, Tasked
      <3>2. CASE x # r
        BY <1>2, <1>4, <3>2 DEF Sound, Base, Tasked
      <3> QED BY <3>1, <3>2
    <2> QED BY <1>4, <2>1 DEF Tasked
  <1>9. Registered(m, completing)
    BY <1>4 DEF Sound, Base, Registered
  <1>10. InTurn(m, again, Null)
    BY <1>4, <1>5 DEF Sound, InTurn
  <1> QED BY <1>3, <1>4, <1>6, <1>7, <1>8, <1>9, <1>10 DEF Sound, Base, AfterWork

LEMMA Pushing ==
  ASSUME NEW held, NEW again, NEW completing, NEW popped, NEW l, NEW r \in Requests,
         Sound(l, held, again, completing, popped), l.task[r] = "queued"
  PROVE  AfterWork(l, Pushes(l, r), held, again, completing, popped)
  <1> DEFINE c == Append(l.poolCompletions, r)  v == "pushed"  w == l.wake
             m == [l EXCEPT !.task = [l.task EXCEPT ![r] = v], !.poolCompletions = c, !.wake = w]
  <1>1. l \in Loop
    BY DEF Sound, Base
  <1>2. Pushes(l, r) = m
    <2>1. Pushes(l, r) = [l EXCEPT !.task = [l.task EXCEPT ![r] = v], !.poolCompletions = c]
      BY DEF Pushes
    <2> DEFINE K == [l.task EXCEPT ![r] = v]
    <2> HIDE DEF c, K
    <2> QED BY <1>1, <2>1 DEF Loop, K
  <1>3. /\ c \in Seq(Requests) /\ IsInjective(c) /\ w \in BOOLEAN
        /\ \A x : Contains(c, x) <=> Contains(l.poolCompletions, x) \/ x = r
    <2>1. /\ l.poolCompletions \in Seq(Requests) /\ IsInjective(l.poolCompletions)
          /\ ~Contains(l.poolCompletions, r) /\ l.wake \in BOOLEAN
      BY <1>1 DEF Sound, Base, Tasked, Loop
    <2> QED BY <2>1, Appended
  <1>4. v \in {"pushed", "done"} /\ v = "pushed" /\ l.task[r] # "idle"
        /\ m = Worked(l, r, v, c, w)
    BY DEF Worked
  <1> HIDE DEF c, v, w, m
  <1> QED BY <1>2, <1>3, <1>4, WorkerMoves

LEMMA Waking ==
  ASSUME NEW held, NEW again, NEW completing, NEW popped, NEW l, NEW r \in Requests,
         Sound(l, held, again, completing, popped), l.task[r] = "pushed"
  PROVE  AfterWork(l, Wakes(l, r), held, again, completing, popped)
  <1> DEFINE c == l.poolCompletions  v == "done"  w == TRUE
             m == [l EXCEPT !.task = [l.task EXCEPT ![r] = v], !.poolCompletions = c, !.wake = w]
  <1>1. l \in Loop
    BY DEF Sound, Base
  <1>2. Wakes(l, r) = m
    <2>1. Wakes(l, r) = [l EXCEPT !.task = [l.task EXCEPT ![r] = v], !.wake = w]
      BY DEF Wakes
    <2> DEFINE K == [l.task EXCEPT ![r] = v]
    <2> HIDE DEF K
    <2> QED BY <1>1, <2>1 DEF Loop, K
  <1>3. c \in Seq(Requests) /\ IsInjective(c)
    BY <1>1 DEF Sound, Base, Tasked, Loop
  <1>4. v \in {"pushed", "done"} /\ v = "done" /\ c = l.poolCompletions /\ w \in BOOLEAN
        /\ l.task[r] # "idle"
        /\ m = Worked(l, r, v, c, w)
    BY DEF Worked
  <1> HIDE DEF c, v, w, m
  <1> QED BY <1>2, <1>3, <1>4, WorkerMoves

-----------------------------------------------------------------------------
(* Closing                                                                 *)

\* close() first forgets whatever waits in a sequence.
AfterClear(l, m, popped) ==
    /\ Sound(m, {}, Null, Null, popped)
    /\ \A p \in Sequences : m.queue[p] = <<>>
    /\ \A x \in Requests : m.state[x] = IF Waits(l, x) THEN "Free" ELSE l.state[x]
    /\ m.submissions = l.submissions /\ m.cancellations = l.cancellations

LEMMA TrackedCleared ==
  ASSUME NEW popped, NEW l,
         SoundUsage, Sound(l, {}, Null, Null, popped)
  PROVE  AfterClear(l, ClearTracked(l), popped)
  <1> DEFINE S == UNION {ToSet(l.queue[q]) : q \in l.tracked}
             f == [r \in Requests |-> IF r \in S THEN "Free" ELSE l.state[r]]
             M == l.manual \ S
             E == l.excluded \ S
             N == l.needsTeardown \ S
             Q == [q \in Sequences |-> IF q \in l.tracked THEN <<>> ELSE l.queue[q]]
             T == l.tracked \cap l.runningAsync
             n == [l EXCEPT !.state = f, !.manual = M, !.excluded = E, !.needsTeardown = N,
                            !.queue = Q, !.tracked = T]
  <1>1. /\ l \in Loop /\ Null \notin Requests /\ Null \notin Sequences
        /\ \A x \in Requests : l.setting.sequenceOf[x] \in Sequences \cup {Null}
    BY SettingFacts, EventLoopAssumption DEF Sound, Base
  <1>2. \A q \in Sequences :
          /\ l.queue[q] \in Seq(Requests)
          /\ \A x \in Requests : Contains(l.queue[q], x) => l.setting.sequenceOf[x] = q
    BY <1>1 DEF Sound, Base, Placed, Loop
  <1>2a. \A q \in Sequences : l.queue[q] # <<>> => q \in l.tracked
    BY DEF Sound, InTurn
  <1>2b. l.tracked \in SUBSET Sequences
    BY <1>1 DEF Loop
  <1>2c. \A q \in Sequences : \A x : x \in ToSet(l.queue[q]) <=> Contains(l.queue[q], x)
    BY <1>2, LenProperties DEF ToSet, Contains
  <1>2d. \A q \in Sequences : \A x : Contains(l.queue[q], x) => x \in Requests /\ l.queue[q] # <<>>
    BY <1>2, EmptyList
  <1>3. \A x : x \in S <=> \E q \in Sequences : Contains(l.queue[q], x)
    BY <1>2a, <1>2b, <1>2c, <1>2d
  <1>3a. \A x : x \in S => x \in Requests
    BY <1>2d, <1>3
  <1>3b. \A x \in Requests : x \in S <=> Waits(l, x)
    BY <1>1, <1>2, <1>3 DEF Waits
  <1> HIDE DEF S
  <1>4. \A x \in S : /\ x \in Requests /\ Waits(l, x) /\ l.state[x] = "Setup"
                     /\ x \notin l.manual /\ l.task[x] = "idle"
                     /\ ~Contains(l.submissions, x) /\ ~Contains(l.cancellations, x)
    <2>1. \A x \in S : x \in Requests /\ Waits(l, x)
      BY <1>3a, <1>3b
    <2> QED BY <2>1 DEF Sound, Base, Placed, Tasked
  <1>5. \A q \in Sequences : Q[q] = <<>>
    BY <1>2a
  <1>5a. /\ f \in [Requests -> States] /\ M = l.manual /\ E \in SUBSET Requests
         /\ N \in SUBSET Requests /\ T \in SUBSET Sequences
    BY <1>1, <1>4 DEF Loop, States
  <1>5b. Q \in [Sequences -> Seq(Requests)]
    BY <1>2
  <1>5c. /\ \A x \in S : f[x] = "Free"
         /\ \A x \in Requests : x \notin S => f[x] = l.state[x]
         /\ \A q \in Sequences : q \in T <=> q \in l.tracked /\ q \in l.runningAsync
    BY <1>4
  <1>6. ClearTracked(l) = n
    <2>1. ClearTracked(l) = [MarkAsFree(l, S) EXCEPT !.queue = Q, !.tracked = T]
      <3> DEFINE k == MarkAsFree(l, S)
      <3>1. k.queue = l.queue /\ k.tracked = l.tracked
        BY <1>1 DEF MarkAsFree, Loop
      <3>2. ClearTracked(l) = [k EXCEPT !.queue = [q \in Sequences |-> IF q \in l.tracked THEN <<>> ELSE @[q]],
                                        !.tracked = @ \cap l.runningAsync]
        BY DEF ClearTracked, S
      <3> HIDE DEF k
      <3> QED BY <3>1, <3>2 DEF k
    <2>2. MarkAsFree(l, S) = [l EXCEPT !.state = f, !.manual = M, !.excluded = E,
                                       !.needsTeardown = N]
      BY DEF MarkAsFree
    <2> HIDE DEF f, M, E, N, Q, T
    <2> QED BY <1>1, <2>1, <2>2 DEF Loop
  <1> HIDE DEF f, M, E, N, Q, T
  <1>7. n \in Loop
    <2>1. M \in SUBSET Requests
      BY <1>1, <1>5a DEF Loop
    <2> QED BY <1>1, <1>5a, <1>5b, <2>1 DEF Loop
  <1>8. /\ n.setting = l.setting /\ n.asserted = l.asserted
        /\ n.state = f /\ n.manual = l.manual
        /\ n.excluded = E /\ n.needsTeardown = N
        /\ n.cancellations = l.cancellations
        /\ n.manualCompletions = l.manualCompletions /\ n.poolCompletions = l.poolCompletions
        /\ n.numberOfActiveHandles = l.numberOfActiveHandles
        /\ n.numberOfManualCompletions = l.numberOfManualCompletions
        /\ n.numberOfExternals = l.numberOfExternals
        /\ n.listed = l.listed /\ n.watched = l.watched /\ n.task = l.task
        /\ n.submissions = l.submissions /\ n.numberOfSubmissions = l.numberOfSubmissions
        /\ n.queue = Q /\ n.tracked = T
        /\ n.runningAsync = l.runningAsync /\ n.runningRequest = l.runningRequest
    BY <1>1, <1>5a DEF Loop
  <1> HIDE DEF n
  <1>9. /\ \A x \in S : n.state[x] = "Free"
        /\ \A x \in Requests : x \notin S => n.state[x] = l.state[x]
        /\ \A q \in Sequences : n.queue[q] = <<>> /\ IsInjective(n.queue[q])
        /\ \A q \in Sequences : \A x : ~Contains(n.queue[q], x)
    BY <1>5, <1>5c, <1>8, NothingListed
  <1>10. \A x \in Requests : ~Waits(n, x)
    BY <1>1, <1>8, <1>9 DEF Waits
  <1>11. Counted(n)
    <2>1. ActiveIn(n) = ActiveIn(l) /\ \A x \in S : x \notin ActiveIn(l)
      BY <1>4, <1>9 DEF ActiveIn
    <2>2. ActiveIn(n) \cap n.excluded = ActiveIn(l) \cap l.excluded
      BY <1>8, <2>1 DEF E
    <2> QED BY <1>8, <2>1, <2>2, CountsKept DEF Sound, Base, Counted
  <1>12. Placed(n, {})
    <2>3. ASSUME NEW x \in Requests
          PROVE  /\ Contains(n.submissions, x) <=>
                      \/ n.state[x] \in {"Setup", "Reactivate"} /\ ~Waits(n, x)
                      \/ n.state[x] = "Cancelling" /\ ~Contains(n.cancellations, x)
                 /\ Waits(n, x) => n.state[x] = "Setup"
                 /\ Contains(n.cancellations, x) => n.state[x] = "Cancelling"
                 /\ n.state[x] # "Submitting"
                 /\ Contains(n.manualCompletions, x) <=> x \in n.manual
                 /\ x \in n.manual => n.state[x] = "Active" /\ n.setting.kind[x] = "write"
                 /\ x \in n.listed <=>
                      n.state[x] = "Active" /\ x \notin n.manual /\ n.setting.sequenceOf[x] = Null
      <3>1. CASE x \in S
        BY <1>4, <1>8, <1>9, <1>10, <3>1 DEF Sound, Base, Placed
      <3>2. CASE x \notin S
        BY <1>3b, <1>8, <1>9, <1>10, <3>2 DEF Sound, Base, Placed
      <3> QED BY <3>1, <3>2
    <2>4. \A q \in Sequences : IsInjective(n.queue[q]) /\
             \A x \in Requests : Contains(n.queue[q], x) => n.setting.sequenceOf[x] = q
      BY <1>9
    <2> QED BY <1>8, <2>3, <2>4 DEF Sound, Base, Placed
  <1>13. Tasked(n, popped)
    BY <1>4, <1>8, <1>9 DEF Sound, Base, Tasked
  <1>14. Registered(n, Null)
    <2>1. \A x \in S : x \notin l.watched
      BY <1>1, <1>4 DEF Sound, Base, Registered
    <2> QED BY <1>1, <1>8, <1>9, <2>1 DEF Sound, Base, Registered
  <1>15. InTurn(n, Null, Null)
    <2>1. \A x \in Requests : x \notin S => (OnItsWay(n, x) <=> OnItsWay(l, x))
      BY <1>3b, <1>9, <1>10 DEF OnItsWay
    <2>1a. \A x \in S : ~OnItsWay(n, x)
      BY <1>9 DEF OnItsWay
    <2>2. ASSUME NEW p \in Sequences
          PROVE  /\ p \in n.runningAsync \/ n.queue[p] # <<>> => p \in n.tracked
                 /\ p \in n.tracked => p \in n.runningAsync \/ n.queue[p] # <<>> \/ p = Null
                 /\ p \in n.runningAsync <=> n.runningRequest[p] # Null
                 /\ n.runningRequest[p] # Null =>
                     /\ n.setting.sequenceOf[n.runningRequest[p]] = p
                     /\ OnItsWay(n, n.runningRequest[p])
      <3>1. ASSUME l.runningRequest[p] # Null
            PROVE  l.runningRequest[p] \in Requests /\ l.runningRequest[p] \notin S
        BY <1>1, <1>4, <3>1, RunningIs DEF Sound
      <3>2. /\ p \in l.runningAsync => p \in l.tracked
            /\ p \in l.runningAsync <=> l.runningRequest[p] # Null
            /\ l.runningRequest[p] # Null =>
                     /\ l.setting.sequenceOf[l.runningRequest[p]] = p
                     /\ OnItsWay(l, l.runningRequest[p])
        BY DEF Sound, InTurn
      <3>3. p \in T <=> p \in l.tracked /\ p \in l.runningAsync
        BY <1>5c
      <3> QED BY <1>8, <1>9, <2>1, <3>1, <3>2, <3>3
    <2>3. ASSUME NEW x \in Requests, n.setting.sequenceOf[x] # Null, OnItsWay(n, x),
                 n.state[x] # "Cancelling"
          PROVE  n.runningRequest[n.setting.sequenceOf[x]] = x
                 \/ (x = Null /\ n.setting.sequenceOf[x] \notin n.runningAsync)
      <3>1. x \notin S
        BY <2>1a, <2>3
      <3> QED BY <1>8, <1>9, <2>1, <2>3, <3>1 DEF Sound, InTurn
    <2> QED BY <2>2, <2>3 DEF InTurn
  <1>16. Sound(n, {}, Null, Null, popped)
    BY <1>7, <1>8, <1>11, <1>12, <1>13, <1>14, <1>15 DEF Sound, Base
  <1> QED BY <1>3b, <1>6, <1>8, <1>9, <1>16 DEF AfterClear

\* A completion of the pool that close() pops: the request is stopped if it is active.
Popping(l) == [l EXCEPT !.poolCompletions = Tail(@)]

AfterPop(l, m, r, popped) ==
    /\ Sound(m, {}, Null, Null, popped)
    /\ m.queue = l.queue /\ m.submissions = l.submissions /\ m.cancellations = l.cancellations
    /\ m.state = l.state

LEMMA CancellingPopped ==
  ASSUME NEW l, NEW r \in Requests, NEW popped,
         Sound(l, {}, Null, Null, popped), popped,
         l.poolCompletions # <<>>, r = Head(l.poolCompletions), l.state[r] = "Cancelling"
  PROVE  AfterPop(l, Popping(l), r, popped)
  <1> DEFINE c == Tail(l.poolCompletions)
             m == [l EXCEPT !.poolCompletions = c]
  <1>1. l \in Loop
    BY DEF Sound, Base
  <1>2. /\ c \in Seq(Requests) /\ IsInjective(c)
        /\ \A x : Contains(c, x) <=> Contains(l.poolCompletions, x) /\ x # r
    <2>1. l.poolCompletions \in Seq(Requests) /\ IsInjective(l.poolCompletions)
      BY <1>1 DEF Sound, Base, Tasked, Loop
    <2> QED BY <2>1, HeadTaken
  <1>3. Popping(l) = m
    BY DEF Popping
  <1> HIDE DEF c
  <1>4. m \in Loop
    BY <1>1, <1>2 DEF Loop
  <1>5. /\ m.setting = l.setting /\ m.asserted = l.asserted /\ m.state = l.state
        /\ m.submissions = l.submissions /\ m.numberOfSubmissions = l.numberOfSubmissions
        /\ m.queue = l.queue /\ m.tracked = l.tracked /\ m.runningAsync = l.runningAsync
        /\ m.runningRequest = l.runningRequest /\ m.cancellations = l.cancellations
        /\ m.manual = l.manual /\ m.manualCompletions = l.manualCompletions
        /\ m.listed = l.listed /\ m.needsTeardown = l.needsTeardown /\ m.excluded = l.excluded
        /\ m.numberOfActiveHandles = l.numberOfActiveHandles
        /\ m.numberOfManualCompletions = l.numberOfManualCompletions
        /\ m.numberOfExternals = l.numberOfExternals
        /\ m.task = l.task /\ m.poolCompletions = c /\ m.watched = l.watched
    BY <1>1 DEF Loop
  <1> HIDE DEF m
  <1>6. \A x : (Waits(m, x) <=> Waits(l, x)) /\ (OnItsWay(m, x) <=> OnItsWay(l, x))
    BY <1>5 DEF Waits, OnItsWay
  <1>7. Counted(m)
    BY <1>5 DEF Sound, Base, Counted, ActiveIn
  <1>8. Placed(m, {})
    BY <1>5, <1>6 DEF Sound, Base, Placed
  <1>9. Tasked(m, popped)
    BY <1>2, <1>5 DEF Sound, Base, Tasked
  <1>10. Registered(m, Null)
    BY <1>5 DEF Sound, Base, Registered
  <1>11. InTurn(m, Null, Null)
    BY <1>5, <1>6 DEF Sound, InTurn
  <1> QED BY <1>3, <1>4, <1>5, <1>7, <1>8, <1>9, <1>10, <1>11 DEF Sound, Base, AfterPop

LEMMA ActivePopped ==
  ASSUME NEW l, NEW r \in Requests, NEW popped,
         SoundUsage, Sound(l, {}, Null, Null, popped), popped,
         l.poolCompletions # <<>>, r = Head(l.poolCompletions), l.state[r] = "Active"
  PROVE  AfterStop(l, StopRequest(Popping(l), r), r, {}, Null, Null, popped)
  <1> DEFINE c == Tail(l.poolCompletions)
  <1>1. l \in Loop
    BY DEF Sound, Base
  <1>2. /\ c \in Seq(Requests) /\ IsInjective(c)
        /\ \A x : Contains(c, x) <=> Contains(l.poolCompletions, x) /\ x # r
    <2>1. l.poolCompletions \in Seq(Requests) /\ IsInjective(l.poolCompletions)
      BY <1>1 DEF Sound, Base, Tasked, Loop
    <2> QED BY <2>1, HeadTaken
  <1>3. Popping(l) = WithPool(l, c)
    BY DEF Popping, WithPool
  <1>4. Popping(l).state = l.state
    BY <1>1 DEF Popping, Loop
  <1>5. StopRequest(Popping(l), r) = StopActive(WithPool(l, c), r)
    BY <1>3, <1>4 DEF StopRequest
  <1> DEFINE held == {}  again == Null  completing == Null
  <1>6. Sound(l, held, again, completing, popped) /\ again \in Requests \cup {Null}
    OBVIOUS
  <1>7. /\ \A x \in Requests : x # r => (Contains(c, x) <=> Contains(l.poolCompletions, x))
        /\ ~Contains(c, r)
    BY <1>2
  <1> HIDE DEF c, held, again, completing
  <1>8. AfterStop(l, StopActive(WithPool(l, c), r), r, held, again, completing, popped)
    BY <1>2, <1>6, <1>7, ActiveStopped
  <1> QED BY <1>5, <1>8 DEF held, again, completing

-----------------------------------------------------------------------------
(* The invariant after a step                                              *)

ControlOK ==
    /\ closing \in ClosingStages
    /\ phase \in {"idle", "submit", "poll", "polled", "timers", "events", "manual", "pool",
                  "cancel", "closed"}
    /\ syncMode \in {"NoWait", "Forced"}
    /\ batch \in SUBSET Event
    /\ cursor \in Requests \cup {Null}
    /\ cb \in [kind : {"none", "complete", "error", "timer", "close"},
               req : Requests \cup {Null}, again : BOOLEAN, ok : BOOLEAN]

LEMMA Primed ==
  ASSUME Sound(loop', Held', Again', Completing', Popped')
  PROVE  (Sound(loop, Held, Again, Completing, Popped))'
  BY DEF Sound, Base, Counted, Placed, Tasked, Registered, InTurn, OnItsWay, Waits, ActiveIn

LEMMA ExternalsSign ==
  ASSUME NEW l, Counted(l)
  PROVE  -l.numberOfExternals \in Nat
  BY ActiveFinite, FS_CardinalityType DEF Counted

LEMMA Reestablished ==
  ASSUME SoundUsage, IInv, ControlOK', starts' \in 0 .. MaxStarts,
         Sound(loop', Held', Again', Completing', Popped'),
         CallbackInv', PhaseInv', ClosingInv'
  PROVE  IInv'
  <1>1. loop' \in Loop /\ Counted(loop') /\ loop'.setting = loop.setting
    BY DEF Sound, Base
  <1>2. -loop'.numberOfExternals \in Nat
    BY <1>1, ExternalsSign
  <1>3. MaxStarts' = MaxStarts
    BY <1>1 DEF MaxStarts
  <1>4. TypeOK'
    BY <1>1, <1>2, <1>3 DEF TypeOK, ControlOK
  <1> QED BY <1>4, Primed DEF IInv

\* What IInv says of the thread of the loop.
LEMMA Facts ==
  ASSUME SoundUsage, IInv
  PROVE  /\ loop \in Loop /\ ControlOK /\ starts \in 0 .. MaxStarts
         /\ Sound(loop, Held, Again, Completing, Popped)
         /\ Null \notin Requests /\ Null \notin Sequences
         /\ Again \in Requests \cup {Null}
         /\ \A r \in Requests : SequenceOf[r] \in Sequences \cup {Null}
         /\ cb = NoCallback => Held = {} /\ Again = Null /\ Completing = Null
  <1>1. loop \in Loop /\ ControlOK /\ starts \in 0 .. MaxStarts
        /\ Sound(loop, Held, Again, Completing, Popped)
    BY DEF IInv, TypeOK, ControlOK
  <1>2. Null \notin Requests /\ Null \notin Sequences
    BY EventLoopAssumption
  <1>3. \A r \in Requests : SequenceOf[r] \in Sequences \cup {Null}
    BY <1>1, SettingFacts DEF SequenceOf
  <1>4. Again \in Requests \cup {Null}
    BY <1>1 DEF Again, ControlOK
  <1>5. cb = NoCallback => Held = {} /\ Again = Null /\ Completing = Null
    BY DEF NoCallback, Held, Again, Completing
  <1> QED BY <1>1, <1>2, <1>3, <1>4, <1>5

\* Keeps, but for what waits in the sequences.
KeepsRequests(l, m, S) ==
    /\ \A x \in Requests \ S : m.state[x] # l.state[x] =>
         l.state[x] = "Setup" /\ m.state[x] = "Free" /\ Waits(l, x)
    /\ \A x \in Requests \ S : l.state[x] # "Setup" =>
         (x \in m.needsTeardown <=> x \in l.needsTeardown)
    /\ \A x \in Requests : Contains(l.cancellations, x) => Contains(m.cancellations, x)

\* Steps that keep the thread where it is, and touch the requests of `S` only.
LEMMA PhaseKept ==
  ASSUME NEW S \in SUBSET Requests,
         PhaseInv, UNCHANGED <<phase, batch, cursor>>, loop'.setting = loop.setting,
         KeepsRequests(loop, loop', S), phase # "poll", ControlOK,
         \A r \in S :
            /\ phase \in {"polled"} \cup Dispatching /\ Kind[r] = "work"
               /\ loop'.state[r] = "Cancelling" => Contains(loop'.cancellations, r)
            /\ loop.state[r] = "Active" \/ (loop.state[r] = "Cancelling" /\ r \in loop.needsTeardown)
               => \/ \A e \in batch : e.req # r
                  \/ loop'.state[r] = "Active"
                  \/ loop'.state[r] = "Cancelling" /\ r \in loop'.needsTeardown
  PROVE  PhaseInv'
  <1>1. Kind' = Kind
    BY DEF Kind
  <1>2. ASSUME phase \in {"polled"} \cup Dispatching, NEW r \in Requests, Kind[r] = "work",
               loop'.state[r] = "Cancelling"
        PROVE  Contains(loop'.cancellations, r)
    <2>1. CASE r \in S
      BY <1>2, <2>1
    <2>2. CASE r \notin S
      <3>1. loop.state[r] = "Cancelling"
        BY <1>2, <2>2 DEF KeepsRequests
      <3>2. Contains(loop.cancellations, r)
        BY <1>2, <3>1 DEF PhaseInv
      <3> QED BY <3>2 DEF KeepsRequests
    <2> QED BY <2>1, <2>2
  <1>3. ASSUME NEW e \in batch, e.req # Null
        PROVE  /\ Watches(e.req) /\ ~e.err
               /\ \/ loop'.state[e.req] = "Active"
                  \/ loop'.state[e.req] = "Cancelling" /\ e.req \in loop'.needsTeardown
    <2>1. e.req \in Requests
      BY <1>3 DEF ControlOK, Event
    <2>2. /\ Watches(e.req) /\ ~e.err
          /\ \/ loop.state[e.req] = "Active"
             \/ loop.state[e.req] = "Cancelling" /\ e.req \in loop.needsTeardown
      BY <1>3 DEF PhaseInv
    <2>3. CASE e.req \in S
      BY <1>3, <2>2, <2>3
    <2>4. CASE e.req \notin S
      BY <2>1, <2>2, <2>4 DEF KeepsRequests
    <2> QED BY <2>2, <2>3, <2>4
  <1>4. cursor # Null => phase = "cancel" /\ Contains(loop'.cancellations, cursor)
    BY DEF PhaseInv, KeepsRequests, ControlOK
  <1>5. batch # {} => phase \in {"polled", "timers", "events"}
    BY DEF PhaseInv
  <1> QED BY <1>1, <1>2, <1>3, <1>4, <1>5 DEF PhaseInv, Watches, Dispatching

\* Steps that change nothing that closing looks at.
LEMMA ClosingKept ==
  ASSUME ClosingInv, UNCHANGED <<phase, batch, cursor, closing>>, loop'.setting = loop.setting,
         loop'.state = loop.state, loop'.submissions = loop.submissions,
         loop'.cancellations = loop.cancellations, loop'.queue = loop.queue,
         loop'.manual = loop.manual, cb' = cb \/ cb' = NoCallback
  PROVE  ClosingInv'
  BY DEF ClosingInv, SequenceOf, NoCallback

\* User code is not called while close() stops requests.
LEMMA UserFacts ==
  ASSUME SoundUsage, IInv, UserCode
  PROVE  /\ closing \in {"no", "ran", "end"} /\ phase # "poll" /\ phase # "closed"
         /\ closing # "no" => \A r \in Requests : loop.state[r] \in {"Free", "Cancelling"}
  <1>1. CallbackInv /\ ClosingInv /\ ControlOK
    BY DEF IInv, TypeOK, ControlOK
  <1>2. cb # NoCallback => phase \in {"submit", "timers", "events", "manual", "pool", "cancel"}
    BY <1>1 DEF CallbackInv, ControlOK
  <1> QED BY <1>1, <1>2 DEF UserCode, ClosingInv

LEMMA ClosingNo ==
  ASSUME closing' = "no", phase' # "closed"
  PROVE  ClosingInv'
  BY DEF ClosingInv

\* User code that does not touch the callback's own record.
LEMMA CallbackKept ==
  ASSUME CallbackInv, UNCHANGED <<phase, batch, cb>>, loop'.setting = loop.setting,
         cb.kind = "error" => loop'.state[cb.req] = loop.state[cb.req],
         cb.kind = "complete" /\ ~cb.again =>
            /\ loop'.state[cb.req] \in {"Free", "Setup", "Cancelling"}
            /\ cb.req \in loop.watched /\ Watches(cb.req) => cb.req \in loop'.watched,
         cb.again =>
            \/ /\ loop'.state[cb.req] = loop.state[cb.req]
               /\ SequenceOf[cb.req] # Null => loop'.runningRequest[SequenceOf[cb.req]]
                    = loop.runningRequest[SequenceOf[cb.req]]
            \/ /\ loop'.state[cb.req] = "Cancelling"
               /\ SequenceOf[cb.req] # Null => loop'.runningRequest[SequenceOf[cb.req]] = Null
  PROVE  CallbackInv'
  BY DEF CallbackInv, Watches, Kind, SequenceOf, NoCallback

LEMMA UserReestablished ==
  ASSUME SoundUsage, IInv, UNCHANGED <<phase, syncMode, batch, cursor, cb, closing>>,
         starts' \in 0 .. MaxStarts, Sound(loop', Held, Again, Completing, Popped),
         CallbackInv', PhaseInv', ClosingInv'
  PROVE  IInv'
  <1>1. /\ Held' = Held /\ Again' = Again /\ Completing' = Completing /\ Popped' = Popped
    BY DEF Held, Again, Completing, Popped
  <1>2. ControlOK'
    BY Facts DEF ControlOK
  <1> QED BY <1>1, <1>2, Reestablished

-----------------------------------------------------------------------------
(* User code keeps the invariant                                           *)

LEMMA StartKeeps ==
  ASSUME SoundUsage, IInv, NEW r \in Requests, Start(r)
  PROVE  IInv'
  <1>1. /\ loop \in Loop /\ Sound(loop, Held, Again, Completing, Popped)
        /\ Null \notin Requests /\ Null \notin Sequences /\ ControlOK
        /\ Again \in Requests \cup {Null} /\ starts \in 0 .. MaxStarts
    BY Facts
  <1>2. /\ UNCHANGED <<phase, syncMode, batch, cursor, cb, closing>> /\ closing = "no"
        /\ UserCode /\ loop.state[r] = "Free" /\ loop' = QueueSubmission(loop, r)
    BY DEF Start, MayStart
  <1>2a. starts' \in 0 .. MaxStarts
    <2>1. MaxStarts \in Nat
      BY <1>1, EventLoopAssumption DEF MaxStarts, Setting, Loop
    <2> QED BY <1>1, <2>1 DEF Start
  <1>3. /\ "joinReactivated" \notin Usage
    BY <1>1, SettingFacts DEF Usage
  <1>4. /\ Again # r
        /\ Again # Null /\ SequenceOf[r] # Null => SequenceOf[Again] # SequenceOf[r]
    BY <1>1, <1>3 DEF Start, MayStart, Again, SequenceOfCallback
  <1>5. LET m == QueueSubmission(loop, r) IN
        /\ Sound(m, Held, Again, Completing, Popped)
        /\ m.state = [loop.state EXCEPT ![r] = "Setup"] /\ m.cancellations = loop.cancellations
        /\ m.needsTeardown = loop.needsTeardown /\ m.watched = loop.watched
        /\ \A p \in Sequences : p # SequenceOf[r] => m.runningRequest[p] = loop.runningRequest[p]
    BY <1>1, <1>2, <1>4, Submitted
  <1>6. /\ Sound(loop', Held, Again, Completing, Popped)
        /\ loop'.state = [loop.state EXCEPT ![r] = "Setup"]
        /\ loop'.cancellations = loop.cancellations
        /\ loop'.needsTeardown = loop.needsTeardown /\ loop'.watched = loop.watched
        /\ \A p \in Sequences : p # SequenceOf[r] => loop'.runningRequest[p] = loop.runningRequest[p]
    BY <1>2, <1>5
  <1>7. /\ loop'.setting = loop.setting /\ loop'.state[r] = "Setup"
        /\ \A x \in Requests : x # r => loop'.state[x] = loop.state[x]
    BY <1>1, <1>6 DEF Loop, Sound, Base
  <1>8. CallbackInv'
    <2>0. CallbackInv
      BY DEF IInv
    <2>1. cb.kind # "none" => cb.req \in Requests
      BY <1>1 DEF IInv, CallbackInv, ControlOK
    <2>2. cb.again => cb.kind # "none" /\ cb.req # r
      BY <2>0, <1>1, <1>4 DEF CallbackInv, Again
    <2>3. cb.kind = "error" => loop'.state[cb.req] = loop.state[cb.req]
      BY <2>0, <2>1, <1>2, <1>7 DEF CallbackInv
    <2>4. cb.kind = "complete" /\ ~cb.again =>
            /\ loop'.state[cb.req] \in {"Free", "Setup", "Cancelling"}
            /\ cb.req \in loop.watched /\ Watches(cb.req) => cb.req \in loop'.watched
      BY <2>0, <2>1, <1>6, <1>7 DEF CallbackInv
    <2>5. cb.again =>
            /\ loop'.state[cb.req] = loop.state[cb.req]
            /\ SequenceOf[cb.req] # Null => loop'.runningRequest[SequenceOf[cb.req]]
                 = loop.runningRequest[SequenceOf[cb.req]]
      <3> HAVE cb.again
      <3>1. SequenceOf[cb.req] \in Sequences \cup {Null} /\ Again = cb.req
        BY <2>1, <2>2, Facts DEF Again
      <3> QED BY <2>1, <2>2, <3>1, <1>1, <1>4, <1>6, <1>7
    <2> QED BY <2>0, <1>2, <1>7, <2>3, <2>4, <2>5, CallbackKept
  <1>9. PhaseInv'
    <2> DEFINE S == {r}
    <2>1. KeepsRequests(loop, loop', S)
      BY <1>6, <1>7 DEF KeepsRequests
    <2>2. \A x \in S :
            /\ loop'.state[x] # "Cancelling" /\ loop.state[x] # "Active"
            /\ loop.state[x] # "Cancelling"
      BY <1>2, <1>7
    <2>3. PhaseInv /\ phase # "poll" /\ S \in SUBSET Requests
      BY <1>2, UserFacts DEF IInv
    <2> HIDE DEF S
    <2> QED BY <1>1, <1>2, <1>7, <2>1, <2>2, <2>3, PhaseKept
  <1>10. ClosingInv'
    BY <1>2, UserFacts, ClosingNo
  <1> QED BY <1>2, <1>2a, <1>6, <1>8, <1>9, <1>10, UserReestablished

LEMMA StopKeeps ==
  ASSUME SoundUsage, IInv, NEW r \in Requests, Stop(r)
  PROVE  IInv'
  <1>1. /\ loop \in Loop /\ Sound(loop, Held, Again, Completing, Popped)
        /\ Null \notin Requests /\ Null \notin Sequences /\ ControlOK
        /\ Again \in Requests \cup {Null} /\ starts \in 0 .. MaxStarts
        /\ CallbackInv /\ loop.setting = loop.setting
    BY Facts DEF IInv
  <1>2. /\ UNCHANGED <<phase, syncMode, batch, cursor, cb, closing, starts>>
        /\ UserCode /\ loop.state[r] \in {"Setup", "Active", "Reactivate"} /\ MayStop(r)
        /\ loop' = StopRequest(loop, r)
    BY DEF Stop
  <1>3. /\ "stopQueued" \notin Usage /\ "stopWorkLate" \notin Usage
    BY <1>1, SettingFacts DEF Usage
  <1>4. r \notin Held /\ ~Waits(loop, r)
    <2>1. r \notin Held
      BY <1>2 DEF MayStop, Held
    <2>2. ~Waits(loop, r)
      BY <1>1, <1>2, <1>3 DEF MayStop, Sound, Base, Placed
    <2> QED BY <2>1, <2>2
  <1>5. AfterRequestStop(loop, StopRequest(loop, r), r, Held, Again, Completing, Popped)
    BY <1>1, <1>2, <1>4, RequestStopped
  <1>6. /\ Sound(loop', Held, Again, Completing, Popped)
        /\ loop'.state[r] = "Cancelling"
        /\ loop.state[r] = "Active" => r \in loop'.needsTeardown
        /\ loop.state[r] # "Active" => Contains(loop'.cancellations, r)
        /\ Keeps(loop, loop', {r})
        /\ loop'.watched = loop.watched
           \/ (loop.state[r] = "Reactivate" /\ loop'.watched = loop.watched \ {r})
        /\ \A p \in Sequences : loop'.runningRequest[p] =
             IF loop.state[r] = "Active" /\ p = SequenceOf[r] THEN Null ELSE loop.runningRequest[p]
    BY <1>2, <1>5 DEF AfterRequestStop
  <1>7. loop'.setting = loop.setting
    BY <1>6 DEF Sound, Base
  <1>8. CallbackInv'
    <2>1. cb.kind # "none" => cb.req \in Requests
      BY <1>1 DEF CallbackInv, ControlOK
    <2>2. cb.again => cb.kind # "none" /\ cb.kind # "error"
      BY <1>1 DEF CallbackInv
    <2>3. cb.kind = "error" => loop'.state[cb.req] = loop.state[cb.req]
      <3> HAVE cb.kind = "error"
      <3>1. cb.req # r /\ cb.req \in Held
        BY <1>2 DEF MayStop, Held
      <3>2. ~Waits(loop, cb.req)
        BY <1>1, <2>1, <3>1 DEF Sound, Base, Placed
      <3> QED BY <1>6, <2>1, <3>1, <3>2 DEF Keeps
    <2>4. cb.kind = "complete" /\ ~cb.again =>
            /\ loop'.state[cb.req] \in {"Free", "Setup", "Cancelling"}
            /\ cb.req \in loop.watched /\ Watches(cb.req) => cb.req \in loop'.watched
      <3> HAVE cb.kind = "complete" /\ ~cb.again
      <3>1. loop.state[cb.req] \in {"Free", "Setup", "Cancelling"}
        BY <1>1 DEF CallbackInv
      <3>2. CASE cb.req = r
        BY <1>6, <3>1, <3>2
      <3>3. CASE cb.req # r
        BY <1>6, <2>1, <3>1, <3>3 DEF Keeps
      <3> QED BY <3>2, <3>3
    <2>5. cb.again =>
            \/ /\ loop'.state[cb.req] = loop.state[cb.req]
               /\ SequenceOf[cb.req] # Null => loop'.runningRequest[SequenceOf[cb.req]]
                    = loop.runningRequest[SequenceOf[cb.req]]
            \/ /\ loop'.state[cb.req] = "Cancelling"
               /\ SequenceOf[cb.req] # Null => loop'.runningRequest[SequenceOf[cb.req]] = Null
      <3> HAVE cb.again
      <3> DEFINE a == cb.req
      <3>1. /\ a \in Requests /\ SequenceOf[a] \in Sequences \cup {Null} /\ Again = a
            /\ SequenceOf[r] \in Sequences \cup {Null}
        BY <2>1, <2>2, Facts DEF Again
      <3>2. /\ loop.state[a] \in {"Reactivate", "Cancelling", "Active"}
            /\ SequenceOf[a] # Null => loop.runningRequest[SequenceOf[a]] =
                  IF loop.state[a] = "Active" THEN a ELSE Null
        BY <1>1 DEF CallbackInv
      <3>3. CASE a = r
        <4>1. SequenceOf[a] # Null => loop'.runningRequest[SequenceOf[a]] = Null
          BY <1>6, <3>1, <3>2, <3>3
        <4> QED BY <1>6, <3>3, <4>1
      <3>4. CASE a # r
        <4>1. loop'.state[a] = loop.state[a]
          BY <1>6, <3>1, <3>2, <3>4 DEF Keeps
        <4>2. ASSUME SequenceOf[a] # Null
              PROVE  loop'.runningRequest[SequenceOf[a]] = loop.runningRequest[SequenceOf[a]]
          <5>1. CASE loop.state[r] = "Active" /\ SequenceOf[a] = SequenceOf[r]
            <6>1. OnItsWay(loop, r)
              BY <1>4, <5>1 DEF OnItsWay
            <6>2. loop.setting.sequenceOf[r] # Null /\ r # Again
              BY <3>1, <3>4, <4>2, <5>1 DEF SequenceOf
            <6>3. loop.runningRequest[SequenceOf[r]] = r
              BY <1>1, <5>1, <6>1, <6>2 DEF Sound, InTurn, SequenceOf
            <6> QED BY <1>1, <3>1, <3>2, <3>4, <4>2, <5>1, <6>3
          <5>2. CASE ~(loop.state[r] = "Active" /\ SequenceOf[a] = SequenceOf[r])
            BY <1>6, <3>1, <4>2, <5>2
          <5> QED BY <5>1, <5>2
        <4> QED BY <4>1, <4>2
      <3> QED BY <3>3, <3>4
    <2> QED BY <1>1, <1>2, <1>7, <2>3, <2>4, <2>5, CallbackKept
  <1>9. PhaseInv'
    <2> DEFINE S == {r}
    <2>1. KeepsRequests(loop, loop', S)
      BY <1>6 DEF Keeps, KeepsRequests
    <2>2. \A x \in S :
            /\ phase \in {"polled"} \cup Dispatching /\ Kind[x] = "work"
               /\ loop'.state[x] = "Cancelling" => Contains(loop'.cancellations, x)
            /\ loop.state[x] = "Active" =>
                 loop'.state[x] = "Cancelling" /\ x \in loop'.needsTeardown
            /\ loop.state[x] # "Cancelling"
      BY <1>2, <1>3, <1>6 DEF MayStop
    <2>3. PhaseInv /\ phase # "poll" /\ S \in SUBSET Requests
      BY <1>2, UserFacts DEF IInv
    <2> HIDE DEF S
    <2> QED BY <1>1, <1>2, <1>7, <2>1, <2>2, <2>3, PhaseKept
  <1>10. ClosingInv'
    <2>1. closing = "no" /\ phase # "closed"
      BY <1>2, UserFacts
    <2> QED BY <1>2, <2>1, ClosingNo
  <1> QED BY <1>1, <1>2, <1>6, <1>8, <1>9, <1>10, UserReestablished

\* A step that leaves the thread, the states and the lists alone.
Unmoved(l, m) ==
    /\ m.state = l.state /\ m.needsTeardown = l.needsTeardown
    /\ m.cancellations = l.cancellations /\ m.submissions = l.submissions
    /\ m.queue = l.queue /\ m.watched = l.watched /\ m.runningRequest = l.runningRequest
    /\ m.manual = l.manual

LEMMA UnmovedKeeps ==
  ASSUME SoundUsage, IInv, UNCHANGED <<phase, syncMode, batch, cursor, cb, closing, starts>>,
         Sound(loop', Held, Again, Completing, Popped), Unmoved(loop, loop')
  PROVE  IInv'
  <1>1. loop'.setting = loop.setting
    BY DEF Sound, Base
  <1>2. CallbackInv'
    BY <1>1 DEF IInv, CallbackInv, Unmoved, Watches, Kind, SequenceOf, NoCallback
  <1>3. PhaseInv'
    BY <1>1 DEF IInv, PhaseInv, Unmoved, Watches, Kind, Dispatching
  <1>4. ClosingInv'
    BY <1>1, ClosingKept DEF IInv, Unmoved
  <1> QED BY <1>2, <1>3, <1>4, Facts, UserReestablished

LEMMA ExcludeKeeps ==
  ASSUME SoundUsage, IInv, NEW r \in Requests,
         ExcludeFromActiveCount(r) \/ IncludeInActiveCount(r)
  PROVE  IInv'
  <1>1. loop \in Loop /\ Sound(loop, Held, Again, Completing, Popped) /\ Counted(loop)
    BY Facts DEF Sound, Base
  <1> DEFINE c == loop.state[r] = "Active" /\ r \notin loop.manual
  <1>2. ASSUME NEW X \in SUBSET Requests, NEW n \in Int,
               -n = Cardinality((ActiveIn(loop) \ loop.manual) \cap X),
               loop' = Excluding(loop, X, n)
        PROVE  Sound(loop', Held, Again, Completing, Popped) /\ Unmoved(loop, loop')
    BY <1>1, <1>2, ExclusionCounted DEF Unmoved
  <1>3. CASE ExcludeFromActiveCount(r)
    <2> DEFINE X == loop.excluded \cup {r}
               n == IF c THEN loop.numberOfExternals - 1 ELSE loop.numberOfExternals
    <2>1. r \notin loop.excluded
          /\ UNCHANGED <<phase, syncMode, batch, cursor, cb, closing, starts>>
          /\ loop' = Excluding(loop, X, n)
      BY <1>3 DEF ExcludeFromActiveCount, Excluding
    <2>2. X \in SUBSET Requests /\ n \in Int
      BY <1>1 DEF Loop
    <2>3. -n = Cardinality((ActiveIn(loop) \ loop.manual) \cap X)
      BY <1>1, <2>1, ExcludedCount
    <2> HIDE DEF X, n
    <2>4. Sound(loop', Held, Again, Completing, Popped) /\ Unmoved(loop, loop')
      BY <1>2, <2>1, <2>2, <2>3
    <2> QED BY <2>1, <2>4, UnmovedKeeps
  <1>4. CASE IncludeInActiveCount(r)
    <2> DEFINE X == loop.excluded \ {r}
               n == IF c THEN loop.numberOfExternals + 1 ELSE loop.numberOfExternals
    <2>1. r \in loop.excluded
          /\ UNCHANGED <<phase, syncMode, batch, cursor, cb, closing, starts>>
          /\ loop' = Excluding(loop, X, n)
      BY <1>4 DEF IncludeInActiveCount, Excluding
    <2>2. X \in SUBSET Requests /\ n \in Int
      BY <1>1 DEF Loop
    <2>3. -n = Cardinality((ActiveIn(loop) \ loop.manual) \cap X)
      BY <1>1, <2>1, ExcludedCount
    <2> HIDE DEF X, n
    <2>4. Sound(loop', Held, Again, Completing, Popped) /\ Unmoved(loop, loop')
      BY <1>2, <2>1, <2>2, <2>3
    <2> QED BY <2>1, <2>4, UnmovedKeeps
  <1> QED BY <1>3, <1>4

\* Fields that nothing else looks at.
Flagged(l, wake, runTimers, interrupted) ==
    [l EXCEPT !.wake = wake, !.runTimers = runTimers, !.interrupted = interrupted]

LEMMA FlagsSound ==
  ASSUME NEW held, NEW again, NEW completing, NEW popped, NEW l,
         NEW w \in BOOLEAN, NEW t \in BOOLEAN, NEW i \in BOOLEAN,
         Sound(l, held, again, completing, popped)
  PROVE  /\ Sound(Flagged(l, w, t, i), held, again, completing, popped)
         /\ Unmoved(l, Flagged(l, w, t, i))
  <1> DEFINE m == Flagged(l, w, t, i)
  <1>1. l \in Loop
    BY DEF Sound, Base
  <1>2. m \in Loop
    BY <1>1 DEF Loop, Flagged
  <1>3. Alike(l, m) /\ m.watched = l.watched /\ Unmoved(l, m)
    BY <1>1 DEF Loop, Flagged, Alike, Unmoved
  <1> HIDE DEF m
  <1>4. Sound(m, held, again, completing, popped)
    BY <1>2, <1>3, AlikeKept
  <1> QED BY <1>3, <1>4 DEF m

LEMMA InterruptKeeps ==
  ASSUME SoundUsage, IInv, Interrupt
  PROVE  IInv'
  <1>1. loop \in Loop /\ Sound(loop, Held, Again, Completing, Popped)
    BY Facts
  <1>2. loop.wake \in BOOLEAN /\ loop.runTimers \in BOOLEAN
    BY <1>1 DEF Loop
  <1>3. loop' = Flagged(loop, loop.wake, loop.runTimers, TRUE)
    BY <1>1 DEF Interrupt, Flagged, Loop
  <1>4. Sound(loop', Held, Again, Completing, Popped) /\ Unmoved(loop, loop')
    BY <1>1, <1>2, <1>3, FlagsSound
  <1> QED BY <1>4, UnmovedKeeps DEF Interrupt

LEMMA WorkersKeep ==
  ASSUME SoundUsage, IInv, NEW r \in Requests, TaskPushes(r) \/ TaskWakesLoop(r)
  PROVE  IInv'
  <1>1. Sound(loop, Held, Again, Completing, Popped)
    BY Facts
  <1>2. CASE TaskPushes(r)
    <2>1. loop' = Pushes(loop, r) /\ loop.task[r] = "queued"
          /\ UNCHANGED <<phase, syncMode, batch, cursor, cb, closing, starts>>
      BY <1>2 DEF TaskPushes, Pushes
    <2>2. AfterWork(loop, loop', Held, Again, Completing, Popped)
      BY <1>1, <2>1, Pushing
    <2> QED BY <2>1, <2>2, UnmovedKeeps DEF AfterWork, Unmoved
  <1>3. CASE TaskWakesLoop(r)
    <2>1. loop' = Wakes(loop, r) /\ loop.task[r] = "pushed"
          /\ UNCHANGED <<phase, syncMode, batch, cursor, cb, closing, starts>>
      BY <1>3 DEF TaskWakesLoop, Wakes
    <2>2. AfterWork(loop, loop', Held, Again, Completing, Popped)
      BY <1>1, <2>1, Waking
    <2> QED BY <2>1, <2>2, UnmovedKeeps DEF AfterWork, Unmoved
  <1> QED BY <1>2, <1>3

LEMMA UserClearKeeps ==
  ASSUME SoundUsage, IInv, NEW q \in Sequences, UserClearSequence(q)
  PROVE  IInv'
  <1>1. /\ loop \in Loop /\ Sound(loop, Held, Again, Completing, Popped)
        /\ Null \notin Requests /\ Null \notin Sequences /\ ControlOK
        /\ starts \in 0 .. MaxStarts /\ CallbackInv
    BY Facts DEF IInv
  <1>2. /\ UNCHANGED <<phase, syncMode, batch, cursor, cb, closing, starts>>
        /\ UserCode /\ loop.queue[q] # <<>> /\ loop' = ClearSequence(loop, q)
    BY DEF UserClearSequence
  <1>3. closing = "no"
    BY <1>2 DEF IInv, ClosingInv
  <1>4. Base(loop, Held, Completing, Popped) /\ InTurn(loop, Again, q)
    BY <1>1, AnyIdle DEF Sound
  <1>5. /\ Sound(loop', Held, Again, Completing, Popped)
        /\ \A x \in Requests : loop.state[x] # "Setup" =>
             loop'.state[x] = loop.state[x]
             /\ (x \in loop'.needsTeardown <=> x \in loop.needsTeardown)
        /\ \A x \in Requests : loop'.state[x] # loop.state[x] =>
             loop.state[x] = "Setup" /\ loop'.state[x] = "Free" /\ Waits(loop, x)
        /\ loop'.cancellations = loop.cancellations
        /\ loop'.runningRequest = loop.runningRequest
        /\ loop'.watched = loop.watched
    BY <1>2, <1>4, Cleared
  <1>7. loop'.setting = loop.setting
    BY <1>5 DEF Sound, Base
  <1>8. CallbackInv'
    <2>1. cb.kind # "none" => cb.req \in Requests
      BY <1>1 DEF CallbackInv, ControlOK
    <2>2. cb.again => cb.kind # "none" /\ cb.kind # "error"
      BY <1>1 DEF CallbackInv
    <2>3. cb.kind = "error" => loop'.state[cb.req] = loop.state[cb.req]
      <3> HAVE cb.kind = "error"
      <3>2. ~Waits(loop, cb.req)
        BY <1>1, <2>1 DEF Sound, Base, Placed, Held
      <3> QED BY <1>5, <2>1, <3>2
    <2>4. cb.kind = "complete" /\ ~cb.again =>
            /\ loop'.state[cb.req] \in {"Free", "Setup", "Cancelling"}
            /\ cb.req \in loop.watched /\ Watches(cb.req) => cb.req \in loop'.watched
      BY <1>1, <1>5, <2>1 DEF CallbackInv
    <2>5. cb.again =>
            /\ loop'.state[cb.req] = loop.state[cb.req]
            /\ SequenceOf[cb.req] # Null => loop'.runningRequest[SequenceOf[cb.req]]
                 = loop.runningRequest[SequenceOf[cb.req]]
      BY <1>1, <1>5, <2>1, <2>2 DEF CallbackInv
    <2> QED BY <1>1, <1>2, <1>7, <2>3, <2>4, <2>5, CallbackKept
  <1>9. PhaseInv'
    <2> DEFINE S == {}
    <2>1. KeepsRequests(loop, loop', S) /\ S \in SUBSET Requests
      BY <1>5 DEF KeepsRequests
    <2>3. PhaseInv /\ phase # "poll"
      BY <1>2, UserFacts DEF IInv
    <2>4. \A x \in S : FALSE
      OBVIOUS
    <2> HIDE DEF S
    <2> QED BY <1>1, <1>2, <1>7, <2>1, <2>3, <2>4, PhaseKept
  <1>10. ClosingInv'
    BY <1>2, <1>3, UserFacts, ClosingNo
  <1> QED BY <1>1, <1>2, <1>5, <1>8, <1>9, <1>10, UserReestablished

-----------------------------------------------------------------------------
(* What a callback does to its own request, and its return                 *)

LEMMA AnyAgain ==
  ASSUME NEW held, NEW again, NEW completing, NEW popped, NEW l,
         Sound(l, held, Null, completing, popped), Null \notin Requests
  PROVE  Sound(l, held, again, completing, popped)
  BY DEF Sound, InTurn

LEMMA CallbackReestablished ==
  ASSUME SoundUsage, IInv, UNCHANGED <<phase, syncMode, batch, cursor, closing, starts>>,
         Sound(loop', Held', Again', Completing', Popped),
         CallbackInv', PhaseInv', ClosingInv',
         cb' \in [kind : {"none", "complete", "error", "timer", "close"},
                  req : Requests \cup {Null}, again : BOOLEAN, ok : BOOLEAN]
  PROVE  IInv'
  <1>1. Popped' = Popped
    BY DEF Popped
  <1>2. ControlOK' /\ starts' \in 0 .. MaxStarts
    BY Facts DEF ControlOK
  <1> QED BY <1>1, <1>2, Reestablished

LEMMA ReactivateKeeps ==
  ASSUME SoundUsage, IInv, ReactivateRequest
  PROVE  IInv'
  <1> DEFINE r == cb.req
  <1>1. /\ loop \in Loop /\ Sound(loop, Held, Again, Completing, Popped)
        /\ Null \notin Requests /\ Null \notin Sequences /\ ControlOK
        /\ CallbackInv /\ ClosingInv /\ PhaseInv
    BY Facts DEF IInv
  <1>2. /\ UNCHANGED <<phase, syncMode, batch, cursor, closing, starts>>
        /\ ~cb.again /\ MayReactivate(r) /\ loop' = Reactivated(loop, r)
        /\ cb' = [cb EXCEPT !.again = TRUE] /\ cb.kind \in {"complete", "error", "timer"}
    BY DEF ReactivateRequest
  <1>3. "joinReactivated" \notin Usage /\ "reviveInError" \notin Usage
    BY <1>1, <1>2, SettingFacts DEF Usage, CallbackInv, ControlOK
  <1>4. /\ cb.kind \in {"complete", "timer"} /\ loop.state[r] = "Free"
        /\ SequenceOf[r] \notin loop.runningAsync /\ r \in Requests
        /\ SequenceOf[r] \in Sequences \cup {Null}
    <2>1. r \in Requests
      BY <1>1, <1>2 DEF CallbackInv, ControlOK
    <2> QED BY <1>2, <1>3, <2>1, Facts DEF MayReactivate
  <1>5. closing = "no" /\ phase \in {"timers", "events", "manual", "pool"}
    BY <1>1, <1>4 DEF ClosingInv, CallbackInv
  <1>6. /\ Held = {} /\ Again = Null
        /\ Completing = IF cb.kind = "complete" THEN r ELSE Null
    BY <1>2, <1>4 DEF Held, Again, Completing
  <1>7. /\ cb'.kind = cb.kind /\ cb'.req = r /\ cb'.again /\ cb' # NoCallback
        /\ cb' \in [kind : {"none", "complete", "error", "timer", "close"},
                    req : Requests \cup {Null}, again : BOOLEAN, ok : BOOLEAN]
    BY <1>1, <1>2, <1>4 DEF ControlOK, NoCallback
  <1>8. Held' = {} /\ Again' = r /\ Completing' = Null
    BY <1>4, <1>7 DEF Held, Again, Completing
  <1>8a. Watches(r) => r \in loop.watched /\ cb.kind = "complete"
    BY <1>1, <1>2, <1>4 DEF CallbackInv, Watches
  <1>8b. /\ Kind[r] = loop.setting.kind[r] /\ SequenceOf[r] = loop.setting.sequenceOf[r]
         /\ loop.setting = loop.setting
    BY DEF Kind, SequenceOf
  <1>9. /\ Sound(loop', {}, r, Null, Popped)
        /\ loop'.state[r] = "Reactivate" \/ (loop'.state[r] = "Active" /\ Kind[r] = "readiness")
        /\ \A x \in Requests : x # r => loop'.state[x] = loop.state[x]
        /\ loop'.cancellations = loop.cancellations /\ loop'.needsTeardown = loop.needsTeardown
        /\ SequenceOf[r] # Null =>
             loop'.runningRequest[SequenceOf[r]] = IF loop'.state[r] = "Active" THEN r ELSE Null
    <2>1. CASE Kind[r] # "readiness"
      <3>1. loop' = Revived(loop, r)
        BY <1>2, <1>4, <2>1 DEF Reactivated, Revived
      <3>2. Sound(loop, {}, Null, Completing, Popped) /\ Completing \in {r, Null}
        BY <1>1, <1>6
      <3>3. /\ AfterRequeue(loop, Revived(loop, r), r, r, Null, Popped)
            /\ Revived(loop, r).state[r] = "Reactivate"
        BY <1>4, <1>8a, <1>8b, <3>2, Revives DEF Watches
      <3>4. SequenceOf[r] # Null => loop.runningRequest[SequenceOf[r]] = Null
        BY <1>1, <1>4 DEF Sound, InTurn
      <3>5. Sound(loop', {}, r, Null, Popped) /\ Requeued(loop, loop', r)
            /\ loop'.state[r] = "Reactivate"
        BY <3>1, <3>3 DEF AfterRequeue
      <3> QED BY <3>4, <3>5 DEF Requeued
    <2>2. CASE Kind[r] = "readiness"
      <3> DEFINE held == {}
      <3>1. loop' = ReadyAgain(loop, r)
        BY <1>2, <1>4, <2>2 DEF Reactivated, ReadyAgain
      <3>2. Sound(loop, held, Null, r, Popped) /\ r \in loop.watched
        BY <1>1, <1>6, <1>8a, <2>2 DEF Watches
      <3> HIDE DEF held, r
      <3>3. AfterReadyAgain(loop, ReadyAgain(loop, r), r, held, Popped)
        BY <1>4, <1>8b, <2>2, <3>2, ReactivatedAtOnce
      <3>4. /\ Sound(loop', held, Null, Null, Popped)
            /\ loop'.state = [loop.state EXCEPT ![r] = "Active"]
            /\ loop'.cancellations = loop.cancellations
            /\ loop'.needsTeardown = loop.needsTeardown
            /\ SequenceOf[r] # Null => loop'.runningRequest[SequenceOf[r]] = r
        BY <3>1, <3>3 DEF AfterReadyAgain
      <3>5. Sound(loop', held, r, Null, Popped)
        BY <1>1, <3>4, AnyAgain
      <3>6. loop'.state[r] = "Active" /\ \A x \in Requests : x # r => loop'.state[x] = loop.state[x]
        BY <1>1, <1>4, <3>4 DEF Loop
      <3> QED BY <2>2, <3>4, <3>5, <3>6 DEF held
    <2> QED BY <2>1, <2>2
  <1>10. loop'.setting = loop.setting
    BY <1>9 DEF Sound, Base
  <1>11. CallbackInv'
    <2>1. cb.kind = "complete" =>
            phase \in {"events", "manual", "pool"} /\ \A e \in batch : e.req # r
      BY <1>1 DEF CallbackInv
    <2>2. cb.kind = "timer" => phase = "timers" /\ Kind[r] = "timeout"
      BY <1>1 DEF CallbackInv
    <2>3. SequenceOf' = SequenceOf /\ Kind' = Kind
      BY <1>10 DEF SequenceOf, Kind
    <2> HIDE DEF r
    <2>4. r # Null
      BY <1>1, <1>4
    <2> QED BY <1>2, <1>4, <1>7, <1>9, <2>1, <2>2, <2>3, <2>4 DEF CallbackInv
  <1>12. PhaseInv'
    <2> DEFINE S == {r}
    <2>1. KeepsRequests(loop, loop', S)
      BY <1>9 DEF KeepsRequests
    <2>2. \A x \in S :
            /\ loop'.state[x] # "Cancelling" /\ loop.state[x] # "Active"
            /\ loop.state[x] # "Cancelling"
      BY <1>4, <1>9
    <2>3. PhaseInv /\ phase # "poll" /\ S \in SUBSET Requests
      BY <1>1, <1>4, <1>5
    <2> HIDE DEF S
    <2> QED BY <1>1, <1>2, <1>10, <2>1, <2>2, <2>3, PhaseKept
  <1>13. ClosingInv'
    BY <1>2, <1>5, ClosingNo
  <1> QED BY <1>2, <1>7, <1>8, <1>9, <1>11, <1>12, <1>13, CallbackReestablished

LEMMA WithdrawKeeps ==
  ASSUME SoundUsage, IInv, WithdrawReactivation
  PROVE  IInv'
  <1> DEFINE r == cb.req
             completing == IF cb.kind = "complete" THEN r ELSE Null
  <1>1. /\ loop \in Loop /\ Sound(loop, Held, Again, Completing, Popped)
        /\ Null \notin Requests /\ Null \notin Sequences /\ ControlOK
        /\ CallbackInv /\ ClosingInv /\ PhaseInv
    BY Facts DEF IInv
  <1>2. /\ UNCHANGED <<phase, syncMode, batch, cursor, closing, starts>>
        /\ cb.again /\ "withdraw" \in Usage /\ loop.state[r] \in {"Reactivate", "Active"}
        /\ cb' = [cb EXCEPT !.again = FALSE]
    BY DEF WithdrawReactivation
  <1>3. cb.kind \in {"complete", "timer"} /\ r \in Requests
    BY <1>1, <1>2 DEF CallbackInv, ControlOK
  <1>4. loop.state[r] = "Reactivate"
    <2>1. Kind[r] # "readiness"
      BY <1>1, <1>2, <1>3, SettingFacts DEF Kind, Usage
    <2> QED BY <1>1, <1>2, <2>1 DEF CallbackInv
  <1>5. closing = "no" /\ phase \in {"timers", "events", "manual", "pool"}
    BY <1>1, <1>3 DEF ClosingInv, CallbackInv
  <1>6. Held = {} /\ Again = r /\ Completing = Null
    BY <1>2, <1>3 DEF Held, Again, Completing
  <1>7. /\ cb'.kind = cb.kind /\ cb'.req = r /\ ~cb'.again /\ cb' # NoCallback
        /\ cb' \in [kind : {"none", "complete", "error", "timer", "close"},
                    req : Requests \cup {Null}, again : BOOLEAN, ok : BOOLEAN]
    BY <1>1, <1>2, <1>3 DEF ControlOK, NoCallback
  <1>8. Held' = {} /\ Again' = Null /\ Completing' = completing
    BY <1>3, <1>7 DEF Held, Again, Completing
  <1>9. loop' = Withdrawn(loop, r)
    BY <1>4 DEF WithdrawReactivation, Withdrawn
  <1>10. /\ Sound(loop', {}, Null, completing, Popped) /\ Requeued(loop, loop', r)
         /\ loop'.state[r] = "Free"
    <2>1. Sound(loop, {}, r, Null, Popped)
      BY <1>1, <1>6
    <2>2. loop.setting.sequenceOf[r] # Null =>
            loop.runningRequest[loop.setting.sequenceOf[r]] = Null
      BY <1>1, <1>2, <1>4 DEF CallbackInv, SequenceOf
    <2>3. \/ completing = r
          \/ completing = Null /\ loop.setting.kind[r] \notin {"socket", "readiness"}
      BY <1>1, <1>3 DEF CallbackInv, Kind
    <2> HIDE DEF r, completing
    <2>4. /\ AfterRequeue(loop, Withdrawn(loop, r), r, Null, completing, Popped)
          /\ Withdrawn(loop, r).state[r] = "Free"
      BY <1>3, <1>4, <2>1, <2>2, <2>3, Withdraws
    <2> QED BY <1>9, <2>4 DEF AfterRequeue
  <1>11. loop'.setting = loop.setting
    BY <1>10 DEF Requeued
  <1>12. CallbackInv'
    <2>1. cb.kind = "complete" =>
            phase \in {"events", "manual", "pool"} /\ \A e \in batch : e.req # r
      BY <1>1 DEF CallbackInv
    <2>2. cb.kind = "timer" => phase = "timers" /\ Kind[r] = "timeout"
      BY <1>1 DEF CallbackInv
    <2>3. SequenceOf' = SequenceOf /\ Kind' = Kind
      BY <1>11 DEF SequenceOf, Kind
    <2>4. r # Null
      BY <1>1, <1>3
    <2>5. Watches(r) => r \in loop'.watched
      BY <1>1, <1>3, <1>4, <1>10 DEF Requeued, Sound, Base, Registered, Watches, Kind
    <2> HIDE DEF r
    <2> QED BY <1>2, <1>3, <1>7, <1>10, <2>1, <2>2, <2>3, <2>4, <2>5 DEF CallbackInv, Watches
  <1>13. PhaseInv'
    <2> DEFINE S == {r}
    <2>1. KeepsRequests(loop, loop', S)
      BY <1>10 DEF KeepsRequests, Requeued
    <2>2. \A x \in S :
            /\ loop'.state[x] # "Cancelling" /\ loop.state[x] # "Active"
            /\ loop.state[x] # "Cancelling"
      BY <1>4, <1>10
    <2>3. PhaseInv /\ phase # "poll" /\ S \in SUBSET Requests
      BY <1>1, <1>3, <1>5
    <2> HIDE DEF S
    <2> QED BY <1>1, <1>2, <1>11, <2>1, <2>2, <2>3, PhaseKept
  <1>14. ClosingInv'
    BY <1>2, <1>5, ClosingNo
  <1> QED BY <1>2, <1>7, <1>8, <1>10, <1>12, <1>13, <1>14, CallbackReestablished

LEMMA ReturnKeeps ==
  ASSUME SoundUsage, IInv, Return
  PROVE  IInv'
  <1> DEFINE r == cb.req
  <1>1. /\ loop \in Loop /\ Sound(loop, Held, Again, Completing, Popped)
        /\ Null \notin Requests /\ Null \notin Sequences /\ ControlOK
        /\ CallbackInv /\ ClosingInv /\ PhaseInv
    BY Facts DEF IInv
  <1>2. /\ UNCHANGED <<phase, syncMode, batch, cursor, closing, starts>>
        /\ cb # NoCallback /\ cb' = NoCallback
    BY DEF Return
  <1>3. r \in Requests /\ cb.kind \in {"complete", "error", "timer", "close"}
    BY <1>1, <1>2 DEF CallbackInv, ControlOK
  <1>4. /\ Held' = {} /\ Again' = Null /\ Completing' = Null
        /\ cb' \in [kind : {"none", "complete", "error", "timer", "close"},
                    req : Requests \cup {Null}, again : BOOLEAN, ok : BOOLEAN]
        /\ CallbackInv'
    BY <1>2 DEF Held, Again, Completing, NoCallback, CallbackInv
  <1>5. CASE cb.kind \in {"complete", "error"}
    <2>1. AfterReturn(loop, loop', r, Popped)
      BY <1>5, CompletionEnds, ErrorEnds DEF Return
    <2>2. Sound(loop', {}, Null, Null, Popped) /\ Keeps(loop, loop', {r})
          /\ (loop'.state[r] = loop.state[r] \/ loop'.state[r] = "Free")
          /\ loop'.setting = loop.setting
      BY <2>1 DEF AfterReturn, Sound, Base
    <2>3. closing = "no" /\ phase \in {"submit", "events", "manual", "pool"}
          /\ \A e \in batch : e.req # r
      <3>1. CASE cb.kind = "complete"
        BY <1>1, <3>1 DEF ClosingInv, CallbackInv
      <3>2. CASE cb.kind = "error"
        BY <1>1, <3>2 DEF ClosingInv, CallbackInv, PhaseInv
      <3> QED BY <1>5, <3>1, <3>2
    <2>4. PhaseInv'
      <3> DEFINE S == {r}
      <3>1. KeepsRequests(loop, loop', S)
        BY <2>2 DEF KeepsRequests, Keeps
      <3>2. phase \in {"polled"} \cup Dispatching /\ Kind[r] = "work"
              /\ loop'.state[r] = "Cancelling" => Contains(loop'.cancellations, r)
        BY <1>1, <1>3, <2>2 DEF PhaseInv, Keeps
      <3>3. \A x \in S :
              /\ phase \in {"polled"} \cup Dispatching /\ Kind[x] = "work"
                 /\ loop'.state[x] = "Cancelling" => Contains(loop'.cancellations, x)
              /\ \A e \in batch : e.req # x
        BY <2>3, <3>2
      <3>4. phase # "poll" /\ S \in SUBSET Requests
        BY <1>3, <2>3
      <3> HIDE DEF S
      <3> QED BY <1>1, <1>2, <2>2, <3>1, <3>3, <3>4, PhaseKept
    <2>5. ClosingInv'
      BY <1>2, <2>3, ClosingNo
    <2> QED BY <1>2, <1>4, <2>2, <2>4, <2>5, CallbackReestablished
  <1>6. CASE cb.kind \in {"timer", "close"}
    <2>1. loop' = loop
      BY <1>6 DEF Return
    <2>2. Held = {} /\ Completing = Null
      BY <1>6 DEF Held, Completing
    <2>3. Sound(loop, {}, Null, Null, Popped)
      <3>1. CASE ~cb.again
        BY <1>1, <2>2, <3>1 DEF Again
      <3>2. CASE cb.again
        <4>1. cb.kind = "timer" /\ Kind[r] = "timeout" /\ Again = r
          BY <1>1, <1>6, <3>2 DEF CallbackInv, Again
        <4>2. loop.setting.sequenceOf[r] = Null
          BY <1>1, <1>3, <4>1, SettingFacts DEF Kind
        <4>3. InTurn(loop, Null, Null)
          BY <1>1, <4>1, <4>2 DEF Sound, InTurn
        <4> QED BY <1>1, <2>2, <4>3 DEF Sound
      <3> QED BY <3>1, <3>2
    <2>4. PhaseInv'
      BY <1>1, <1>2, <2>1 DEF PhaseInv, Watches, Kind, Dispatching
    <2>5. ClosingInv'
      BY <1>1, <1>2, <2>1, ClosingKept
    <2> QED BY <1>2, <1>4, <2>1, <2>3, <2>4, <2>5, CallbackReestablished
  <1> QED BY <1>3, <1>5, <1>6

-----------------------------------------------------------------------------
(* The thread of the loop: steps that call nobody                          *)

LEMMA QuietFacts ==
  ASSUME SoundUsage, IInv, cb = NoCallback
  PROVE  /\ loop \in Loop /\ ControlOK /\ starts \in 0 .. MaxStarts
         /\ Sound(loop, {}, Null, Null, Popped)
         /\ PhaseInv /\ ClosingInv /\ loop.setting = loop.setting
         /\ Null \notin Requests /\ Null \notin Sequences
  BY Facts DEF IInv

LEMMA QuietReestablished ==
  ASSUME SoundUsage, IInv, cb' = NoCallback, starts' = starts, ControlOK',
         Sound(loop', {}, Null, Null, Popped'), PhaseInv', ClosingInv'
  PROVE  IInv'
  <1>1. Held' = {} /\ Again' = Null /\ Completing' = Null
    BY DEF Held, Again, Completing, NoCallback
  <1>2. CallbackInv'
    BY DEF CallbackInv, NoCallback
  <1>3. starts' \in 0 .. MaxStarts
    BY Facts
  <1> QED BY <1>1, <1>2, <1>3, Reestablished

\* Nobody is left outside the two lists.
LEMMA EverybodyFree ==
  ASSUME NEW l, NEW popped,
         Sound(l, {}, Null, Null, popped), l.submissions = <<>>, l.cancellations = <<>>,
         \A r \in Requests : l.state[r] \in {"Free", "Cancelling"}
  PROVE  /\ \A r \in Requests : l.state[r] = "Free"
         /\ \A r \in Requests : l.task[r] = "idle"
  <1>1. \A x : ~Contains(l.submissions, x) /\ ~Contains(l.cancellations, x)
    BY NothingListed
  <1>2. \A r \in Requests : l.state[r] = "Free"
    BY <1>1 DEF Sound, Base, Placed
  <1>3. \A r \in Requests : l.task[r] = "idle"
    BY <1>2 DEF Sound, Base, Tasked
  <1> QED BY <1>2, <1>3

LEMMA RunStepKeeps ==
  ASSUME SoundUsage, IInv, RunStep
  PROVE  IInv'
  <1>1. /\ cb = NoCallback /\ cb' = NoCallback /\ starts' = starts /\ phase = "idle"
        /\ phase' = "submit" /\ UNCHANGED <<loop, batch, cursor>>
        /\ closing \in {"no", "run", "ran"} /\ syncMode' \in {"NoWait", "Forced"}
        /\ closing' = IF closing = "run" THEN "ran" ELSE closing
    BY DEF RunStep, Running, TestsWork
  <1>2. /\ loop \in Loop /\ ControlOK /\ Sound(loop, {}, Null, Null, Popped)
        /\ PhaseInv /\ ClosingInv
    BY <1>1, QuietFacts
  <1>3. Popped' = Popped
    BY <1>1 DEF Popped
  <1>4. PhaseInv'
    BY <1>1, <1>2 DEF PhaseInv, Dispatching, ControlOK
  <1>5. ClosingInv'
    BY <1>1, <1>2 DEF ClosingInv, PhaseInv, NoCallback, SequenceOf
  <1>6. ControlOK'
    BY <1>1, <1>2 DEF ControlOK, ClosingStages
  <1> QED BY <1>1, <1>2, <1>3, <1>4, <1>5, <1>6, QuietReestablished

LEMMA RunReturnsKeeps ==
  ASSUME SoundUsage, IInv, RunReturns
  PROVE  IInv'
  <1>1. /\ cb = NoCallback /\ cb' = NoCallback /\ starts' = starts /\ phase = "idle"
        /\ phase' = "cancel" /\ UNCHANGED <<syncMode, batch>> /\ closing \in {"no", "ran"}
        /\ closing' = IF closing = "ran" THEN "end" ELSE closing
        /\ loop' = [loop EXCEPT !.interrupted = FALSE]
        /\ cursor' = IF loop.cancellations = <<>> THEN Null ELSE Head(loop.cancellations)
    BY DEF RunReturns, Running
  <1>2. /\ loop \in Loop /\ ControlOK /\ Sound(loop, {}, Null, Null, Popped)
        /\ PhaseInv /\ ClosingInv
    BY <1>1, QuietFacts
  <1>3. Popped' = Popped
    BY <1>1 DEF Popped
  <1>4. Sound(loop', {}, Null, Null, Popped') /\ Unmoved(loop, loop')
    <2>1. loop.wake \in BOOLEAN /\ loop.runTimers \in BOOLEAN
      BY <1>2 DEF Loop
    <2>2. loop' = Flagged(loop, loop.wake, loop.runTimers, FALSE)
      BY <1>1, <1>2 DEF Flagged, Loop
    <2> QED BY <1>2, <1>3, <2>1, <2>2, FlagsSound
  <1>5. loop'.setting = loop.setting
    BY <1>4 DEF Sound, Base
  <1>6. loop.cancellations # <<>> =>
          Contains(loop.cancellations, Head(loop.cancellations))
          /\ Head(loop.cancellations) \in Requests
    <2>1. loop.cancellations \in Seq(Requests) /\ IsInjective(loop.cancellations)
      BY <1>2 DEF Sound, Base, Placed, Loop
    <2> QED BY <2>1, HeadTaken
  <1>7. batch = {} /\ cursor = Null
    BY <1>1, <1>2 DEF PhaseInv, ControlOK
  <1>8. PhaseInv'
    BY <1>1, <1>4, <1>6, <1>7 DEF PhaseInv, Dispatching, Unmoved
  <1>9. ClosingInv'
    BY <1>1, <1>2, <1>4, <1>5, <1>6, <1>7, QuietFacts
       DEF ClosingInv, NoCallback, SequenceOf, Unmoved
  <1>10. ControlOK'
    BY <1>1, <1>2, <1>6 DEF ControlOK, ClosingStages
  <1> QED BY <1>1, <1>4, <1>8, <1>9, <1>10, QuietReestablished

LEMMA SubmitDoneKeeps ==
  ASSUME SoundUsage, IInv, SubmitDone
  PROVE  IInv'
  <1>1. /\ cb = NoCallback /\ cb' = NoCallback /\ starts' = starts /\ phase = "submit"
        /\ phase' = "poll" /\ UNCHANGED <<loop, syncMode, batch, cursor, closing>>
        /\ loop.submissions = <<>>
    BY DEF SubmitDone, Running
  <1>2. /\ loop \in Loop /\ ControlOK /\ Sound(loop, {}, Null, Null, Popped)
        /\ PhaseInv /\ ClosingInv
    BY <1>1, QuietFacts
  <1>3. Popped' = Popped
    BY <1>1 DEF Popped
  <1>4. \A r \in Requests : loop.state[r] = "Cancelling" => Contains(loop.cancellations, r)
    BY <1>1, <1>2, NothingListed DEF Sound, Base, Placed
  <1>5. batch = {} /\ cursor = Null
    BY <1>1, <1>2 DEF PhaseInv, ControlOK
  <1>6. PhaseInv'
    BY <1>1, <1>4, <1>5 DEF PhaseInv
  <1>7. ClosingInv'
    BY <1>1, <1>2 DEF ClosingInv, SequenceOf
  <1>8. ControlOK'
    BY <1>1, <1>2 DEF ControlOK
  <1> QED BY <1>1, <1>2, <1>3, <1>6, <1>7, <1>8, QuietReestablished

LEMMA DispatchKeeps ==
  ASSUME SoundUsage, IInv, DispatchCompletions
  PROVE  IInv'
  <1>1. /\ cb = NoCallback /\ cb' = NoCallback /\ starts' = starts /\ phase = "polled"
        /\ UNCHANGED <<syncMode, cursor, closing>>
        /\ \/ phase' = "idle" /\ batch' = {}
           \/ phase' \in {"timers", "events"} /\ batch' = batch
        /\ \/ loop' = loop
           \/ loop' = [loop EXCEPT !.runTimers = IF syncMode = "NoWait" THEN @ ELSE FALSE]
    BY DEF DispatchCompletions, Running
  <1>2. /\ loop \in Loop /\ ControlOK /\ Sound(loop, {}, Null, Null, Popped)
        /\ PhaseInv /\ ClosingInv
    BY <1>1, QuietFacts
  <1>3. Popped' = Popped
    BY <1>1 DEF Popped
  <1>4. Sound(loop', {}, Null, Null, Popped') /\ Unmoved(loop, loop')
    <2>1. CASE loop' = loop
      BY <1>2, <1>3, <2>1 DEF Unmoved
    <2>2. CASE loop' = [loop EXCEPT !.runTimers = IF syncMode = "NoWait" THEN @ ELSE FALSE]
      <3> DEFINE t == IF syncMode = "NoWait" THEN loop.runTimers ELSE FALSE
      <3>1. loop.wake \in BOOLEAN /\ t \in BOOLEAN /\ loop.interrupted \in BOOLEAN
        BY <1>2 DEF Loop
      <3>2. loop' = Flagged(loop, loop.wake, t, loop.interrupted)
        BY <1>2, <2>2 DEF Flagged, Loop
      <3> HIDE DEF t
      <3> QED BY <1>2, <1>3, <3>1, <3>2, FlagsSound
    <2> QED BY <1>1, <2>1, <2>2
  <1>5. loop'.setting = loop.setting
    BY <1>4 DEF Sound, Base
  <1>6. PhaseInv'
    BY <1>1, <1>2, <1>4, <1>5 DEF PhaseInv, Dispatching, Unmoved, Watches, Kind
  <1>7. ClosingInv'
    BY <1>1, <1>2, <1>4, <1>5 DEF ClosingInv, SequenceOf, Unmoved
  <1>8. ControlOK'
    BY <1>1, <1>2 DEF ControlOK
  <1> QED BY <1>1, <1>4, <1>6, <1>7, <1>8, QuietReestablished

LEMMA PhaseDoneKeeps ==
  ASSUME SoundUsage, IInv, PhaseDone
  PROVE  IInv'
  <1>1. /\ cb = NoCallback /\ cb' = NoCallback /\ starts' = starts
        /\ UNCHANGED <<loop, syncMode, batch, closing>>
        /\ \/ phase = "timers" /\ phase' = "events" /\ cursor' = cursor
           \/ phase = "events" /\ batch = {} /\ phase' = "manual" /\ cursor' = cursor
           \/ phase = "manual" /\ phase' = "pool" /\ cursor' = cursor
           \/ /\ phase = "pool" /\ phase' = "cancel"
              /\ cursor' = IF loop.cancellations = <<>> THEN Null ELSE Head(loop.cancellations)
           \/ phase = "cancel" /\ cursor = Null /\ phase' = "idle" /\ cursor' = cursor
    BY DEF PhaseDone, Running
  <1>2. /\ loop \in Loop /\ ControlOK /\ Sound(loop, {}, Null, Null, Popped)
        /\ PhaseInv /\ ClosingInv
    BY <1>1, QuietFacts
  <1>3. Popped' = Popped
    BY <1>1 DEF Popped
  <1>4. loop.cancellations # <<>> =>
          Contains(loop.cancellations, Head(loop.cancellations))
          /\ Head(loop.cancellations) \in Requests
    <2>1. loop.cancellations \in Seq(Requests) /\ IsInjective(loop.cancellations)
      BY <1>2 DEF Sound, Base, Placed, Loop
    <2> QED BY <2>1, HeadTaken
  <1>5. PhaseInv'
    BY <1>1, <1>2, <1>4 DEF PhaseInv, Dispatching, Watches, Kind
  <1>6. ClosingInv'
    BY <1>1, <1>2 DEF ClosingInv, SequenceOf
  <1>7. ControlOK'
    BY <1>1, <1>2, <1>4 DEF ControlOK
  <1> QED BY <1>1, <1>2, <1>3, <1>5, <1>6, <1>7, QuietReestablished

LEMMA CloseDoneKeeps ==
  ASSUME SoundUsage, IInv, CloseDone
  PROVE  IInv'
  <1>1. /\ cb = NoCallback /\ cb' = NoCallback /\ starts' = starts /\ phase = "idle"
        /\ phase' = "closed" /\ closing' = "no" /\ UNCHANGED <<loop, syncMode, batch, cursor>>
        /\ closing = "end" \/ (closing \in {"run", "ran"} /\ ~WorkLeft)
    BY DEF CloseDone, Running, TestsWork
  <1>2. /\ loop \in Loop /\ ControlOK /\ Sound(loop, {}, Null, Null, Popped)
        /\ PhaseInv /\ ClosingInv
    BY <1>1, QuietFacts
  <1>3. batch = {} /\ cursor = Null
    BY <1>1, <1>2 DEF PhaseInv, ControlOK
  <1>4. loop.submissions = <<>> /\ loop.cancellations = <<>>
    BY <1>1, <1>2, <1>3 DEF ClosingInv, WorkLeft
  <1>5. \A r \in Requests : loop.state[r] \in {"Free", "Cancelling"}
    BY <1>1, <1>2 DEF ClosingInv
  <1>6. /\ \A r \in Requests : loop.state[r] = "Free"
        /\ \A r \in Requests : loop.task[r] = "idle"
    BY <1>2, <1>4, <1>5, EverybodyFree
  <1>7. Sound(loop', {}, Null, Null, Popped')
    <2>1. Tasked(loop, Popped')
      BY <1>2, <1>6 DEF Sound, Base, Tasked
    <2> QED BY <1>1, <1>2, <2>1 DEF Sound, Base
  <1>8. PhaseInv'
    BY <1>1, <1>3 DEF PhaseInv, Dispatching
  <1>9. ClosingInv'
    BY <1>1, <1>6 DEF ClosingInv
  <1>10. ControlOK'
    BY <1>1, <1>2 DEF ControlOK, ClosingStages
  <1> QED BY <1>1, <1>7, <1>8, <1>9, <1>10, QuietReestablished

LEMMA ReopenKeeps ==
  ASSUME SoundUsage, IInv, Reopen
  PROVE  IInv'
  <1>0. ClosingInv /\ phase = "closed"
    BY DEF IInv, Reopen
  <1>1. /\ cb = NoCallback /\ cb' = NoCallback /\ starts' = starts
        /\ phase' = "idle" /\ UNCHANGED <<syncMode, batch, cursor, closing>> /\ closing = "no"
        /\ loop' = [loop EXCEPT !.watched = {}]
        /\ \A r \in Requests : loop.state[r] = "Free"
    BY <1>0 DEF Reopen, ClosingInv
  <1>2. /\ loop \in Loop /\ ControlOK /\ Sound(loop, {}, Null, Null, Popped) /\ PhaseInv
    BY <1>1, QuietFacts
  <1> DEFINE m == [loop EXCEPT !.watched = {}]
  <1>3. m \in Loop /\ Alike(loop, m) /\ m.watched = {} /\ m.state = loop.state
    BY <1>2 DEF Loop, Alike
  <1> HIDE DEF m
  <1>4. Registered(m, Null)
    BY <1>1, <1>3 DEF Registered
  <1>5. Sound(m, {}, Null, Null, Popped)
    BY <1>2, <1>3, <1>4, AlikeSound
  <1>6. Popped' = Popped
    BY <1>1 DEF Popped
  <1>7. batch = {} /\ cursor = Null
    BY <1>0, <1>2 DEF PhaseInv, ControlOK
  <1>8. PhaseInv'
    BY <1>1, <1>7 DEF PhaseInv, Dispatching
  <1>9. ClosingInv'
    BY <1>1, ClosingNo
  <1>10. ControlOK'
    BY <1>1, <1>2 DEF ControlOK
  <1> QED BY <1>1, <1>5, <1>6, <1>8, <1>9, <1>10, QuietReestablished DEF m

-----------------------------------------------------------------------------
(* close()                                                                 *)

\* The first request of a list that is stopped, if one is to be stopped at all.
LEMMA FirstIsFound ==
  ASSUME NEW s \in Seq(Requests), NEW r \in Requests, Contains(s, r), Stoppable(r)
  PROVE  \E x \in Requests : FirstToStop(s, x)
  <1> DEFINE T == {i \in 1 .. Len(s) : Stoppable(s[i])}
             R == {ss \in Nat \X Nat : ss[1] < ss[2]}
  <1>1. Len(s) \in Nat /\ DOMAIN s = 1 .. Len(s) /\ \A i \in 1 .. Len(s) : s[i] \in Requests
    BY LenProperties, ElementOfSeq
  <1>2. T \subseteq Nat /\ T # {}
    BY <1>1 DEF Contains
  <1>3. IsWellFoundedOn(R, Nat)
    BY NatLessThanWellFounded DEF OpToRel
  <1> HIDE DEF T
  <1>4. PICK i \in T : \A j \in T : ~(<<j, i>> \in R)
    <2> HIDE DEF R
    <2> QED BY <1>2, <1>3, WFMin
  <1>5. \A j \in T : ~(j < i)
    BY <1>2, <1>4
  <1>6. i \in 1 .. Len(s) /\ Stoppable(s[i]) /\ \A j \in 1 .. i - 1 : ~Stoppable(s[j])
    BY <1>1, <1>5 DEF T
  <1> QED BY <1>1, <1>6 DEF FirstToStop

LEMMA CloseKeeps ==
  ASSUME SoundUsage, IInv, Close
  PROVE  IInv'
  <1>1. /\ cb = NoCallback /\ cb' = NoCallback /\ starts' = starts /\ phase = "idle"
        /\ phase' = "idle" /\ UNCHANGED <<syncMode, batch, cursor>> /\ closing = "no"
        /\ loop' = ClearTracked(loop) /\ closing' = "submissions"
    BY DEF Close, Running
  <1>2. /\ loop \in Loop /\ ControlOK /\ Sound(loop, {}, Null, Null, Popped) /\ PhaseInv
    BY <1>1, QuietFacts
  <1>3. AfterClear(loop, loop', Popped)
    BY <1>1, <1>2, TrackedCleared
  <1>4. Sound(loop', {}, Null, Null, Popped) /\ \A p \in Sequences : loop'.queue[p] = <<>>
    BY <1>3 DEF AfterClear
  <1>5. Popped' = Popped
    BY <1>1 DEF Popped
  <1>6. batch = {} /\ cursor = Null
    BY <1>1, <1>2 DEF PhaseInv, ControlOK
  <1>7. PhaseInv'
    BY <1>1, <1>6 DEF PhaseInv, Dispatching
  <1>8. ClosingInv'
    BY <1>1, <1>4, <1>6 DEF ClosingInv, NoCallback
  <1>9. ControlOK'
    BY <1>1, <1>2 DEF ControlOK, ClosingStages
  <1> QED BY <1>1, <1>4, <1>5, <1>7, <1>8, <1>9, QuietReestablished

\* What is stopped is in the hands of the loop, so that it can be stopped.
LEMMA OneStopped ==
  ASSUME SoundUsage, IInv, NEW r \in Requests, Stoppable(r),
         closing \in {"submissions", "sequences", "active", "manual"}
  PROVE  /\ AfterRequestStop(loop, StopRequest(loop, r), r, {}, Null, Null, Popped)
         /\ \A p \in Sequences : loop.queue[p] = <<>>
         /\ \A x \in Requests : ~Waits(loop, x)
  <1>1. cb = NoCallback /\ \A p \in Sequences : loop.queue[p] = <<>>
    BY DEF IInv, ClosingInv
  <1>2. /\ loop \in Loop /\ Sound(loop, {}, Null, Null, Popped) /\ loop.setting = loop.setting
        /\ Null \notin Requests
    BY <1>1, QuietFacts
  <1>3. \A x \in Requests : ~Waits(loop, x)
    <2>1. \A x \in Requests : loop.setting.sequenceOf[x] \in Sequences \cup {Null}
      BY <1>2, SettingFacts
    <2> QED BY <1>1, <2>1, NothingListed DEF Waits
  <1>4. loop.state[r] \in {"Setup", "Active", "Reactivate"}
    <2>1. loop.state[r] \in States /\ loop.state[r] # "Submitting"
      BY <1>2 DEF Sound, Base, Placed, Loop
    <2> QED BY <2>1 DEF Stoppable, States
  <1> DEFINE held == {}  again == Null
  <1>5. Sound(loop, held, again, again, Popped) /\ again \in Requests \cup {Null} /\ r \notin held
    BY <1>2
  <1> HIDE DEF held, again
  <1>6. AfterRequestStop(loop, StopRequest(loop, r), r, held, again, again, Popped)
    BY <1>2, <1>3, <1>4, <1>5, RequestStopped
  <1> QED BY <1>1, <1>3, <1>6 DEF held, again

LEMMA StoppedByClose ==
  ASSUME SoundUsage, IInv, NEW r \in Requests, Stoppable(r),
         closing \in {"submissions", "sequences", "active", "manual"},
         loop' = StopRequest(loop, r),
         UNCHANGED <<phase, syncMode, batch, cursor, cb, closing, starts>>
  PROVE  IInv'
  <1>0. IInv /\ ClosingInv /\ phase = "idle" /\ cb = NoCallback /\ cb' = NoCallback
    BY DEF IInv, ClosingInv
  <1>1. /\ loop \in Loop /\ ControlOK /\ PhaseInv
        /\ AfterRequestStop(loop, loop', r, {}, Null, Null, Popped)
        /\ \A p \in Sequences : loop.queue[p] = <<>>
        /\ \A x \in Requests : ~Waits(loop, x)
    BY <1>0, QuietFacts, OneStopped
  <1>2. /\ Sound(loop', {}, Null, Null, Popped) /\ loop'.state[r] = "Cancelling"
        /\ \A x \in Requests : x # r => loop'.state[x] = loop.state[x]
        /\ \A p \in Sequences : loop'.queue[p] = <<>>
        /\ loop.state[r] = "Active" => loop'.manual = loop.manual \ {r}
        /\ loop'.setting = loop.setting
    BY <1>1 DEF AfterRequestStop, Keeps, Sound, Base
  <1>3. Popped' = Popped
    BY DEF Popped
  <1>4. batch = {} /\ cursor = Null
    BY <1>0, <1>1 DEF PhaseInv, ControlOK
  <1>5. PhaseInv'
    BY <1>0, <1>4 DEF PhaseInv, Dispatching
  <1>6. closing = "manual" => loop.state[r] = "Active"
    BY <1>0 DEF ClosingInv, Stoppable
  <1>7. ClosingInv'
    <2>1. closing # "submissions" => \A x \in Requests :
            loop'.state[x] \in {"Free", "Active", "Cancelling"}
      BY <1>0, <1>2 DEF ClosingInv
    <2>2. closing \in {"active", "manual"} => \A x \in Requests :
            loop'.state[x] = "Active" => SequenceOf[x] = Null
      BY <1>0, <1>2 DEF ClosingInv
    <2>3. closing = "manual" => \A x \in Requests :
            loop'.state[x] = "Active" => x \in loop'.manual
      BY <1>0, <1>2, <1>6 DEF ClosingInv
    <2>4. SequenceOf' = SequenceOf
      BY <1>2 DEF SequenceOf
    <2>5. \A e \in batch : e.req = Null
      BY <1>4
    <2> QED BY <1>0, <1>2, <2>1, <2>2, <2>3, <2>4, <2>5 DEF ClosingInv, NoCallback
  <1>8. ControlOK'
    BY <1>1 DEF ControlOK
  <1> QED BY <1>0, <1>2, <1>3, <1>5, <1>7, <1>8, QuietReestablished

\* A stage ends when it finds nothing more to stop.
LEMMA StageDone ==
  ASSUME SoundUsage, IInv, ToStop = {},
         closing \in {"submissions", "sequences", "active", "manual"}
  PROVE  /\ closing = "submissions" => \A r \in Requests :
              loop.state[r] \in {"Free", "Active", "Cancelling"}
         /\ closing = "sequences" => \A r \in Requests :
              loop.state[r] = "Active" => SequenceOf[r] = Null
         /\ closing = "active" => \A r \in Requests :
              loop.state[r] = "Active" => r \in loop.manual
         /\ closing = "manual" => \A r \in Requests : loop.state[r] \in {"Free", "Cancelling"}
  <1>0. ClosingInv /\ cb = NoCallback /\ \A p \in Sequences : loop.queue[p] = <<>>
    BY DEF IInv, ClosingInv
  <1>1. /\ loop \in Loop /\ Sound(loop, {}, Null, Null, Popped)
        /\ Null \notin Requests /\ Null \notin Sequences
    BY <1>0, QuietFacts
  <1>2. \A r \in Requests : SequenceOf[r] \in Sequences \cup {Null} /\ ~Waits(loop, r)
    <2>1. \A x \in Requests : loop.setting.sequenceOf[x] \in Sequences \cup {Null}
      BY <1>1, SettingFacts
    <2> QED BY <1>0, <2>1, NothingListed DEF Waits, SequenceOf
  <1>3. /\ loop.submissions \in Seq(Requests) /\ loop.manualCompletions \in Seq(Requests)
        /\ \A r \in Requests : loop.state[r] \in States
    BY <1>1 DEF Loop
  <1>4. ASSUME closing = "submissions", NEW r \in Requests
        PROVE  loop.state[r] \in {"Free", "Active", "Cancelling"}
    <2>1. CASE loop.state[r] \in {"Setup", "Reactivate"}
      <3>1. Contains(loop.submissions, r) /\ Stoppable(r)
        BY <1>1, <1>2, <2>1 DEF Sound, Base, Placed, Stoppable
      <3>2. \E x \in Requests : FirstToStop(loop.submissions, x)
        BY <1>3, <3>1, FirstIsFound
      <3> QED BY <1>4, <3>2 DEF ToStop
    <2>2. loop.state[r] # "Submitting"
      BY <1>1 DEF Sound, Base, Placed
    <2> QED BY <1>3, <2>1, <2>2 DEF States
  <1>5. ASSUME closing = "sequences", NEW r \in Requests, loop.state[r] = "Active",
               SequenceOf[r] # Null
        PROVE  FALSE
    <2> DEFINE q == SequenceOf[r]
    <2>1. q \in Sequences /\ OnItsWay(loop, r)
      BY <1>2, <1>5 DEF OnItsWay
    <2>2. loop.runningRequest[q] = r
      BY <1>1, <1>5, <2>1 DEF Sound, InTurn, SequenceOf
    <2>3. q \in loop.tracked
      BY <1>1, <2>1, <2>2 DEF Sound, InTurn
    <2>4. r \in RunningOfSequences /\ Stoppable(r)
      BY <1>1, <1>5, <2>2, <2>3 DEF RunningOfSequences, Stoppable
    <2> QED BY <1>5, <2>4 DEF ToStop
  <1>6. ASSUME closing = "active", NEW r \in Requests, loop.state[r] = "Active",
               r \notin loop.manual
        PROVE  FALSE
    <2>1. SequenceOf[r] = Null
      BY <1>0, <1>6 DEF ClosingInv
    <2>2. r \in loop.listed /\ Stoppable(r)
      BY <1>1, <1>6, <2>1 DEF Sound, Base, Placed, Stoppable, SequenceOf
    <2> QED BY <1>6, <2>2 DEF ToStop
  <1>7. ASSUME closing = "manual", NEW r \in Requests
        PROVE  loop.state[r] \in {"Free", "Cancelling"}
    <2>1. CASE loop.state[r] = "Active"
      <3>1. r \in loop.manual
        BY <1>0, <1>7, <2>1 DEF ClosingInv
      <3>2. Contains(loop.manualCompletions, r) /\ Stoppable(r)
        BY <1>1, <2>1, <3>1 DEF Sound, Base, Placed, Stoppable
      <3>3. \E x \in Requests : FirstToStop(loop.manualCompletions, x)
        BY <1>3, <3>2, FirstIsFound
      <3> QED BY <1>7, <3>3 DEF ToStop
    <2> QED BY <1>0, <1>7, <2>1 DEF ClosingInv
  <1> QED BY <1>4, <1>5, <1>6, <1>7

LEMMA StageAdvances ==
  ASSUME SoundUsage, IInv, ToStop = {}, loop' = loop, closing' = AfterStage,
         closing \in {"submissions", "sequences", "active", "manual"},
         UNCHANGED <<phase, syncMode, batch, cursor, cb, starts>>
  PROVE  IInv'
  <1>0. IInv /\ ClosingInv /\ phase = "idle" /\ cb = NoCallback /\ cb' = NoCallback
    BY DEF IInv, ClosingInv
  <1>1. /\ loop \in Loop /\ ControlOK /\ Sound(loop, {}, Null, Null, Popped) /\ PhaseInv
    BY <1>0, QuietFacts
  <1>2. batch = {} /\ cursor = Null
    BY <1>0, <1>1 DEF PhaseInv, ControlOK
  <1>3. PhaseInv'
    BY <1>0, <1>2 DEF PhaseInv, Dispatching
  <1>4. Sound(loop', {}, Null, Null, Popped')
    <2>1. Popped' = Popped \/ Popped' = TRUE
      BY DEF Popped, AfterStage
    <2>2. Sound(loop, {}, Null, Null, TRUE)
      BY <1>1, PoppedStays
    <2> QED BY <1>1, <2>1, <2>2
  <1>5. closing' = CASE closing = "submissions" -> "sequences"
                     [] closing = "sequences"   -> "pool"
                     [] closing = "active"      -> "manual"
                     [] closing = "manual"      -> "run"
    BY DEF AfterStage
  <1>6. ClosingInv'
    <2>1. CASE closing = "submissions"
      BY <1>0, <1>5, <2>1, StageDone DEF ClosingInv, NoCallback
    <2>2. CASE closing = "sequences"
      BY <1>0, <1>5, <2>2, StageDone DEF ClosingInv, NoCallback, SequenceOf
    <2>3. CASE closing = "active"
      BY <1>0, <1>5, <2>3, StageDone DEF ClosingInv, NoCallback, SequenceOf
    <2>4. CASE closing = "manual"
      BY <1>0, <1>5, <2>4, StageDone DEF ClosingInv, NoCallback, SequenceOf
    <2> QED BY <2>1, <2>2, <2>3, <2>4
  <1>7. ControlOK'
    BY <1>1, <1>5 DEF ControlOK, ClosingStages
  <1> QED BY <1>0, <1>3, <1>4, <1>6, <1>7, QuietReestablished

LEMMA CloseStopsKeeps ==
  ASSUME SoundUsage, IInv, CloseStops
  PROVE  IInv'
  <1>1. /\ closing \in {"submissions", "sequences", "active", "manual"}
        /\ UNCHANGED <<phase, syncMode, batch, cursor, cb, starts>>
    BY DEF CloseStops
  <1>2. CASE ToStop = {} /\ closing' = AfterStage /\ UNCHANGED loop
    BY <1>1, <1>2, StageAdvances
  <1>3. ASSUME NEW r \in ToStop, loop' = StopRequest(loop, r), UNCHANGED closing
        PROVE  IInv'
    <2>1. r \in Requests /\ Stoppable(r)
      BY <1>3, <1>1 DEF ToStop, FirstToStop
    <2> QED BY <1>1, <1>3, <2>1, StoppedByClose
  <1> QED BY <1>2, <1>3 DEF CloseStops

LEMMA ClosePopsKeeps ==
  ASSUME SoundUsage, IInv, ClosePops
  PROVE  IInv'
  <1>0. /\ closing = "pool" /\ ClosingInv /\ phase = "idle" /\ cb = NoCallback
        /\ UNCHANGED <<phase, syncMode, batch, cursor, cb, starts>> /\ cb' = NoCallback
    BY DEF ClosePops, IInv, ClosingInv
  <1>1. /\ loop \in Loop /\ ControlOK /\ Sound(loop, {}, Null, Null, Popped) /\ PhaseInv
    BY <1>0, QuietFacts
  <1>2. batch = {} /\ cursor = Null /\ Popped
    BY <1>0, <1>1 DEF PhaseInv, ControlOK, Popped
  <1>3. PhaseInv'
    BY <1>0, <1>2 DEF PhaseInv, Dispatching
  <1>4. CASE loop.poolCompletions = <<>>
    <2>1. closing' = "active" /\ loop' = loop
      BY <1>4 DEF ClosePops
    <2>2. ClosingInv'
      BY <1>0, <2>1 DEF ClosingInv, NoCallback, SequenceOf
    <2>3. ControlOK' /\ Popped' = Popped
      BY <1>0, <1>1, <2>1 DEF ControlOK, ClosingStages, Popped
    <2> QED BY <1>0, <1>1, <1>3, <2>1, <2>2, <2>3, QuietReestablished
  <1>5. CASE loop.poolCompletions # <<>>
    <2> DEFINE r == Head(loop.poolCompletions)
    <2>1. /\ closing' = closing
          /\ loop' = IF Stoppable(r) THEN StopRequest(Popping(loop), r) ELSE Popping(loop)
      BY <1>5 DEF ClosePops, Popping
    <2>2. r \in Requests /\ Contains(loop.poolCompletions, r)
      <3>1. loop.poolCompletions \in Seq(Requests) /\ IsInjective(loop.poolCompletions)
        BY <1>1 DEF Sound, Base, Tasked, Loop
      <3> QED BY <1>5, <3>1, HeadTaken
    <2>3. loop.state[r] \in {"Active", "Cancelling"}
      BY <1>1, <2>2 DEF Sound, Base, Tasked
    <2> HIDE DEF r
    <2>4. /\ Sound(loop', {}, Null, Null, Popped) /\ loop'.queue = loop.queue
          /\ \A x \in Requests : x # r => loop'.state[x] = loop.state[x]
          /\ loop'.state[r] = "Cancelling"
      <3>1. CASE loop.state[r] = "Active"
        <4>1. AfterStop(loop, StopRequest(Popping(loop), r), r, {}, Null, Null, Popped)
          BY <1>1, <1>2, <1>5, <2>2, <3>1, ActivePopped DEF r
        <4>2. loop' = StopRequest(Popping(loop), r)
          BY <2>1, <3>1 DEF Stoppable
        <4>3. AfterStop(loop, loop', r, {}, Null, Null, Popped)
          BY <4>1, <4>2
        <4> QED BY <1>1, <2>2, <4>3 DEF AfterStop, Loop
      <3>2. CASE loop.state[r] = "Cancelling"
        <4>1. AfterPop(loop, Popping(loop), r, Popped)
          BY <1>1, <1>2, <1>5, <2>2, <3>2, CancellingPopped DEF r
        <4>2. loop' = Popping(loop)
          BY <2>1, <3>2 DEF Stoppable
        <4> QED BY <3>2, <4>1, <4>2 DEF AfterPop
      <3> QED BY <2>3, <3>1, <3>2
    <2>5. loop'.setting = loop.setting
      BY <2>4 DEF Sound, Base
    <2>6. ClosingInv'
      BY <1>0, <2>1, <2>2, <2>4, <2>5 DEF ClosingInv, NoCallback, SequenceOf
    <2>7. ControlOK' /\ Popped' = Popped
      BY <1>0, <1>1, <2>1 DEF ControlOK, Popped
    <2> QED BY <1>0, <1>3, <2>4, <2>6, <2>7, QuietReestablished
  <1> QED BY <1>4, <1>5

-----------------------------------------------------------------------------
(* The thread of the loop: steps that call the user                        *)

LEMMA CallReestablished ==
  ASSUME SoundUsage, IInv, NEW kind \in {"complete", "error", "timer", "close"},
         NEW r \in Requests, NEW ok \in BOOLEAN, cb' = Call(kind, r, ok),
         UNCHANGED <<phase, syncMode, closing, starts>>,
         batch' \subseteq batch, cursor' \in Requests \cup {Null},
         Sound(loop', IF kind = "error" THEN {r} ELSE {}, Null,
               IF kind = "complete" THEN r ELSE Null, Popped),
         kind = "error" => phase = "submit" /\ loop'.state[r] \in {"Setup", "Submitting"},
         kind = "timer" => phase = "timers" /\ Kind[r] = "timeout",
         kind = "complete" =>
            /\ phase \in {"events", "manual", "pool"} /\ \A e \in batch' : e.req # r
            /\ loop'.state[r] \in {"Free", "Setup", "Cancelling"}
            /\ Watches(r) => r \in loop'.watched,
         kind = "close" => phase = "cancel",
         PhaseInv', ClosingInv'
  PROVE  IInv'
  <1>1. /\ cb'.kind = kind /\ cb'.req = r /\ ~cb'.again /\ cb' # NoCallback
        /\ cb' \in [kind : {"none", "complete", "error", "timer", "close"},
                    req : Requests \cup {Null}, again : BOOLEAN, ok : BOOLEAN]
    BY DEF Call, NoCallback
  <1>2. /\ Held' = IF kind = "error" THEN {r} ELSE {}
        /\ Again' = Null
        /\ Completing' = IF kind = "complete" THEN r ELSE Null
        /\ Popped' = Popped
    BY <1>1 DEF Held, Again, Completing, Popped
  <1>3. Sound(loop', Held', Again', Completing', Popped')
    BY <1>2
  <1>4. loop'.setting = loop.setting
    BY <1>3 DEF Sound, Base
  <1>5. r # Null
    BY EventLoopAssumption
  <1>6. CallbackInv'
    BY <1>1, <1>4, <1>5 DEF CallbackInv, Kind, Watches
  <1>7. ControlOK' /\ starts' \in 0 .. MaxStarts
    BY <1>1, Facts DEF ControlOK
  <1> QED BY <1>3, <1>6, <1>7, Reestablished

LEMMA TimerKeeps ==
  ASSUME SoundUsage, IInv, NEW r \in Requests, InvokeExpiredTimer(r)
  PROVE  IInv'
  <1>1. /\ cb = NoCallback /\ phase = "timers" /\ r \in loop.listed /\ Kind[r] = "timeout"
        /\ loop' = RemoveActiveHandle(loop, r) /\ cb' = Call("timer", r, TRUE)
        /\ UNCHANGED <<phase, syncMode, batch, cursor, closing, starts>>
    BY DEF InvokeExpiredTimer, Running, Timers
  <1>2. /\ loop \in Loop /\ ControlOK /\ Sound(loop, {}, Null, Null, Popped)
        /\ PhaseInv /\ ClosingInv /\ loop.setting = loop.setting
    BY <1>1, QuietFacts
  <1>3. loop.state[r] = "Active"
    BY <1>1, <1>2 DEF Sound, Base, Placed
  <1> DEFINE held == {}  again == Null
  <1>4. Sound(loop, held, again, Null, Popped) /\ again \in Requests \cup {Null}
    BY <1>2
  <1> HIDE DEF held, again
  <1>5. LET m == RemoveActiveHandle(loop, r) IN
        /\ Sound(m, held, again, Null, Popped)
        /\ m.state = [loop.state EXCEPT ![r] = "Free"]
        /\ m.cancellations = loop.cancellations /\ m.needsTeardown = loop.needsTeardown
    BY <1>1, <1>2, <1>3, <1>4, TimerExpired DEF Kind
  <1>6. /\ Sound(loop', {}, Null, Null, Popped)
        /\ loop'.state = [loop.state EXCEPT ![r] = "Free"]
        /\ loop'.cancellations = loop.cancellations /\ loop'.needsTeardown = loop.needsTeardown
    BY <1>1, <1>5 DEF held, again
  <1>7. loop'.setting = loop.setting /\ loop'.state[r] = "Free"
        /\ \A x \in Requests : x # r => loop'.state[x] = loop.state[x]
    BY <1>2, <1>6 DEF Sound, Base, Loop
  <1>8. closing = "no"
    BY <1>1, <1>2, <1>3 DEF ClosingInv
  <1>9. ClosingInv'
    BY <1>1, <1>8, ClosingNo
  <1>10. PhaseInv'
    <2> DEFINE S == {r}
    <2>1. KeepsRequests(loop, loop', S)
      BY <1>6, <1>7 DEF KeepsRequests
    <2>2. \A x \in S : loop'.state[x] # "Cancelling" /\ \A e \in batch : e.req # x
      <3>1. ASSUME NEW e \in batch, e.req = r PROVE FALSE
        BY <1>1, <1>2, <3>1, QuietFacts DEF PhaseInv, Watches
      <3> QED BY <1>7, <3>1
    <2>3. phase # "poll" /\ S \in SUBSET Requests
      BY <1>1
    <2> HIDE DEF S
    <2> QED BY <1>1, <1>2, <1>7, <2>1, <2>2, <2>3, PhaseKept
  <1>11. batch' \subseteq batch /\ cursor' \in Requests \cup {Null}
    BY <1>1, <1>2 DEF ControlOK
  <1> DEFINE kind == "timer"  ok == TRUE
  <1>12. /\ kind \in {"complete", "error", "timer", "close"} /\ ok \in BOOLEAN
         /\ cb' = Call(kind, r, ok) /\ kind = "timer"
         /\ Sound(loop', IF kind = "error" THEN {r} ELSE {}, Null,
                  IF kind = "complete" THEN r ELSE Null, Popped)
    BY <1>1, <1>6
  <1> HIDE DEF kind, ok
  <1> QED BY <1>1, <1>9, <1>10, <1>11, <1>12, CallReestablished

\* Any of the three ways to a completion.
LEMMA CompletionKeeps ==
  ASSUME SoundUsage, IInv, NEW r \in Requests, NEW ok \in BOOLEAN,
         NEW mc \in Seq(Requests), NEW pc \in Seq(Requests),
         cb = NoCallback, phase \in {"events", "manual", "pool"}, loop.state[r] = "Active",
         loop' = BeginComplete(WithLists(loop, mc, pc), r), cb' = Call("complete", r, ok),
         IsInjective(mc),
         \A x \in Requests : Contains(mc, x) <=> Contains(loop.manualCompletions, x) /\ x # r,
         IsInjective(pc),
         \A x \in Requests : Contains(pc, x) <=> Contains(loop.poolCompletions, x) /\ x # r,
         batch' \subseteq batch, \A e \in batch' : e.req # r,
         UNCHANGED <<phase, syncMode, cursor, closing, starts>>
  PROVE  IInv'
  <1>1. /\ loop \in Loop /\ ControlOK /\ Sound(loop, {}, Null, Null, Popped)
        /\ PhaseInv /\ ClosingInv /\ Null \notin Requests
    BY QuietFacts
  <1> DEFINE held == {}  again == Null
  <1>2. Sound(loop, held, again, Null, Popped) /\ again \in Requests \cup {Null}
    BY <1>1
  <1> HIDE DEF held, again
  <1>3. AfterCompletion(loop, BeginComplete(WithLists(loop, mc, pc), r), r, held, again, Popped)
    BY <1>2, Completed
  <1>4. /\ Sound(loop', {}, Null, r, Popped)
        /\ loop'.state = [loop.state EXCEPT ![r] = "Free"]
        /\ loop'.cancellations = loop.cancellations
        /\ loop'.needsTeardown = loop.needsTeardown \cup {r} /\ loop'.watched = loop.watched
    BY <1>3 DEF held, again, AfterCompletion
  <1>5. loop'.setting = loop.setting /\ loop'.state[r] = "Free"
        /\ \A x \in Requests : x # r => loop'.state[x] = loop.state[x]
    BY <1>1, <1>4 DEF Sound, Base, Loop
  <1>6. closing = "no"
    BY <1>1 DEF ClosingInv
  <1>7. ClosingInv'
    BY <1>6, ClosingNo
  <1>8. PhaseInv'
    <2>1. \A x \in Requests : Kind[x] = "work" /\ loop'.state[x] = "Cancelling" =>
             Contains(loop'.cancellations, x)
      BY <1>1, <1>4, <1>5 DEF PhaseInv, Dispatching
    <2>2. ASSUME NEW e \in batch', e.req # Null
          PROVE  /\ Watches(e.req) /\ ~e.err
                 /\ \/ loop'.state[e.req] = "Active"
                    \/ loop'.state[e.req] = "Cancelling" /\ e.req \in loop'.needsTeardown
      <3>1. e \in batch /\ e.req \in Requests /\ e.req # r
        BY <1>1, <2>2 DEF ControlOK, Event
      <3> QED BY <1>1, <1>4, <1>5, <2>2, <3>1 DEF PhaseInv
    <2>3. batch' # {} => phase = "events"
      BY <1>1 DEF PhaseInv
    <2>4. cursor = Null
      BY <1>1 DEF PhaseInv, ControlOK
    <2>5. Kind' = Kind
      BY <1>5 DEF Kind
    <2> QED BY <1>5, <2>1, <2>2, <2>3, <2>4, <2>5 DEF PhaseInv, Watches
  <1>9. Watches(r) => r \in loop'.watched
    BY <1>1, <1>4 DEF Sound, Base, Registered, Watches, Kind
  <1>10. cursor' \in Requests \cup {Null}
    BY <1>1 DEF ControlOK
  <1> DEFINE kind == "complete"
  <1>11. /\ kind \in {"complete", "error", "timer", "close"}
         /\ cb' = Call(kind, r, ok) /\ kind = "complete"
         /\ Sound(loop', IF kind = "error" THEN {r} ELSE {}, Null,
                  IF kind = "complete" THEN r ELSE Null, Popped)
    BY <1>4
  <1> HIDE DEF kind
  <1> QED BY <1>5, <1>7, <1>8, <1>9, <1>10, <1>11, CallReestablished

LEMMA ManualKeeps ==
  ASSUME SoundUsage, IInv, ExecuteManualCompletion
  PROVE  IInv'
  <1> DEFINE r == Head(loop.manualCompletions)
             mc == Tail(loop.manualCompletions)
             pc == loop.poolCompletions
  <1>1. /\ cb = NoCallback /\ phase = "manual" /\ loop.manualCompletions # <<>>
        /\ loop' = BeginComplete([loop EXCEPT !.manualCompletions = mc], r)
        /\ UNCHANGED <<phase, syncMode, batch, cursor, closing, starts>>
    BY DEF ExecuteManualCompletion, Running
  <1>1a. PICK ok \in Outcomes(r) : cb' = Call("complete", r, ok)
    BY DEF ExecuteManualCompletion
  <1>1b. ok \in BOOLEAN
    BY DEF Outcomes
  <1>2. /\ loop \in Loop /\ ControlOK /\ Sound(loop, {}, Null, Null, Popped) /\ PhaseInv
    BY <1>1, QuietFacts
  <1>3. /\ mc \in Seq(Requests) /\ IsInjective(mc)
        /\ r \in Requests /\ Contains(loop.manualCompletions, r)
        /\ \A x : Contains(mc, x) <=> Contains(loop.manualCompletions, x) /\ x # r
    <2>1. loop.manualCompletions \in Seq(Requests) /\ IsInjective(loop.manualCompletions)
      BY <1>2 DEF Sound, Base, Placed, Loop
    <2> QED BY <1>1, <2>1, HeadTaken
  <1>4. loop' = BeginComplete(WithLists(loop, mc, pc), r)
    <2>1. [loop EXCEPT !.manualCompletions = mc] = WithLists(loop, mc, pc)
      BY <1>2 DEF WithLists, Loop
    <2> QED BY <1>1, <2>1
  <1> HIDE DEF r, mc
  <1>5. loop.state[r] = "Active" /\ loop.setting.kind[r] = "write"
    BY <1>2, <1>3 DEF Sound, Base, Placed
  <1>6. /\ pc \in Seq(Requests) /\ IsInjective(pc)
        /\ \A x \in Requests : Contains(pc, x) <=> Contains(loop.poolCompletions, x) /\ x # r
    BY <1>2, <1>3, <1>5 DEF Sound, Base, Tasked, Loop
  <1>7. batch' \subseteq batch /\ \A e \in batch' : e.req # r
    BY <1>1, <1>2 DEF PhaseInv
  <1> HIDE DEF pc
  <1> QED BY <1>1, <1>1a, <1>1b, <1>3, <1>4, <1>5, <1>6, <1>7, CompletionKeeps

LEMMA PoolKeeps ==
  ASSUME SoundUsage, IInv, ExecuteThreadPoolCompletion
  PROVE  IInv'
  <1> DEFINE r == Head(loop.poolCompletions)
             pc == Tail(loop.poolCompletions)
             mc == loop.manualCompletions
  <1>1. /\ cb = NoCallback /\ phase = "pool" /\ loop.poolCompletions # <<>>
        /\ loop' = BeginComplete([loop EXCEPT !.poolCompletions = pc], r)
        /\ UNCHANGED <<phase, syncMode, batch, cursor, closing, starts>>
    BY DEF ExecuteThreadPoolCompletion, Running
  <1>1a. PICK ok \in Outcomes(r) : cb' = Call("complete", r, ok)
    BY DEF ExecuteThreadPoolCompletion
  <1>1b. ok \in BOOLEAN
    BY DEF Outcomes
  <1>2. /\ loop \in Loop /\ ControlOK /\ Sound(loop, {}, Null, Null, Popped) /\ PhaseInv
    BY <1>1, QuietFacts
  <1>3. /\ pc \in Seq(Requests) /\ IsInjective(pc)
        /\ r \in Requests /\ Contains(loop.poolCompletions, r)
        /\ \A x : Contains(pc, x) <=> Contains(loop.poolCompletions, x) /\ x # r
    <2>1. loop.poolCompletions \in Seq(Requests) /\ IsInjective(loop.poolCompletions)
      BY <1>2 DEF Sound, Base, Tasked, Loop
    <2> QED BY <1>1, <2>1, HeadTaken
  <1>4. loop' = BeginComplete(WithLists(loop, mc, pc), r)
    <2>1. [loop EXCEPT !.poolCompletions = pc] = WithLists(loop, mc, pc)
      BY <1>2 DEF WithLists, Loop
    <2> QED BY <1>1, <2>1
  <1> HIDE DEF r, pc
  <1>5. loop.state[r] = "Active" /\ loop.setting.kind[r] = "work"
    <2>1. /\ loop.setting.kind[r] = "work"
          /\ \/ loop.state[r] = "Active"
             \/ loop.state[r] = "Cancelling" /\ ~Contains(loop.cancellations, r)
      BY <1>2, <1>3 DEF Sound, Base, Tasked
    <2> QED BY <1>1, <1>2, <1>3, <2>1 DEF PhaseInv, Dispatching, Kind
  <1>6. /\ mc \in Seq(Requests) /\ IsInjective(mc)
        /\ \A x \in Requests : Contains(mc, x) <=> Contains(loop.manualCompletions, x) /\ x # r
    BY <1>2, <1>3, <1>5 DEF Sound, Base, Placed, Loop
  <1>7. batch' \subseteq batch /\ \A e \in batch' : e.req # r
    BY <1>1, <1>2 DEF PhaseInv
  <1> HIDE DEF mc
  <1> QED BY <1>1, <1>1a, <1>1b, <1>3, <1>4, <1>5, <1>6, <1>7, CompletionKeeps

LEMMA EventKeeps ==
  ASSUME SoundUsage, IInv, NEW e \in batch, ExecuteCompletion(e)
  PROVE  IInv'
  <1>1. /\ cb = NoCallback /\ phase = "events" /\ batch' = batch \ {e}
        /\ UNCHANGED <<phase, syncMode, cursor, closing, starts>>
    BY DEF ExecuteCompletion, Running
  <1>2. /\ loop \in Loop /\ ControlOK /\ Sound(loop, {}, Null, Null, Popped)
        /\ PhaseInv /\ ClosingInv /\ Null \notin Requests
    BY <1>1, QuietFacts
  <1>3. ASSUME Sound(loop', {}, Null, Null, Popped), Unmoved(loop, loop'), cb' = NoCallback
        PROVE  IInv'
    <2>1. loop'.setting = loop.setting
      BY <1>3 DEF Sound, Base
    <2>2. PhaseInv'
      BY <1>1, <1>2, <1>3, <2>1 DEF PhaseInv, Unmoved, Watches, Kind, Dispatching
    <2>3. ClosingInv'
      BY <1>1, <1>2, <1>3, <2>1 DEF ClosingInv, Unmoved, SequenceOf
    <2>4. ControlOK' /\ Popped' = Popped
      BY <1>1, <1>2, <1>3 DEF ControlOK, Popped, NoCallback
    <2> QED BY <1>1, <1>3, <2>2, <2>3, <2>4, QuietReestablished
  <1>4. CASE loop' = [loop EXCEPT !.wake = FALSE] /\ UNCHANGED cb
    <2>1. loop.runTimers \in BOOLEAN /\ loop.interrupted \in BOOLEAN
      BY <1>2 DEF Loop
    <2>2. loop' = Flagged(loop, FALSE, loop.runTimers, loop.interrupted)
      BY <1>2, <1>4 DEF Flagged, Loop
    <2>3. Sound(loop', {}, Null, Null, Popped) /\ Unmoved(loop, loop')
      BY <1>2, <2>1, <2>2, FlagsSound
    <2> QED BY <1>1, <1>3, <1>4, <2>3
  <1>5. CASE UNCHANGED <<loop, cb>>
    BY <1>1, <1>2, <1>3, <1>5 DEF Unmoved
  <1>6. CASE e.req # Null /\ EventCounts(e.req)
    <2> DEFINE r == e.req
               mc == RemoveFirst(loop.manualCompletions, r)
               pc == loop.poolCompletions
    <2>1. /\ r \in Requests /\ ~e.err /\ loop.state[r] = "Active" /\ Watches(r)
      BY <1>2, <1>6 DEF PhaseInv, ControlOK, Event, EventCounts
    <2>2. /\ loop' = BeginComplete([loop EXCEPT !.manualCompletions = mc], r)
          /\ cb' \in {Call("complete", r, ok) : ok \in Outcomes(r)}
      BY <1>6, <2>1 DEF ExecuteCompletion
    <2>3. PICK ok \in Outcomes(r) : cb' = Call("complete", r, ok)
      BY <2>2
    <2>4. ok \in BOOLEAN
      BY DEF Outcomes
    <2>5. /\ mc \in Seq(Requests) /\ IsInjective(mc)
          /\ \A x : Contains(mc, x) <=> Contains(loop.manualCompletions, x) /\ x # r
      <3>1. loop.manualCompletions \in Seq(Requests) /\ IsInjective(loop.manualCompletions)
        BY <1>2 DEF Sound, Base, Placed, Loop
      <3> QED BY <3>1, Removed
    <2>6. loop' = BeginComplete(WithLists(loop, mc, pc), r)
      <3>1. [loop EXCEPT !.manualCompletions = mc] = WithLists(loop, mc, pc)
        BY <1>2 DEF WithLists, Loop
      <3> QED BY <2>2, <3>1
    <2>7. /\ pc \in Seq(Requests) /\ IsInjective(pc)
          /\ \A x \in Requests : Contains(pc, x) <=> Contains(loop.poolCompletions, x) /\ x # r
      BY <1>2, <2>1 DEF Sound, Base, Tasked, Loop, Watches, Kind
    <2>8. batch' \subseteq batch /\ \A d \in batch' : d.req # r
      <3>1. ASSUME NEW d \in batch, d.req = r PROVE d = e
        <4>1. d \in Event /\ e \in Event /\ d.err = FALSE /\ e.err = FALSE
          BY <1>2, <1>6, <3>1 DEF PhaseInv, ControlOK, Event
        <4> QED BY <3>1, <4>1 DEF Event
      <3> QED BY <1>1, <3>1
    <2> HIDE DEF r, mc, pc
    <2> QED BY <1>1, <2>1, <2>3, <2>4, <2>5, <2>6, <2>7, <2>8, CompletionKeeps
  <1> QED BY <1>4, <1>5, <1>6 DEF ExecuteCompletion

-----------------------------------------------------------------------------
(* Cancellations and the poll                                              *)

\* `next` follows `r` in the list, which is what is left when `r` was the first one.
Follows(list, r, next) ==
    /\ next \in Requests \cup {Null}
    /\ next # Null => Contains(list, next) /\ next # r
    /\ r = Head(list) =>
         /\ RemoveFirst(list, r) = Tail(list)
         /\ IF next = Null THEN Tail(list) = <<>>
            ELSE Tail(list) # <<>> /\ next = Head(Tail(list))

After(list, r) ==
    LET i == CHOOSE j \in DOMAIN list : list[j] = r
    IN  IF i = Len(list) THEN Null ELSE list[i + 1]

LEMMA FirstRemoved ==
  ASSUME NEW list \in Seq(Requests), IsInjective(list), list # <<>>
  PROVE  RemoveFirst(list, Head(list)) = Tail(list)
  <1> DEFINE n == Len(list)
             k == 1
             a == RemoveAt(list, k)
             b == Tail(list)
             r == Head(list)
  <1>1. n \in Nat \ {0} /\ DOMAIN list = 1 .. n /\ r = list[1]
    BY EmptySeq, LenProperties
  <1>2. k \in 1 .. n
    BY <1>1
  <1>3. b \in Seq(Requests) /\ Len(b) = n - 1 /\ \A j \in 1 .. n - 1 : b[j] = list[j + 1]
    BY HeadTailProperties
  <1>4. /\ a \in Seq(Requests) /\ Len(a) = n - 1
        /\ \A j \in 1 .. n - 1 : a[j] = IF j < k THEN list[j] ELSE list[j + 1]
    <2> HIDE DEF k
    <2> QED BY <1>2, RemoveAtIndexed
  <1>5. \A j \in 1 .. n : list[j] = list[1] => j = 1
    BY <1>1 DEF IsInjective
  <1>6. RemoveFirst(list, r) = a
    <2>1. {j \in 1 .. n : list[j] = r} = {1}
      BY <1>1, <1>5
    <2>2. SelectInSeq(list, LAMBDA v : v = r) = 1
      BY <1>1, <2>1 DEF SelectInSeq, Min
    <2> QED BY <1>1, <2>2 DEF RemoveFirst
  <1> HIDE DEF n, a, b
  <1>7. \A j \in 1 .. n - 1 : a[j] = b[j]
    BY <1>1, <1>3, <1>4
  <1>8. a = b
    BY <1>3, <1>4, <1>7, SeqEqual
  <1> QED BY <1>6, <1>8 DEF b

LEMMA Successor ==
  ASSUME NEW list \in Seq(Requests), NEW r,
         IsInjective(list), Contains(list, r), Null \notin Requests
  PROVE  Follows(list, r, After(list, r))
  <1> DEFINE i == CHOOSE j \in DOMAIN list : list[j] = r
             n == Len(list)
             next == After(list, r)
             t == Tail(list)
  <1>1. /\ n \in Nat /\ DOMAIN list = 1 .. n
        /\ \A j \in 1 .. n : list[j] \in Requests
    BY LenProperties, ElementOfSeq
  <1>2. i \in 1 .. n /\ list[i] = r
    BY <1>1 DEF Contains
  <1>3. next = IF i = n THEN Null ELSE list[i + 1]
    BY DEF After
  <1>4. list # <<>> /\ n # 0
    BY <1>1, <1>2, EmptySeq
  <1>5. t \in Seq(Requests) /\ Len(t) = n - 1 /\ \A j \in 1 .. n - 1 : t[j] = list[j + 1]
    BY <1>4, HeadTailProperties
  <1>6. t # <<>> => Head(t) = t[1]
    BY <1>5, HeadTailProperties
  <1>7. t = <<>> <=> Len(t) = 0
    BY <1>5, EmptySeq, LenProperties
  <1>8. Head(list) = list[1]
    BY <1>4, HeadTailProperties
  <1>8a. \A x : Contains(list, x) <=> \E j \in 1 .. n : list[j] = x
    BY <1>1 DEF Contains
  <1> HIDE DEF i, n, next, t
  <1>9. i # n => i + 1 \in 1 .. n /\ i + 1 # i
    BY <1>1, <1>2
  <1>10. \A j, k \in 1 .. n : list[j] = list[k] => j = k
    BY <1>1 DEF IsInjective
  <1>11. next # Null => next = list[i + 1] /\ i # n /\ i + 1 \in 1 .. n /\ next # r
    BY <1>2, <1>3, <1>9, <1>10
  <1>12. next \in Requests \cup {Null} /\ (next # Null => Contains(list, next))
    BY <1>1, <1>3, <1>8a, <1>9, <1>11
  <1>13. next = Null => i = n
    BY <1>1, <1>3, <1>9
  <1>14. r = Head(list) => i = 1
    BY <1>1, <1>2, <1>4, <1>8, <1>10
  <1>15. r = Head(list) => RemoveFirst(list, r) = t
    BY <1>4, FirstRemoved DEF t
  <1>16. r = Head(list) /\ next = Null => t = <<>>
    BY <1>1, <1>5, <1>7, <1>13, <1>14
  <1>17. r = Head(list) /\ next # Null => t # <<>> /\ next = Head(t)
    <2> HAVE r = Head(list) /\ next # Null
    <2>1. 1 \in 1 .. n - 1 /\ next = list[1 + 1] /\ n - 1 # 0
      BY <1>1, <1>2, <1>11, <1>14
    <2> QED BY <1>5, <1>6, <1>7, <2>1
  <1> QED BY <1>11, <1>12, <1>15, <1>16, <1>17 DEF Follows, next, t

LEMMA CancellationKeeps ==
  ASSUME SoundUsage, IInv, ExecuteCancellationCallback
  PROVE  IInv'
  <1> DEFINE r == cursor
  <1>1. /\ cb = NoCallback /\ phase = "cancel" /\ r # Null
        /\ cursor' = NextCancellation(r) /\ cb' = Call("close", r, TRUE)
        /\ loop' = CompleteCancellation(AssertRelease(loop, loop.state[r] = "Cancelling"), r)
        /\ UNCHANGED <<phase, syncMode, batch, closing, starts>>
    BY DEF ExecuteCancellationCallback, Running
  <1>2. /\ loop \in Loop /\ ControlOK /\ Sound(loop, {}, Null, Null, Popped)
        /\ PhaseInv /\ ClosingInv /\ Null \notin Requests /\ loop.setting = loop.setting
        /\ Null \notin Sequences
    BY <1>1, QuietFacts
  <1>3. r \in Requests /\ Contains(loop.cancellations, r)
    BY <1>1, <1>2 DEF PhaseInv, ControlOK
  <1>4. loop.state[r] = "Cancelling"
    BY <1>2, <1>3 DEF Sound, Base, Placed
  <1>5. loop' = CompleteCancellation(loop, r)
    BY <1>1, <1>4 DEF AssertRelease
  <1>6. AfterCancellation(loop, loop', r, Popped)
    BY <1>2, <1>3, <1>5, CancellationCompleted
  <1>7. /\ Sound(loop', {}, Null, Null, Popped)
        /\ loop'.state = [x \in Requests |-> IF x \in {r} THEN "Free" ELSE loop.state[x]]
        /\ loop'.cancellations = RemoveFirst(loop.cancellations, r)
        /\ \A p \in Sequences : loop.queue[p] = <<>> => loop'.queue[p] = <<>>
        /\ (\A p \in Sequences : loop.queue[p] = <<>>) => loop'.submissions = loop.submissions
    BY <1>6 DEF AfterCancellation
  <1>8. loop.cancellations \in Seq(Requests) /\ IsInjective(loop.cancellations)
    BY <1>2 DEF Sound, Base, Placed, Loop
  <1>9. \A x : Contains(loop'.cancellations, x) <=> Contains(loop.cancellations, x) /\ x # r
    BY <1>7, <1>8, Removed
  <1>10. /\ cursor' \in Requests \cup {Null}
         /\ cursor' # Null => Contains(loop.cancellations, cursor') /\ cursor' # r
         /\ r = Head(loop.cancellations) =>
              /\ RemoveFirst(loop.cancellations, r) = Tail(loop.cancellations)
              /\ IF cursor' = Null THEN Tail(loop.cancellations) = <<>>
                 ELSE Tail(loop.cancellations) # <<>> /\ cursor' = Head(Tail(loop.cancellations))
    <2>1. cursor' = After(loop.cancellations, r)
      BY <1>1 DEF NextCancellation, After
    <2> HIDE DEF r
    <2>2. Follows(loop.cancellations, r, After(loop.cancellations, r))
      BY <1>2, <1>3, <1>8, Successor
    <2> QED BY <2>1, <2>2 DEF Follows
  <1> HIDE DEF r
  <1>11. \A x \in Requests : loop'.state[x] = IF x = r THEN "Free" ELSE loop.state[x]
    BY <1>7
  <1>12. PhaseInv'
    BY <1>1, <1>2, <1>9, <1>10 DEF PhaseInv, Dispatching
  <1>13. ClosingInv'
    <2>1. CASE closing = "no"
      BY <1>1, <2>1, ClosingNo
    <2>2. CASE closing # "no"
      <3>1. closing \in {"ran", "end"}
        BY <1>1, <1>2, <2>2 DEF ClosingInv
      <3>2. /\ \A p \in Sequences : loop'.queue[p] = <<>>
            /\ loop'.submissions = loop.submissions /\ loop.submissions = <<>>
            /\ \A x \in Requests : loop.state[x] \in {"Free", "Cancelling"}
            /\ \A e \in batch : e.req = Null
        BY <1>1, <1>2, <1>7, <3>1 DEF ClosingInv
      <3>3. \A x \in Requests : loop'.state[x] \in {"Free", "Cancelling"}
        BY <1>11, <3>2
      <3>4. closing = "end" => r = Head(loop.cancellations)
        BY <1>1, <1>2 DEF ClosingInv, r
      <3>5. closing = "end" =>
              IF cursor' = Null THEN loop'.cancellations = <<>>
              ELSE loop'.cancellations # <<>> /\ cursor' = Head(loop'.cancellations)
        BY <1>7, <1>10, <3>4
      <3>6. cb'.kind = "close" /\ phase' = "cancel" /\ closing' = closing /\ batch' = batch
        BY <1>1 DEF Call
      <3>7. \A x \in Requests : loop'.state[x] # "Active"
        BY <3>3
      <3> QED BY <3>1, <3>2, <3>3, <3>5, <3>6, <3>7 DEF ClosingInv
    <2> QED BY <2>1, <2>2
  <1> DEFINE kind == "close"  ok == TRUE
  <1>14. /\ kind \in {"complete", "error", "timer", "close"} /\ ok \in BOOLEAN
         /\ cb' = Call(kind, r, ok) /\ kind = "close" /\ batch' \subseteq batch
         /\ Sound(loop', IF kind = "error" THEN {r} ELSE {}, Null,
                  IF kind = "complete" THEN r ELSE Null, Popped)
    BY <1>1, <1>7
  <1> HIDE DEF kind, ok
  <1> QED BY <1>1, <1>3, <1>10, <1>12, <1>13, <1>14, CallReestablished

\* activeHandles - externals is what keeps run() going: never below zero.
LEMMA HandlesNatural ==
  ASSUME NEW l \in Loop, Counted(l)
  PROVE  NumberOfHandles(l) >= 0
  <1> DEFINE A == ActiveIn(l) \ l.manual
             B == A \cap l.excluded
  <1>1. IsFiniteSet(A) /\ IsFiniteSet(B)
    BY ActiveFinite
  <1>2. Cardinality(A) \in Nat /\ Cardinality(B) \in Nat
    BY <1>1, FS_CardinalityType
  <1>3. Cardinality(B) <= Cardinality(A)
    <2>1. B \subseteq A
      OBVIOUS
    <2> HIDE DEF A, B
    <2> QED BY <1>1, <2>1, FS_Subset
  <1>4. l.numberOfActiveHandles = Cardinality(A) /\ -l.numberOfExternals = Cardinality(B)
    BY DEF Counted
  <1>5. l.numberOfExternals \in Int
    BY DEF Loop
  <1> HIDE DEF A, B
  <1> QED BY <1>2, <1>3, <1>4, <1>5 DEF NumberOfHandles

LEMMA PollKeeps ==
  ASSUME SoundUsage, IInv, BlockingPoll
  PROVE  IInv'
  <1>1. /\ cb = NoCallback /\ cb' = NoCallback /\ starts' = starts /\ phase = "poll"
        /\ phase' = "polled" /\ UNCHANGED <<syncMode, cursor, closing>>
    BY DEF BlockingPoll, Running
  <1>2. /\ loop \in Loop /\ ControlOK /\ Sound(loop, {}, Null, Null, Popped)
        /\ PhaseInv /\ ClosingInv
    BY <1>1, QuietFacts
  <1>3. Popped' = Popped
    BY <1>1 DEF Popped
  <1>4. loop.submissions = <<>> /\ cursor = Null
    BY <1>1, <1>2 DEF PhaseInv, ControlOK
  <1>5. \A r \in Requests : ~Contains(loop.submissions, r)
    BY <1>4, NothingListed
  <1>6. \A r \in loop.watched : r \in Requests /\ loop.state[r] = "Active" /\ Watches(r)
    <2> SUFFICES ASSUME NEW r \in loop.watched
                 PROVE  r \in Requests /\ loop.state[r] = "Active" /\ Watches(r)
      OBVIOUS
    <2>1. r \in Requests
      BY <1>2 DEF Loop
    <2>2. /\ loop.setting.kind[r] \in {"socket", "readiness"}
          /\ \/ loop.state[r] \in {"Active", "Reactivate"} \/ r = Null
             \/ loop.state[r] = "Cancelling" /\ ~Contains(loop.cancellations, r)
      BY <1>2, <2>1 DEF Sound, Base, Registered
    <2>3. loop.state[r] # "Reactivate"
      BY <1>2, <1>5, <2>1 DEF Sound, Base, Placed
    <2>4. ~(loop.state[r] = "Cancelling" /\ ~Contains(loop.cancellations, r))
      BY <1>2, <1>5, <2>1 DEF Sound, Base, Placed
    <2> QED BY <2>1, <2>2, <2>3, <2>4, EventLoopAssumption DEF Watches, Kind
  <1>7. \A r \in Requests : ErrorFlags(r) = {FALSE}
    BY <1>2, SettingFacts DEF ErrorFlags, Fails
  <1>8. /\ \E t \in BOOLEAN :
             \/ loop' = [loop EXCEPT !.runTimers = t]
             \/ loop' = loop
        /\ \A e \in batch' : e \in Event /\ (e.req # Null =>
             /\ Watches(e.req) /\ ~e.err /\ loop.state[e.req] = "Active" /\ e.req \in Requests)
    <2>1. ASSUME NEW noWait \in BOOLEAN, SyncWithKernel(noWait)
          PROVE  /\ \E t \in BOOLEAN : loop' = [loop EXCEPT !.runTimers = t]
                 /\ \A e \in batch' : e \in Event /\ (e.req # Null =>
                      /\ Watches(e.req) /\ ~e.err /\ loop.state[e.req] = "Active"
                      /\ e.req \in Requests)
      <3>1. PICK ready \in SUBSET loop.watched : \E err \in [ready -> BOOLEAN] :
                /\ \A r \in ready : err[r] \in ErrorFlags(r)
                /\ batch' = {[req |-> r, err |-> err[r]] : r \in ready}
                     \cup IF loop.wake THEN {[req |-> Null, err |-> FALSE]} ELSE {}
        BY <2>1 DEF SyncWithKernel
      <3>2. PICK err \in [ready -> BOOLEAN] :
                /\ \A r \in ready : err[r] \in ErrorFlags(r)
                /\ batch' = {[req |-> r, err |-> err[r]] : r \in ready}
                     \cup IF loop.wake THEN {[req |-> Null, err |-> FALSE]} ELSE {}
        BY <3>1
      <3>3. \A r \in ready : err[r] = FALSE /\ r \in Requests
        BY <1>6, <1>7, <3>2
      <3>4. \A e \in batch' : e = [req |-> Null, err |-> FALSE]
                \/ \E r \in ready : e = [req |-> r, err |-> FALSE]
        BY <3>2, <3>3
      <3>5. \A e \in batch' : e \in Event /\ (e.req # Null =>
                      /\ Watches(e.req) /\ ~e.err /\ loop.state[e.req] = "Active"
                      /\ e.req \in Requests)
        <4>1. ASSUME NEW e, e = [req |-> Null, err |-> FALSE]
              PROVE  e \in Event /\ e.req = Null
          BY <4>1 DEF Event
        <4>2. ASSUME NEW e, NEW r \in ready, e = [req |-> r, err |-> FALSE]
              PROVE  /\ e \in Event /\ Watches(e.req) /\ ~e.err
                     /\ loop.state[e.req] = "Active" /\ e.req \in Requests
          BY <1>6, <3>3, <4>2 DEF Event
        <4> QED BY <3>4, <4>1, <4>2
      <3> DEFINE t == loop.runTimers \/ (~noWait /\ Timers # {})
      <3>6. loop' = [loop EXCEPT !.runTimers = t]
        BY <2>1 DEF SyncWithKernel
      <3>7. t \in BOOLEAN
        BY <1>2 DEF Loop
      <3> HIDE DEF t
      <3> QED BY <3>5, <3>6, <3>7
    <2>2. CASE NumberOfHandles(loop) > 0 \/ loop.numberOfManualCompletions # 0
      <3> DEFINE noWait == syncMode = "NoWait" \/ loop.numberOfManualCompletions # 0
      <3>1. SyncWithKernel(noWait) /\ noWait \in BOOLEAN
        BY <2>2 DEF BlockingPoll
      <3> HIDE DEF noWait
      <3> QED BY <2>1, <3>1
    <2>3. CASE ~(NumberOfHandles(loop) > 0 \/ loop.numberOfManualCompletions # 0)
      <3>1. NumberOfHandles(loop) >= 0
        BY <1>2, HandlesNatural DEF Sound, Base
      <3>2. batch' = {} /\ loop' = loop
        BY <2>3, <3>1 DEF BlockingPoll, AssertRelease
      <3> QED BY <3>2
    <2> QED BY <2>2, <2>3
  <1>9. Sound(loop', {}, Null, Null, Popped) /\ Unmoved(loop, loop')
    <2>1. PICK t \in BOOLEAN : loop' = [loop EXCEPT !.runTimers = t] \/ loop' = loop
      BY <1>8
    <2>2. CASE loop' = [loop EXCEPT !.runTimers = t]
      <3>1. loop.wake \in BOOLEAN /\ loop.interrupted \in BOOLEAN
        BY <1>2 DEF Loop
      <3>2. loop' = Flagged(loop, loop.wake, t, loop.interrupted)
        BY <1>2, <2>2 DEF Flagged, Loop
      <3> QED BY <1>2, <3>1, <3>2, FlagsSound
    <2>3. CASE loop' = loop
      BY <1>2, <2>3 DEF Unmoved
    <2> QED BY <2>1, <2>2, <2>3
  <1>10. loop'.setting = loop.setting
    BY <1>9 DEF Sound, Base
  <1>11. PhaseInv'
    BY <1>1, <1>2, <1>4, <1>8, <1>9, <1>10 DEF PhaseInv, Unmoved, Watches, Kind, Dispatching
  <1>12. ClosingInv'
    <2>1. closing # "no" => \A e \in batch' : e.req = Null
      BY <1>1, <1>2, <1>8 DEF ClosingInv
    <2> QED BY <1>1, <1>2, <1>9, <1>10, <2>1 DEF ClosingInv, Unmoved, SequenceOf
  <1>13. ControlOK'
    BY <1>1, <1>2, <1>8 DEF ControlOK
  <1> QED BY <1>1, <1>3, <1>9, <1>11, <1>12, <1>13, QuietReestablished

-----------------------------------------------------------------------------
(* Staging of the submissions                                              *)

FromSubmissions(l, m, r, popped) ==
    /\ Sound(m, {r}, Null, Null, popped) /\ m.setting = l.setting
    /\ m.state = l.state /\ m.queue = l.queue
    /\ l.state[r] \in {"Setup", "Reactivate", "Cancelling"}
    /\ r \notin m.manual

LEMMA FirstDequeued ==
  ASSUME NEW popped, NEW l, NEW r \in Requests,
         SoundUsage, Sound(l, {}, Null, Null, popped), l.submissions # <<>>,
         r = Head(l.submissions)
  PROVE  FromSubmissions(l, Dequeuing(l), r, popped)
  <1> DEFINE again == Null  completing == Null
  <1>1. Sound(l, {}, again, completing, popped) /\ again \in Requests \cup {Null}
    OBVIOUS
  <1> HIDE DEF again, completing
  <1>2. AfterDequeue(l, Dequeuing(l), Head(l.submissions), again, completing, popped)
    BY <1>1, Dequeued
  <1>3. /\ Contains(l.submissions, r) /\ Sound(Dequeuing(l), {r}, Null, Null, popped)
        /\ Dequeuing(l).state = l.state /\ Dequeuing(l).setting = l.setting
        /\ Dequeuing(l).queue = l.queue
    BY <1>2 DEF AfterDequeue, again, completing
  <1>4. l.state[r] \in {"Setup", "Reactivate", "Cancelling"}
    BY <1>3 DEF Sound, Base, Placed
  <1>5. r \notin Dequeuing(l).manual
    BY <1>3, <1>4 DEF Sound, Base, Placed
  <1> QED BY <1>3, <1>4, <1>5 DEF FromSubmissions

\* The request becomes active.
LEMMA SubmissionActivates ==
  ASSUME NEW popped, NEW k, NEW r \in Requests,
         SoundUsage, Sound(k, {r}, Null, Null, popped), k.setting = loop.setting,
         k.state[r] \in {"Setup", "Reactivate"}
  PROVE  /\ k.state[r] = "Setup" =>
              Sound(ActivateAsync(SetupDone(k, r), r), {}, Null, Null, popped)
         /\ k.state[r] = "Reactivate" =>
              Sound(ActivateAsync(k, r), {}, Null, Null, popped)
  <1> DEFINE held == {r}
  <1>1. Sound(k, held, Null, Null, popped) /\ r \in held /\ held \ {r} = {}
        /\ Null \notin Requests
    BY EventLoopAssumption
  <1> HIDE DEF held
  <1>2. CASE k.state[r] = "Setup"
    <2> DEFINE m == SetupDone(k, r)
    <2>1. AfterSetup(k, m, r, held, popped)
      BY <1>1, <1>2, SetUp
    <2> HIDE DEF m
    <2>2. /\ Sound(m, held, Null, r, popped) /\ m.setting = loop.setting
          /\ m.state[r] \in {"Setup", "Reactivate"}
          /\ m.setting.kind[r] \in {"socket", "readiness"} => r \in m.watched
      BY <1>2, <2>1 DEF AfterSetup, Alike
    <2>3. AfterActivation(m, ActivateAsync(m, r), r, held, popped)
      BY <1>1, <2>2, Activated
    <2> QED BY <1>1, <1>2, <2>3 DEF AfterActivation, m
  <1>3. CASE k.state[r] = "Reactivate"
    <2>1. Sound(k, held, Null, r, popped)
      BY <1>1, NobodyCompletes
    <2>2. k.setting.kind[r] \in {"socket", "readiness"} => r \in k.watched
      BY <1>1, <1>3 DEF Sound, Base, Registered
    <2>3. AfterActivation(k, ActivateAsync(k, r), r, held, popped)
      BY <1>1, <1>3, <2>1, <2>2, Activated
    <2> QED BY <1>1, <1>3, <2>3 DEF AfterActivation
  <1> QED BY <1>2, <1>3

\* Its setup or its activation fails, and the error is about to be reported.
AfterReport(m, r, popped) ==
    Sound(m, {r}, Null, Null, popped) /\ m.state[r] \in {"Setup", "Submitting"}

LEMMA FailureIsReported ==
  ASSUME NEW popped, NEW l, NEW r \in Requests,
         SoundUsage, Sound(l, {r}, Null, Null, popped), l.setting = loop.setting,
         l.state[r] \in {"Setup", "Submitting"}
  PROVE  AfterReport(BeginError(l, r), r, popped)
  <1> DEFINE held == {r}
  <1>1. Sound(l, held, Null, Null, popped) /\ r \in held
    OBVIOUS
  <1> HIDE DEF held
  <1>2. AfterFailure(l, BeginError(l, r), r, held, popped)
    BY <1>1, FailureReported
  <1> QED BY <1>2 DEF AfterFailure, AfterReport, held

LEMMA AttemptFails ==
  ASSUME NEW popped, NEW l, NEW r \in Requests,
         SoundUsage, Sound(l, {r}, Null, Null, popped), l.setting = loop.setting,
         l.state[r] \in {"Setup", "Reactivate"}, "activate" \in Fails[r]
  PROVE  AfterReport(BeginError([l EXCEPT !.state[r] = "Submitting"], r), r, popped)
  <1> DEFINE held == {r}
             T == l.needsTeardown
             m == Submits(l, r, T)
  <1>1. /\ Sound(l, held, Null, Null, popped) /\ r \in held /\ l \in Loop
        /\ T \in SUBSET Requests
    BY DEF Sound, Base, Loop
  <1>2. l.setting.kind[r] \notin {"socket", "readiness"}
    BY <1>1, SettingFacts DEF Fails
  <1> HIDE DEF held
  <1>3. m = [l EXCEPT !.state[r] = "Submitting"]
    BY <1>1 DEF Submits, Loop
  <1> HIDE DEF T
  <1>4. AfterAttempt(l, Submits(l, r, T), r, T, held, popped)
    BY <1>1, <1>2, ActivationFailed
  <1>5. AfterAttempt(l, m, r, T, held, popped)
    BY <1>4
  <1> HIDE DEF m
  <1>6. Sound(m, held, Null, Null, popped) /\ m.setting = loop.setting
        /\ m.state[r] = "Submitting"
    BY <1>1, <1>5 DEF AfterAttempt, Loop
  <1>7. Sound(m, {r}, Null, Null, popped)
    BY <1>6 DEF held
  <1>8. AfterReport(BeginError(m, r), r, popped)
    BY <1>6, <1>7, FailureIsReported
  <1> QED BY <1>3, <1>8

LEMMA SubmissionFails ==
  ASSUME NEW popped, NEW k, NEW r \in Requests,
         SoundUsage, Sound(k, {r}, Null, Null, popped), k.setting = loop.setting,
         k.state[r] \in {"Setup", "Reactivate"}, r \notin k.manual
  PROVE  /\ k.state[r] = "Setup" => AfterReport(BeginError(SetupAsync(k, r), r), r, popped)
         /\ k.state[r] = "Setup" /\ "activate" \in Fails[r] => AfterReport(
              BeginError([SetupDone(k, r) EXCEPT !.state[r] = "Submitting"], r), r, popped)
         /\ k.state[r] = "Reactivate" /\ "activate" \in Fails[r] =>
              AfterReport(BeginError([k EXCEPT !.state[r] = "Submitting"], r), r, popped)
  <1> DEFINE held == {r}
             m == SetupAsync(k, r)
  <1>1. Sound(k, held, Null, Null, popped) /\ r \in held /\ k \in Loop
    BY DEF Sound, Base
  <1> HIDE DEF held
  <1>2. Sound(m, held, Null, Null, popped) /\ Alike(k, m)
    BY <1>1, SetupFailed
  <1>3. "activate" \in Fails[r] => SetupDone(k, r) = m
    <2> HAVE "activate" \in Fails[r]
    <2>1. ~Watches(r)
      BY <1>1, SettingFacts DEF Fails, Watches, Kind
    <2>2. [m EXCEPT !.watched = m.watched] = m
      BY <1>2 DEF Sound, Base, Loop
    <2> QED BY <2>1, <2>2 DEF SetupDone
  <1> HIDE DEF m
  <1>4. Sound(m, {r}, Null, Null, popped) /\ m.setting = loop.setting /\ m.state = k.state
    BY <1>2 DEF held, Alike
  <1>5. CASE k.state[r] = "Setup"
    <2>1. AfterReport(BeginError(m, r), r, popped)
      BY <1>4, <1>5, FailureIsReported
    <2>2. "activate" \in Fails[r] =>
            AfterReport(BeginError([m EXCEPT !.state[r] = "Submitting"], r), r, popped)
      BY <1>4, <1>5, AttemptFails
    <2> QED BY <1>3, <1>5, <2>1, <2>2 DEF m
  <1>6. CASE k.state[r] = "Reactivate"
    BY <1>6, AttemptFails
  <1> QED BY <1>5, <1>6

LEMMA SubmitKeeps ==
  ASSUME SoundUsage, IInv, SubmitRequests
  PROVE  IInv'
  <1> DEFINE r == Head(loop.submissions)
             k == Dequeuing(loop)
  <1>1. /\ cb = NoCallback /\ phase = "submit" /\ loop.submissions # <<>>
        /\ StageSubmission(r, k)
        /\ UNCHANGED <<phase, syncMode, batch, cursor, closing, starts>>
    BY DEF SubmitRequests, Running, Dequeuing
  <1>2. /\ loop \in Loop /\ ControlOK /\ Sound(loop, {}, Null, Null, Popped)
        /\ PhaseInv /\ ClosingInv /\ Null \notin Requests
    BY <1>1, QuietFacts
  <1>3. r \in Requests
    <2>1. loop.submissions \in Seq(Requests) /\ IsInjective(loop.submissions)
      BY <1>2 DEF Sound, Base, Placed, Loop
    <2> QED BY <1>1, <2>1, HeadTaken
  <1>4. FromSubmissions(loop, k, r, Popped)
    BY <1>1, <1>2, <1>3, FirstDequeued
  <1> HIDE DEF r, k
  <1>5. /\ Sound(k, {r}, Null, Null, Popped) /\ k.setting = loop.setting
        /\ k.state = loop.state /\ k.queue = loop.queue
        /\ k.state[r] \in {"Setup", "Reactivate", "Cancelling"} /\ r \notin k.manual
    BY <1>4 DEF FromSubmissions
  <1>6. batch = {} /\ cursor = Null /\ closing \in {"no", "ran"}
    BY <1>1, <1>2 DEF PhaseInv, ClosingInv, ControlOK
  <1>7. PhaseInv'
    BY <1>1, <1>6 DEF PhaseInv, Dispatching
  <1>8. k.state[r] # "Cancelling" => closing = "no"
    BY <1>2, <1>3, <1>5, <1>6 DEF ClosingInv
  <1>9. Popped' = Popped
    BY <1>1 DEF Popped
  <1>10. ASSUME Sound(loop', {}, Null, Null, Popped), UNCHANGED cb, ClosingInv'
         PROVE  IInv'
    <2>1. ControlOK'
      BY <1>1, <1>2, <1>10 DEF ControlOK
    <2> QED BY <1>1, <1>7, <1>9, <1>10, <2>1, QuietReestablished
  <1>11. ASSUME AfterReport(loop', r, Popped), cb' = Call("error", r, FALSE), closing = "no"
         PROVE  IInv'
    <2> DEFINE kind == "error"  ok == FALSE
    <2>1. /\ kind \in {"complete", "error", "timer", "close"} /\ ok \in BOOLEAN
          /\ cb' = Call(kind, r, ok) /\ kind = "error" /\ batch' \subseteq batch
          /\ cursor' \in Requests \cup {Null}
          /\ Sound(loop', IF kind = "error" THEN {r} ELSE {}, Null,
                   IF kind = "complete" THEN r ELSE Null, Popped)
          /\ loop'.state[r] \in {"Setup", "Submitting"}
      BY <1>1, <1>6, <1>11 DEF AfterReport
    <2>2. ClosingInv'
      BY <1>1, <1>11, ClosingNo
    <2> HIDE DEF kind, ok
    <2> QED BY <1>1, <1>3, <1>7, <2>1, <2>2, CallReestablished
  <1>12. CASE k.state[r] = "Setup"
    <2>1. closing = "no" /\ ClosingInv'
      BY <1>1, <1>8, <1>12, ClosingNo
    <2>2. \/ Staged(ActivateAsync(SetupDone(k, r), r))
          \/ StageFails(SetupAsync(k, r), r)
          \/ /\ "activate" \in Fails[r]
             /\ StageFails([SetupDone(k, r) EXCEPT !.state[r] = "Submitting"], r)
      BY <1>1, <1>12 DEF StageSubmission
    <2>3. CASE Staged(ActivateAsync(SetupDone(k, r), r))
      <3>1. Sound(ActivateAsync(SetupDone(k, r), r), {}, Null, Null, Popped)
        BY <1>3, <1>5, <1>12, SubmissionActivates
      <3> QED BY <1>10, <2>1, <2>3, <3>1 DEF Staged
    <2>4. CASE StageFails(SetupAsync(k, r), r)
      <3>1. AfterReport(BeginError(SetupAsync(k, r), r), r, Popped)
        BY <1>3, <1>5, <1>12, SubmissionFails
      <3> QED BY <1>11, <2>1, <2>4, <3>1 DEF StageFails
    <2>5. CASE /\ "activate" \in Fails[r]
               /\ StageFails([SetupDone(k, r) EXCEPT !.state[r] = "Submitting"], r)
      <3>1. AfterReport(BeginError([SetupDone(k, r) EXCEPT !.state[r] = "Submitting"], r), r, Popped)
        BY <1>3, <1>5, <1>12, <2>5, SubmissionFails
      <3> QED BY <1>11, <2>1, <2>5, <3>1 DEF StageFails
    <2> QED BY <2>2, <2>3, <2>4, <2>5
  <1>13. CASE k.state[r] = "Reactivate"
    <2>1. closing = "no" /\ ClosingInv'
      BY <1>1, <1>8, <1>13, ClosingNo
    <2>2. \/ Staged(ActivateAsync(k, r))
          \/ "activate" \in Fails[r] /\ StageFails([k EXCEPT !.state[r] = "Submitting"], r)
      BY <1>1, <1>13 DEF StageSubmission
    <2>3. CASE Staged(ActivateAsync(k, r))
      <3>1. Sound(ActivateAsync(k, r), {}, Null, Null, Popped)
        BY <1>3, <1>5, <1>13, SubmissionActivates
      <3> QED BY <1>10, <2>1, <2>3, <3>1 DEF Staged
    <2>4. CASE "activate" \in Fails[r] /\ StageFails([k EXCEPT !.state[r] = "Submitting"], r)
      <3>1. AfterReport(BeginError([k EXCEPT !.state[r] = "Submitting"], r), r, Popped)
        BY <1>3, <1>5, <1>13, <2>4, SubmissionFails
      <3> QED BY <1>11, <2>1, <2>4, <3>1 DEF StageFails
    <2> QED BY <2>2, <2>3, <2>4
  <1>14. CASE k.state[r] = "Cancelling"
    <2> DEFINE m == PushToCancellationQueue(TeardownAsync(CancelAsync(k, r), r), r)
               held == {r}
    <2>1. loop' = m /\ UNCHANGED cb
      BY <1>1, <1>14 DEF StageSubmission, Staged, AssertRelease
    <2>2. Sound(k, held, Null, Null, Popped) /\ r \in held /\ held \ {r} = {}
      BY <1>5
    <2> HIDE DEF held
    <2>3. AfterCancel(k, m, r, held, Popped)
      BY <1>3, <1>14, <2>2, Cancelled
    <2> HIDE DEF m
    <2>4. Sound(loop', {}, Null, Null, Popped) /\ Keeps(k, loop', {r})
          /\ loop'.state[r] = "Cancelling"
      BY <2>1, <2>2, <2>3 DEF AfterCancel
    <2>5. ClosingInv'
      <3>1. CASE closing = "no"
        BY <1>1, <3>1, ClosingNo
      <3>2. CASE closing = "ran"
        <4>1. /\ \A q \in Sequences : loop.queue[q] = <<>>
              /\ \A x \in Requests : loop.state[x] \in {"Free", "Cancelling"}
          BY <1>2, <3>2 DEF ClosingInv
        <4>2. \A q \in Sequences : loop'.queue[q] = <<>>
          BY <1>5, <2>4, <4>1 DEF Keeps
        <4>3. \A x \in Requests : loop'.state[x] \in {"Free", "Cancelling"}
          BY <1>5, <2>4, <4>1 DEF Keeps
        <4>4. \A x \in Requests : loop'.state[x] # "Active"
          BY <4>3
        <4> QED BY <1>1, <1>6, <2>1, <3>2, <4>2, <4>3, <4>4 DEF ClosingInv, NoCallback
      <3> QED BY <1>6, <3>1, <3>2
    <2> QED BY <1>10, <2>1, <2>4, <2>5
  <1> QED BY <1>5, <1>12, <1>13, <1>14

-----------------------------------------------------------------------------
(* The invariant is inductive                                              *)

\* A loop that was just created.
LEMMA CreatedSound ==
  ASSUME SoundUsage, Init
  PROVE  /\ loop \in Loop /\ Sound(loop, {}, Null, Null, FALSE)
         /\ loop.numberOfExternals = 0 /\ 0 \in 0 .. MaxStarts
         /\ \A r \in Requests : loop.state[r] = "Free"
         /\ loop.submissions = <<>> /\ loop.cancellations = <<>>
  <1>1. PICK s \in Settings : loop =
             [ setting |-> s, state |-> [r \in Requests |-> "Free"],
               manual |-> {}, excluded |-> {}, needsTeardown |-> {},
               listed |-> {}, watched |-> {},
               submissions |-> <<>>, cancellations |-> <<>>,
               manualCompletions |-> <<>>, poolCompletions |-> <<>>,
               numberOfSubmissions |-> 0, numberOfActiveHandles |-> 0,
               numberOfManualCompletions |-> 0, numberOfExternals |-> 0,
               queue |-> [q \in Sequences |-> <<>>],
               runningAsync |-> {}, runningRequest |-> [q \in Sequences |-> Null],
               tracked |-> {}, task |-> [r \in Requests |-> "idle"],
               wake |-> FALSE, runTimers |-> FALSE, interrupted |-> FALSE,
               asserted |-> FALSE ]
    BY DEF Init
  <1>2. /\ <<>> \in Seq(Requests) /\ IsInjective(<<>>) /\ Len(<<>>) = 0
        /\ \A x : ~Contains(<<>>, x)
    BY NothingListed
  <1>3. /\ loop.setting \in Settings /\ loop.asserted = FALSE
        /\ \A r \in Requests : loop.state[r] = "Free" /\ loop.task[r] = "idle"
        /\ loop.manual = {} /\ loop.excluded = {} /\ loop.listed = {} /\ loop.watched = {}
        /\ loop.submissions = <<>> /\ loop.cancellations = <<>>
        /\ loop.manualCompletions = <<>> /\ loop.poolCompletions = <<>>
        /\ loop.numberOfSubmissions = 0 /\ loop.numberOfActiveHandles = 0
        /\ loop.numberOfManualCompletions = 0 /\ loop.numberOfExternals = 0
        /\ \A q \in Sequences : loop.queue[q] = <<>> /\ loop.runningRequest[q] = Null
        /\ loop.runningAsync = {} /\ loop.tracked = {}
    BY <1>1
  <1>4. loop \in Loop
    BY <1>1, <1>2 DEF Loop, States
  <1>5. MaxStarts \in Nat
    BY <1>3, EventLoopAssumption DEF MaxStarts, Setting
  <1>6. Counted(loop)
    <2>1. ActiveIn(loop) = {}
      BY <1>3 DEF ActiveIn
    <2>2. /\ Cardinality(ActiveIn(loop) \ loop.manual) = 0
          /\ Cardinality(ActiveIn(loop) \cap loop.manual) = 0
          /\ Cardinality((ActiveIn(loop) \ loop.manual) \cap loop.excluded) = 0
      BY <1>3, <2>1, FS_EmptySet
    <2> QED BY <1>2, <1>3, <2>2 DEF Counted
  <1>7. \A r \in Requests : loop.setting.sequenceOf[r] \in Sequences \cup {Null}
    BY <1>3, EventLoopAssumption DEF Setting
  <1>8. \A r \in Requests : ~Waits(loop, r)
    BY <1>2, <1>3, <1>7 DEF Waits
  <1>9. Placed(loop, {})
    BY <1>2, <1>3, <1>8 DEF Placed
  <1>10. Tasked(loop, FALSE)
    BY <1>2, <1>3 DEF Tasked
  <1>11. Registered(loop, Null)
    BY <1>3 DEF Registered
  <1>12. InTurn(loop, Null, Null)
    BY <1>3 DEF InTurn, OnItsWay
  <1>13. loop.setting = loop.setting /\ ~loop.asserted /\ 0 \in 0 .. MaxStarts
    BY <1>3, <1>5
  <1>14. Sound(loop, {}, Null, Null, FALSE)
    BY <1>4, <1>6, <1>9, <1>10, <1>11, <1>12, <1>13 DEF Sound, Base
  <1> QED BY <1>3, <1>4, <1>13, <1>14

LEMMA InitInvariant ==
  ASSUME SoundUsage, Init
  PROVE  IInv
  <1>1. /\ loop \in Loop /\ Sound(loop, {}, Null, Null, FALSE)
        /\ loop.numberOfExternals = 0 /\ 0 \in 0 .. MaxStarts
        /\ \A r \in Requests : loop.state[r] = "Free"
        /\ loop.submissions = <<>> /\ loop.cancellations = <<>>
    BY CreatedSound
  <1>2. /\ phase = "idle" /\ syncMode = "Forced" /\ batch = {} /\ cursor = Null
        /\ cb = NoCallback /\ closing = "no" /\ starts = 0
    BY DEF Init
  <1>3. TypeOK
    BY <1>1, <1>2 DEF TypeOK, ClosingStages, NoCallback
  <1>4. Held = {} /\ Again = Null /\ Completing = Null /\ Popped = FALSE
    BY <1>2 DEF Held, Again, Completing, Popped, NoCallback
  <1>5. CallbackInv
    BY <1>2 DEF CallbackInv, NoCallback
  <1>6. PhaseInv
    BY <1>2 DEF PhaseInv, Dispatching
  <1>7. ClosingInv
    BY <1>2 DEF ClosingInv, NoCallback
  <1> QED BY <1>1, <1>3, <1>4, <1>5, <1>6, <1>7 DEF IInv

LEMMA UnchangedKeeps ==
  ASSUME IInv, UNCHANGED vars
  PROVE  IInv'
  <1>1. /\ loop' = loop /\ phase' = phase /\ syncMode' = syncMode /\ batch' = batch
        /\ cursor' = cursor /\ cb' = cb /\ closing' = closing /\ starts' = starts
    BY DEF vars
  <1>2. TypeOK'
    BY <1>1 DEF IInv, TypeOK, MaxStarts
  <1>3. Held' = Held /\ Again' = Again /\ Completing' = Completing /\ Popped' = Popped
    BY <1>1 DEF Held, Again, Completing, Popped
  <1>4. Sound(loop', Held', Again', Completing', Popped')
    BY <1>1, <1>3 DEF IInv
  <1>5. CallbackInv'
    BY <1>1 DEF IInv, CallbackInv, Kind, Watches, SequenceOf
  <1>6. PhaseInv'
    BY <1>1 DEF IInv, PhaseInv, Kind, Watches
  <1>7. ClosingInv'
    BY <1>1 DEF IInv, ClosingInv, SequenceOf
  <1> QED BY <1>2, <1>4, <1>5, <1>6, <1>7, Primed DEF IInv

LEMMA StepInvariant ==
  ASSUME SoundUsage, IInv, [Next]_vars
  PROVE  IInv'
  <1>1. CASE UserStep
    <2>1. CASE \E r \in Requests : Start(r) \/ Stop(r)
      BY <2>1, StartKeeps, StopKeeps
    <2>2. CASE \E r \in Requests : ExcludeFromActiveCount(r) \/ IncludeInActiveCount(r)
      BY <2>2, ExcludeKeeps
    <2>3. CASE \E q \in Sequences : UserClearSequence(q)
      BY <2>3, UserClearKeeps
    <2>4. CASE Interrupt
      BY <2>4, InterruptKeeps
    <2>5. CASE ReactivateRequest
      BY <2>5, ReactivateKeeps
    <2>6. CASE WithdrawReactivation
      BY <2>6, WithdrawKeeps
    <2>7. CASE Close
      BY <2>7, CloseKeeps
    <2>8. CASE Reopen
      BY <2>8, ReopenKeeps
    <2> QED BY <1>1, <2>1, <2>2, <2>3, <2>4, <2>5, <2>6, <2>7, <2>8 DEF UserStep
  <1>2. CASE Return
    BY <1>2, ReturnKeeps
  <1>3. CASE LoopStep
    <2>1. CASE RunStep
      BY <2>1, RunStepKeeps
    <2>2. CASE RunReturns
      BY <2>2, RunReturnsKeeps
    <2>3. CASE SubmitRequests
      BY <2>3, SubmitKeeps
    <2>4. CASE SubmitDone
      BY <2>4, SubmitDoneKeeps
    <2>5. CASE CloseStops
      BY <2>5, CloseStopsKeeps
    <2>6. CASE ClosePops
      BY <2>6, ClosePopsKeeps
    <2>7. CASE DispatchCompletions
      BY <2>7, DispatchKeeps
    <2>8. CASE PhaseDone
      BY <2>8, PhaseDoneKeeps
    <2>9. CASE CloseDone
      BY <2>9, CloseDoneKeeps
    <2>10. CASE \E r \in Requests : InvokeExpiredTimer(r)
      BY <2>10, TimerKeeps
    <2>11. CASE \E e \in batch : ExecuteCompletion(e)
      BY <2>11, EventKeeps
    <2>12. CASE ExecuteManualCompletion
      BY <2>12, ManualKeeps
    <2>13. CASE ExecuteThreadPoolCompletion
      BY <2>13, PoolKeeps
    <2>14. CASE ExecuteCancellationCallback
      BY <2>14, CancellationKeeps
    <2> QED
      BY <1>3, <2>1, <2>2, <2>3, <2>4, <2>5, <2>6, <2>7, <2>8, <2>9, <2>10, <2>11, <2>12,
         <2>13, <2>14 DEF LoopStep
  <1>4. CASE BlockingPoll
    BY <1>4, PollKeeps
  <1>5. CASE \E r \in Requests : TaskPushes(r) \/ TaskWakesLoop(r)
    BY <1>5, WorkersKeep
  <1>6. CASE UNCHANGED vars
    BY <1>6, UnchangedKeeps
  <1> QED BY <1>1, <1>2, <1>3, <1>4, <1>5, <1>6 DEF Next

\* The inductive invariant holds in every state that a sound usage reaches.
THEOREM Invariance == SoundUsage => (Spec => []IInv)
  <1> SUFFICES ASSUME SoundUsage PROVE Spec => []IInv
    OBVIOUS
  <1>1. Init => IInv
    BY InitInvariant
  <1>2. IInv /\ [Next]_vars => IInv'
    BY StepInvariant
  <1> QED
    BY <1>1, <1>2, PTL DEF Spec

-----------------------------------------------------------------------------
(* What the invariant says of the properties of EventLoop                  *)

\* A list without repetitions names a request once or never.
LEMMA OccursOnce ==
  ASSUME NEW s \in Seq(Requests), NEW r \in Requests, IsInjective(s)
  PROVE  Occurs(s, r) = IF Contains(s, r) THEN 1 ELSE 0
  <1> DEFINE I == {i \in DOMAIN s : s[i] = r}
  <1>1. CASE Contains(s, r)
    <2>1. PICK i \in DOMAIN s : s[i] = r
      BY <1>1, LenProperties DEF Contains
    <2>2. I = {i}
      BY <2>1 DEF IsInjective
    <2> QED BY <1>1, <2>2, FS_Singleton DEF Occurs
  <1>2. CASE ~Contains(s, r)
    <2>1. I = {}
      BY <1>2, LenProperties DEF Contains
    <2> QED BY <1>2, <2>1, FS_EmptySet DEF Occurs
  <1> QED BY <1>1, <1>2

LEMMA BookkeepingFollows ==
  ASSUME SoundUsage, IInv
  PROVE  BookkeepingExact
  <1>1. /\ loop \in Loop /\ Sound(loop, Held, Again, Completing, Popped)
        /\ Null \notin Requests /\ CallbackInv
        /\ \A r \in Requests : SequenceOf[r] \in Sequences \cup {Null}
    BY Facts DEF IInv
  <1>2. CountersExact
    BY <1>1 DEF Sound, Base, Counted, ActiveIn, CountersExact
  <1>3. ASSUME NEW r \in Requests
        PROVE  LET st == loop.state[r]
                   cancelling == Occurs(loop.cancellations, r)
               IN
               /\ Occurs(loop.submissions, r) + InQueue(r) =
                      CASE st \in {"Setup", "Reactivate"} -> IF Failing(r) THEN 0 ELSE 1
                        [] st = "Cancelling"              -> 1 - cancelling
                        [] OTHER                          -> 0
               /\ cancelling > 0 => st = "Cancelling"
               /\ Occurs(loop.manualCompletions, r) =
                      IF st = "Active" /\ r \in loop.manual THEN 1 ELSE 0
               /\ r \in loop.listed <=> st = "Active" /\ r \notin loop.manual /\ InTypedList(r)
               /\ Occurs(loop.poolCompletions, r) =
                      IF st \in {"Active", "Cancelling"} /\ loop.task[r] \in {"pushed", "done"}
                          /\ ~Dropped(r)
                      THEN 1 ELSE 0
    <2> DEFINE st == loop.state[r]
    <2>1. /\ Occurs(loop.submissions, r) = IF Contains(loop.submissions, r) THEN 1 ELSE 0
          /\ Occurs(loop.cancellations, r) = IF Contains(loop.cancellations, r) THEN 1 ELSE 0
          /\ Occurs(loop.manualCompletions, r) =
               IF Contains(loop.manualCompletions, r) THEN 1 ELSE 0
          /\ Occurs(loop.poolCompletions, r) =
               IF Contains(loop.poolCompletions, r) THEN 1 ELSE 0
      BY <1>1, OccursOnce DEF Loop, Sound, Base, Placed, Tasked
    <2>2. InQueue(r) = IF Waits(loop, r) THEN 1 ELSE 0
      <3>1. CASE SequenceOf[r] = Null
        BY <3>1 DEF InQueue, Waits, SequenceOf
      <3>2. CASE SequenceOf[r] # Null
        <4> DEFINE q == SequenceOf[r]
        <4>1. q \in Sequences
          BY <1>1, <3>2
        <4>2. loop.queue[q] \in Seq(Requests) /\ IsInjective(loop.queue[q])
          BY <1>1, <4>1 DEF Loop, Sound, Base, Placed
        <4>3. Occurs(loop.queue[q], r) = IF Contains(loop.queue[q], r) THEN 1 ELSE 0
          BY <4>2, OccursOnce
        <4> QED BY <3>2, <4>3 DEF InQueue, Waits, SequenceOf
      <3> QED BY <3>1, <3>2
    <2>3. r \in Held <=> Failing(r)
      BY DEF Held, Failing
    <2>4. /\ r \in Held => st \in {"Setup", "Submitting"}
          /\ st \in {"Free", "Setup", "Submitting", "Active", "Reactivate", "Cancelling"}
      BY <1>1, <2>3 DEF CallbackInv, Failing, Loop, States
    <2>5. /\ Contains(loop.submissions, r) <=> r \notin Held /\
               \/ st \in {"Setup", "Reactivate"} /\ ~Waits(loop, r)
               \/ st = "Cancelling" /\ ~Contains(loop.cancellations, r)
          /\ Waits(loop, r) => st = "Setup" /\ r \notin Held
          /\ Contains(loop.cancellations, r) => st = "Cancelling"
          /\ Contains(loop.manualCompletions, r) <=> r \in loop.manual
          /\ r \in loop.manual => st = "Active"
          /\ r \in loop.listed <=>
               st = "Active" /\ r \notin loop.manual /\ SequenceOf[r] = Null
      BY <1>1 DEF Sound, Base, Placed, SequenceOf
    <2>6. InTypedList(r) <=> SequenceOf[r] = Null
      BY <1>1, SettingFacts DEF InTypedList, SequenceOf, Kind
    <2>7. /\ Contains(loop.poolCompletions, r) => loop.task[r] \in {"pushed", "done"}
          /\ loop.task[r] \in {"pushed", "done"} =>
               Contains(loop.poolCompletions, r) \/ (st = "Cancelling" /\ Popped)
          /\ loop.task[r] # "idle" => st \in {"Active", "Cancelling"}
          /\ Dropped(r) <=> Popped /\ ~Contains(loop.poolCompletions, r)
      BY <1>1 DEF Sound, Base, Tasked, Dropped, Popped
    <2> HIDE DEF st
    <2>8. Occurs(loop.submissions, r) + InQueue(r) =
             CASE st \in {"Setup", "Reactivate"} -> IF Failing(r) THEN 0 ELSE 1
               [] st = "Cancelling"              -> 1 - Occurs(loop.cancellations, r)
               [] OTHER                          -> 0
      BY <2>1, <2>2, <2>3, <2>4, <2>5
    <2>9. Occurs(loop.cancellations, r) > 0 => st = "Cancelling"
      BY <2>1, <2>5
    <2>10. Occurs(loop.manualCompletions, r) = IF st = "Active" /\ r \in loop.manual THEN 1 ELSE 0
      BY <2>1, <2>5
    <2>11. r \in loop.listed <=> st = "Active" /\ r \notin loop.manual /\ InTypedList(r)
      BY <2>5, <2>6
    <2>12. Occurs(loop.poolCompletions, r) =
             IF st \in {"Active", "Cancelling"} /\ loop.task[r] \in {"pushed", "done"} /\ ~Dropped(r)
             THEN 1 ELSE 0
      BY <2>1, <2>7
    <2> QED BY <2>8, <2>9, <2>10, <2>11, <2>12 DEF st
  <1>4. FoundWhereStateSays
    BY <1>3 DEF FoundWhereStateSays
  <1> QED BY <1>2, <1>4 DEF BookkeepingExact

LEMMA WatchersFollow ==
  ASSUME SoundUsage, IInv
  PROVE  WatchersExact
  <1>1. /\ loop \in Loop /\ Sound(loop, Held, Again, Completing, Popped)
        /\ Null \notin Requests /\ CallbackInv
    BY Facts DEF IInv
  <1>2. ASSUME NEW r \in Requests
        PROVE  LET st == loop.state[r] IN
               /\ r \in loop.watched =>
                      \/ st \in {"Active", "Reactivate"} \/ cb.req = r
                      \/ st = "Cancelling" /\ Occurs(loop.submissions, r) = 1
               /\ st \in {"Active", "Reactivate"} /\ Watches(r) => r \in loop.watched
    <2>1. Occurs(loop.submissions, r) = IF Contains(loop.submissions, r) THEN 1 ELSE 0
      BY <1>1, OccursOnce DEF Loop, Sound, Base, Placed
    <2>2. loop.state[r] = "Cancelling" => r \notin Held
      BY <1>1 DEF CallbackInv, Held
    <2>3. loop.state[r] = "Cancelling" /\ ~Contains(loop.cancellations, r) =>
            Occurs(loop.submissions, r) = 1
      BY <1>1, <2>1, <2>2 DEF Sound, Base, Placed
    <2>4. r = Completing => cb.req = r
      BY <1>1 DEF Completing
    <2> QED BY <1>1, <2>3, <2>4 DEF Sound, Base, Registered, Watches, Kind
  <1> QED BY <1>2 DEF WatchersExact

LEMMA AtMostOne ==
  ASSUME NEW S, \A x, y \in S : x = y
  PROVE  Cardinality(S) <= 1
  <1>1. CASE S = {}
    BY <1>1, FS_EmptySet
  <1>2. CASE S # {}
    <2>1. PICK x : x \in S
      BY <1>2
    <2>2. S = {x}
      BY <2>1
    <2> QED BY <2>2, FS_Singleton
  <1> QED BY <1>1, <1>2

LEMMA SerialFollows ==
  ASSUME SoundUsage, IInv
  PROVE  SequenceSerial
  <1>1. /\ loop \in Loop /\ Sound(loop, Held, Again, Completing, Popped)
        /\ Null \notin Requests /\ Null \notin Sequences
    BY Facts
  <1>2. ASSUME NEW q \in Sequences
        PROVE  Cardinality({r \in Requests :
                 /\ SequenceOf[r] = q
                 /\ \/ loop.state[r] = "Active"
                    \/ loop.state[r] \in {"Setup", "Reactivate"}
                       /\ Contains(loop.submissions, r)}) <= 1
    <2> DEFINE S == {r \in Requests :
                 /\ SequenceOf[r] = q
                 /\ \/ loop.state[r] = "Active"
                    \/ loop.state[r] \in {"Setup", "Reactivate"}
                       /\ Contains(loop.submissions, r)}
    <2>1. ASSUME NEW r \in S
          PROVE  loop.runningRequest[q] = r \/ (r = Again /\ q \notin loop.runningAsync)
      <3>1. /\ r \in Requests /\ loop.setting.sequenceOf[r] = q /\ q # Null
            /\ \/ loop.state[r] = "Active"
               \/ loop.state[r] \in {"Setup", "Reactivate"} /\ Contains(loop.submissions, r)
        BY <1>1 DEF SequenceOf
      <3>2. ~Waits(loop, r)
        BY <1>1, <3>1 DEF Sound, Base, Placed
      <3> QED BY <1>1, <3>1, <3>2 DEF Sound, InTurn, OnItsWay
    <2>2. q \in loop.runningAsync <=> loop.runningRequest[q] # Null
      BY <1>1 DEF Sound, InTurn
    <2>3. \A x \in S : x # Null
      BY <1>1
    <2> HIDE DEF S
    <2>4. \A x, y \in S : x = y
      BY <2>1, <2>2, <2>3
    <2>5. Cardinality(S) <= 1
      BY <2>4, AtMostOne
    <2> QED BY <2>5 DEF S
  <1> QED BY <1>2 DEF SequenceSerial

LEMMA ClosedFollows ==
  ASSUME SoundUsage, IInv
  PROVE  CloseLeavesNothing
  <1> SUFFICES ASSUME phase = "closed"
               PROVE  /\ \A r \in Requests :
                            loop.state[r] = "Free" /\ loop.task[r] \in {"idle", "done"}
                      /\ loop.watched = {} /\ loop.tracked = {}
                      /\ loop.numberOfActiveHandles = 0 /\ loop.numberOfExternals = 0
                      /\ loop.numberOfManualCompletions = 0 /\ loop.numberOfSubmissions = 0
    BY DEF CloseLeavesNothing
  <1>1. cb = NoCallback /\ \A r \in Requests : loop.state[r] = "Free"
    BY DEF IInv, ClosingInv
  <1>2. /\ loop \in Loop /\ Sound(loop, {}, Null, Null, Popped)
        /\ Null \notin Requests /\ Null \notin Sequences
    BY <1>1, QuietFacts
  <1>3. \A r \in Requests : loop.task[r] = "idle" /\ ~Waits(loop, r)
    BY <1>1, <1>2 DEF Sound, Base, Tasked, Placed
  <1>4. loop.watched = {}
    <2>1. loop.watched \subseteq Requests
      BY <1>2 DEF Loop
    <2>2. ASSUME NEW r \in Requests, r \in loop.watched PROVE FALSE
      <3>1. loop.state[r] = "Free" /\ r # Null
        BY <1>1, <1>2
      <3> QED BY <1>2, <2>2, <3>1 DEF Sound, Base, Registered
    <2> QED BY <2>1, <2>2
  <1>5. loop.submissions = <<>>
    <2>1. loop.submissions \in Seq(Requests) /\ \A r \in Requests : ~Contains(loop.submissions, r)
      BY <1>1, <1>2 DEF Sound, Base, Placed, Loop
    <2> QED BY <2>1, EmptyList
  <1>6. ASSUME NEW q \in loop.tracked PROVE FALSE
    <2>1. q \in Sequences /\ loop.queue[q] \in Seq(Requests)
          /\ loop.runningRequest[q] \in Requests \cup {Null}
      BY <1>2 DEF Loop
    <2>2. q \notin loop.runningAsync
      BY <1>1, <1>2, <2>1 DEF Sound, InTurn, OnItsWay
    <2>3. \A r \in Requests : ~Contains(loop.queue[q], r)
      BY <1>2, <1>3, <2>1 DEF Sound, Base, Placed, Waits
    <2>4. loop.queue[q] = <<>>
      BY <2>1, <2>3, EmptyList
    <2> QED BY <1>2, <2>1, <2>2, <2>4 DEF Sound, InTurn
  <1>7. /\ loop.numberOfActiveHandles = 0 /\ loop.numberOfManualCompletions = 0
        /\ -loop.numberOfExternals = 0 /\ loop.numberOfSubmissions = Len(loop.submissions)
    <2>1. ActiveIn(loop) = {}
      BY <1>1 DEF ActiveIn
    <2>2. /\ ActiveIn(loop) \ loop.manual = {} /\ ActiveIn(loop) \cap loop.manual = {}
          /\ (ActiveIn(loop) \ loop.manual) \cap loop.excluded = {}
      BY <2>1
    <2> QED BY <1>2, <2>2, FS_EmptySet DEF Sound, Base, Counted
  <1>8. loop.numberOfSubmissions = 0
    BY <1>5, <1>7, NothingListed
  <1>9. loop.numberOfExternals = 0
    <2>1. loop.numberOfExternals \in Int
      BY <1>2 DEF Loop
    <2> QED BY <1>7, <2>1
  <1> QED BY <1>1, <1>3, <1>4, <1>6, <1>7, <1>8, <1>9

-----------------------------------------------------------------------------
(* For whom a callback is                                                  *)

OwedBy(r) == loop.state[r] \in {"Active", "Setup", "Reactivate"}

LEMMA SubmissionOwes ==
  ASSUME SoundUsage, IInv, SubmitRequests, cb' # cb
  PROVE  cb'.kind = "error" /\ OwedBy(cb'.req)
  <1> DEFINE r == Head(loop.submissions)
             k == Dequeuing(loop)
  <1>1. /\ cb = NoCallback /\ loop.submissions # <<>> /\ StageSubmission(r, k)
    BY DEF SubmitRequests, Running, Dequeuing
  <1>2. k.state = loop.state
    <2>1. loop \in Loop
      BY Facts
    <2> QED BY <2>1 DEF Dequeuing, Loop
  <1> HIDE DEF r, k
  <1>3. k.state[r] \in {"Setup", "Reactivate"} /\ cb' = Call("error", r, FALSE)
    BY <1>1 DEF StageSubmission, Staged, StageFails
  <1> QED BY <1>2, <1>3 DEF OwedBy, Call

LEMMA EventOwes ==
  ASSUME SoundUsage, IInv, NEW e \in batch, ExecuteCompletion(e), cb' # cb
  PROVE  OwedBy(cb'.req)
  <1>1. cb = NoCallback /\ phase = "events" /\ e.req # Null /\ EventCounts(e.req)
    BY DEF ExecuteCompletion, Running
  <1>2. PhaseInv
    BY <1>1, QuietFacts
  <1>3. ~e.err /\ loop.state[e.req] = "Active"
    BY <1>1, <1>2 DEF PhaseInv, EventCounts
  <1>4. cb' \in {Call("complete", e.req, ok) : ok \in Outcomes(e.req)}
    BY <1>1, <1>3 DEF ExecuteCompletion
  <1>5. cb'.req = e.req
    BY <1>4 DEF Call
  <1> QED BY <1>3, <1>5 DEF OwedBy

LEMMA ManualOwes ==
  ASSUME SoundUsage, IInv, ExecuteManualCompletion
  PROVE  OwedBy(cb'.req)
  <1> DEFINE r == Head(loop.manualCompletions)
  <1>1. /\ cb = NoCallback /\ loop.manualCompletions # <<>>
        /\ \E ok \in Outcomes(r) : cb' = Call("complete", r, ok)
    BY DEF ExecuteManualCompletion, Running
  <1>2. loop \in Loop /\ Sound(loop, {}, Null, Null, Popped)
    BY <1>1, QuietFacts
  <1>3. loop.manualCompletions \in Seq(Requests) /\ IsInjective(loop.manualCompletions)
    BY <1>2 DEF Sound, Base, Placed, Loop
  <1>4. r \in Requests /\ Contains(loop.manualCompletions, r)
    BY <1>1, <1>3, HeadTaken
  <1> HIDE DEF r
  <1>5. loop.state[r] = "Active" /\ cb'.req = r
    BY <1>1, <1>2, <1>4 DEF Sound, Base, Placed, Call
  <1> QED BY <1>5 DEF OwedBy

LEMMA PoolOwes ==
  ASSUME SoundUsage, IInv, ExecuteThreadPoolCompletion
  PROVE  OwedBy(cb'.req)
  <1> DEFINE r == Head(loop.poolCompletions)
  <1>1. /\ cb = NoCallback /\ phase = "pool" /\ loop.poolCompletions # <<>>
        /\ \E ok \in Outcomes(r) : cb' = Call("complete", r, ok)
    BY DEF ExecuteThreadPoolCompletion, Running
  <1>2. loop \in Loop /\ Sound(loop, {}, Null, Null, Popped) /\ PhaseInv
    BY <1>1, QuietFacts
  <1>3. loop.poolCompletions \in Seq(Requests) /\ IsInjective(loop.poolCompletions)
    BY <1>2 DEF Sound, Base, Tasked, Loop
  <1>4. r \in Requests /\ Contains(loop.poolCompletions, r)
    BY <1>1, <1>3, HeadTaken
  <1> HIDE DEF r
  <1>5. /\ loop.setting.kind[r] = "work"
        /\ \/ loop.state[r] = "Active"
           \/ loop.state[r] = "Cancelling" /\ ~Contains(loop.cancellations, r)
    BY <1>2, <1>4 DEF Sound, Base, Tasked
  <1>6. loop.state[r] = "Active" /\ cb'.req = r
    BY <1>1, <1>2, <1>4, <1>5 DEF PhaseInv, Dispatching, Kind, Call
  <1> QED BY <1>6 DEF OwedBy

LEMMA TimerOwes ==
  ASSUME SoundUsage, IInv, NEW r \in Requests, InvokeExpiredTimer(r)
  PROVE  OwedBy(cb'.req)
  <1>1. cb = NoCallback /\ r \in loop.listed /\ cb' = Call("timer", r, TRUE)
    BY DEF InvokeExpiredTimer, Running, Timers
  <1>2. Sound(loop, {}, Null, Null, Popped)
    BY <1>1, QuietFacts
  <1>3. loop.state[r] = "Active" /\ cb'.req = r
    BY <1>1, <1>2 DEF Sound, Base, Placed, Call
  <1> QED BY <1>3 DEF OwedBy

\* One step of CallbackIsOwed.
LEMMA CallbackFollows ==
  ASSUME SoundUsage, IInv, [Next]_vars,
         cb' # cb, cb'.kind \in {"complete", "error", "timer"}, cb.kind = "none"
  PROVE  OwedBy(cb'.req)
  <1>1. cb = NoCallback
    BY DEF IInv, CallbackInv
  <1>2. CASE UserStep
    <2>1. ~cb.again /\ cb.kind \notin {"complete", "error", "timer"}
      BY <1>1 DEF NoCallback
    <2> QED
      BY <1>2, <2>1 DEF UserStep, Start, Stop, ExcludeFromActiveCount, IncludeInActiveCount,
         UserClearSequence, Interrupt, ReactivateRequest, WithdrawReactivation, Close, Reopen
  <1>3. CASE Return
    BY <1>1, <1>3 DEF Return
  <1>4. CASE LoopStep
    <2>1. CASE RunStep \/ RunReturns \/ SubmitDone \/ CloseStops \/ ClosePops
      BY <2>1 DEF RunStep, RunReturns, SubmitDone, CloseStops, ClosePops
    <2>2. CASE DispatchCompletions \/ PhaseDone \/ CloseDone
      BY <2>2 DEF DispatchCompletions, PhaseDone, CloseDone
    <2>3. CASE SubmitRequests
      BY <2>3, SubmissionOwes
    <2>4. CASE \E r \in Requests : InvokeExpiredTimer(r)
      BY <2>4, TimerOwes
    <2>5. CASE \E e \in batch : ExecuteCompletion(e)
      BY <2>5, EventOwes
    <2>6. CASE ExecuteManualCompletion
      BY <2>6, ManualOwes
    <2>7. CASE ExecuteThreadPoolCompletion
      BY <2>7, PoolOwes
    <2>8. CASE ExecuteCancellationCallback
      BY <2>8 DEF ExecuteCancellationCallback, Call
    <2> QED BY <1>4, <2>1, <2>2, <2>3, <2>4, <2>5, <2>6, <2>7, <2>8 DEF LoopStep
  <1>5. CASE BlockingPoll
    BY <1>5 DEF BlockingPoll
  <1>6. CASE \E r \in Requests : TaskPushes(r) \/ TaskWakesLoop(r)
    BY <1>6 DEF TaskPushes, TaskWakesLoop
  <1>7. CASE UNCHANGED vars
    BY <1>7 DEF vars
  <1> QED BY <1>2, <1>3, <1>4, <1>5, <1>6, <1>7 DEF Next

-----------------------------------------------------------------------------
(* The theorems                                                            *)

\* Every variable keeps its type, and excluding handles never adds to the active count.
THEOREM TypeCorrect == SoundUsage => (Spec => []TypeOK)
  <1>1. IInv => TypeOK
    BY DEF IInv
  <1> QED
    BY <1>1, Invariance, PTL

\* AsyncEventLoop::Internal: the counters that decide whether run() goes on and whether a
\* poll may block count the active requests, and every request is in the one list that its
\* state names, for any number of requests and sequences.
THEOREM BookkeepingIsExact == SoundUsage => (Spec => []BookkeepingExact)
  <1> SUFFICES ASSUME SoundUsage PROVE Spec => []BookkeepingExact
    OBVIOUS
  <1>1. IInv => BookkeepingExact
    BY BookkeepingFollows
  <1> QED
    BY <1>1, Invariance, PTL

\* teardownAsync: epoll knows a request only while the loop does, and an active socket or
\* readiness request is always registered.
THEOREM WatchersAreExact == SoundUsage => (Spec => []WatchersExact)
  <1> SUFFICES ASSUME SoundUsage PROVE Spec => []WatchersExact
    OBVIOUS
  <1>1. IInv => WatchersExact
    BY WatchersFollow
  <1> QED
    BY <1>1, Invariance, PTL

\* SC_ASYNC_ASSERT_RELEASE: no sound usage of the loop makes an assertion fail.
THEOREM AssertionsHold == SoundUsage => (Spec => []NoAssertionFails)
  <1>1. IInv => NoAssertionFails
    BY DEF IInv, Sound, Base, NoAssertionFails
  <1> QED
    BY <1>1, Invariance, PTL

\* AsyncSequence: at most one request of a sequence is submitted or active at any time.
THEOREM SequencesAreSerial == SoundUsage => (Spec => []SequenceSerial)
  <1> SUFFICES ASSUME SoundUsage PROVE Spec => []SequenceSerial
    OBVIOUS
  <1>1. IInv => SequenceSerial
    BY SerialFollows
  <1> QED
    BY <1>1, Invariance, PTL

\* AsyncEventLoop::close: it leaves no request, registration, task or count behind.
THEOREM ClosedLeavesNothing == SoundUsage => (Spec => []CloseLeavesNothing)
  <1> SUFFICES ASSUME SoundUsage PROVE Spec => []CloseLeavesNothing
    OBVIOUS
  <1>1. IInv => CloseLeavesNothing
    BY ClosedFollows
  <1> QED
    BY <1>1, Invariance, PTL

\* AsyncRequest::stop, runStepExecuteCompletions: a completion, a failure or an expired
\* timer is only ever reported for a request that is active or being submitted.
THEOREM CallbacksAreOwed == SoundUsage => (Spec => CallbackIsOwed)
  <1> SUFFICES ASSUME SoundUsage PROVE Spec => CallbackIsOwed
    OBVIOUS
  <1>1. IInv /\ [Next]_vars =>
          [cb' # cb /\ cb'.kind \in {"complete", "error", "timer"} /\ cb.kind = "none" =>
             loop.state[cb'.req] \in {"Active", "Setup", "Reactivate"}]_vars
    BY CallbackFollows DEF OwedBy
  <1> QED
    BY <1>1, Invariance, PTL DEF Spec, CallbackIsOwed
=============================================================================
