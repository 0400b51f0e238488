-------------------------- MODULE LoopMonitorProofs --------------------------
(***************************************************************************)
(* LoopWakeUp and LoopMonitor, for any requests and threads: the active    *)
(* list and the walk along it are sound, no wake-up is lost, and a monitor *)
(* never polls the loop while the application uses it.                     *)
(*                                                                         *)
(* LoopInv is what the loop keeps by itself, whoever drives it; Quiet is   *)
(* what holds between a poll and the wake-ups it reported, which a monitor *)
(* keeps up only until it is closed; Handshake says who has the loop.      *)
(***************************************************************************)
EXTENDS LoopMonitor, SequenceTheorems, FiniteSetTheorems, TLAPS

\* The two usages that the theorems leave out, see MayStart, MayStop, MayCreate.
UsualUsage == Usage = {}
NeverRecreated == Recreates = FALSE

\* The lists: a request is linked once, in the list its state names.
ListsSound ==
    /\ IsInjective(activeLoopWakeUps) /\ IsInjective(submissions)
    /\ \A r \in Requests :
        /\ Contains(activeLoopWakeUps, r) <=> state[r] = "Active"
        /\ state[r] \in {"Setup", "Reactivate"} => Contains(submissions, r)
        /\ Contains(submissions, r) => state[r] \in {"Setup", "Reactivate", "Cancelling"}

\* The walk: its next request stays linked while a callback runs.
WalkInv ==
    /\ ~asserted
    /\ Walking /\ cursor # Null => Contains(activeLoopWakeUps, cursor)
    /\ loop \in {"callback", "return"} => current # Null
    /\ reactivated => loop \in {"callback", "return"} /\ state[current] # "Active"

\* Who will notice the wake-ups of a request, also of one that is not active yet.
Noticed(r) ==
    \/ wakeUpPending \/ r \in Ahead \/ loop = "notify"
    \/ \E t \in Threads : thread[t] = "notify"
    \/ loop \in {"callback", "return"} /\ reactivated /\ r = current

WakeUpInv ==
    /\ \A r \in Requests :
        state[r] \in {"Setup", "Reactivate", "Active"} /\ pendingWakeUps[r] > 0 => Noticed(r)
    /\ wakeUpPending =>
        \/ eventFd \/ loop \in {"clear", "write"}
        \/ \E t \in Threads : thread[t] = "write"

LoopInv == TypeOK /\ ListsSound /\ WalkInv /\ WakeUpInv

\* Whoever is submitted is active before a poll, and nobody starts until its wake-ups are
\* executed: the walk meets them all.
Quiet ==
    loop \in {"poll", "clear"} \/ (loop = "dispatch" /\ ready) =>
        \A r \in Requests : Contains(submissions, r) => state[r] = "Cancelling"

\* The application has the loop and the monitoring thread waits for it...
Held == monitor \in {"test", "enter"} /\ ~enterBlockingMode /\ ~exitBlockingMode

\* ... or the loop is with the monitoring thread, on its way there or back.
Lent ==
    \/ /\ loop = "poll" /\ ~exitBlockingMode
       /\ \/ monitor \in {"test", "enter"} /\ enterBlockingMode
          \/ monitor = "poll" /\ ~enterBlockingMode
    \/ /\ loop = "dispatch" /\ ~enterBlockingMode
       /\ \/ monitor \in {"polled", "exit"} /\ ~exitBlockingMode
          \/ monitor \in {"test", "enter"} /\ exitBlockingMode

Closing == app \in {"finish", "interrupt", "join"}

Handshake ==
    /\ MonitorTypeOK
    /\ ~monitored =>
        /\ app = "idle" /\ monitor = "none"
        /\ ~finished => ~enterBlockingMode /\ ~exitBlockingMode
    /\ monitored /\ ~finished =>
        /\ ~Closing
        /\ IF app \in {"wake", "await"} \/ (app = "idle" /\ loop # "idle") THEN Lent ELSE Held
    /\ monitored /\ finished => Closing /\ loop \in {"idle", "poll", "dispatch"}
    /\ app = "submit" => loop = "submit"
    /\ app = "enter" => loop = "poll"
    /\ app = "reset" => loop = "dispatch"
    /\ thread[App] = "idle" \/ app \in {"await", "join"}

MonitorInv == LoopInv /\ (Quiet \/ Closing) /\ Handshake

-----------------------------------------------------------------------------
(* Lists of distinct elements                                              *)

LEMMA PositionFound ==
    ASSUME NEW S, NEW list \in Seq(S), NEW r, Contains(list, r)
    PROVE  Position(list, r) \in 1 .. Len(list) /\ list[Position(list, r)] = r
  <1>1. PICK i \in 1 .. Len(list) : list[i] = r
    BY DEF Contains
  <1>2. i \in DOMAIN list /\ DOMAIN list = 1 .. Len(list)
    BY <1>1, LenProperties
  <1> QED
    BY <1>1, <1>2 DEF Position

LEMMA RemoveAtIndexed ==
    ASSUME NEW S, NEW list \in Seq(S), NEW i \in 1 .. Len(list)
    PROVE  /\ RemoveAt(list, i) \in Seq(S)
           /\ Len(RemoveAt(list, i)) = Len(list) - 1
           /\ \A j \in 1 .. Len(list) - 1 :
                RemoveAt(list, i)[j] = IF j < i THEN list[j] ELSE list[j + 1]
  <1> DEFINE left == SubSeq(list, 1, i - 1)
             right == SubSeq(list, i + 1, Len(list))
  <1>1. Len(list) \in Nat /\ \A j \in 1 .. Len(list) : list[j] \in S
    BY LenProperties, ElementOfSeq
  <1>2. /\ left \in Seq(S) /\ Len(left) = i - 1
        /\ \A j \in 1 .. i - 1 : left[j] = list[j]
    BY <1>1, SubSeqProperties
  <1>3. /\ right \in Seq(S) /\ Len(right) = Len(list) - i
        /\ \A j \in 1 .. Len(list) - i : right[j] = list[i + j]
    <2>1. /\ right \in Seq(S)
          /\ Len(right) = IF i + 1 <= Len(list) THEN Len(list) - (i + 1) + 1 ELSE 0
          /\ \A j \in 1 .. Len(list) - (i + 1) + 1 : right[j] = list[(i + 1) + j - 1]
      BY <1>1, SubSeqProperties
    <2> QED BY <1>1, <2>1
  <1>4. /\ left \o right \in Seq(S)
        /\ Len(left \o right) = Len(left) + Len(right)
        /\ \A j \in 1 .. Len(left) + Len(right) :
             (left \o right)[j] = IF j <= Len(left) THEN left[j] ELSE right[j - Len(left)]
    BY <1>2, <1>3, ConcatProperties
  <1> HIDE DEF left, right
  <1>5. ASSUME NEW j \in 1 .. Len(list) - 1
        PROVE  (left \o right)[j] = IF j < i THEN list[j] ELSE list[j + 1]
    <2>1. CASE j < i
      BY <1>1, <1>2, <1>3, <1>4, <2>1
    <2>2. CASE ~(j < i)
      <3>1. j - Len(left) \in 1 .. Len(list) - i /\ i + (j - Len(left)) = j + 1
        BY <1>1, <1>2, <2>2
      <3>2. right[j - Len(left)] = list[j + 1]
        BY <1>3, <3>1
      <3>3. (left \o right)[j] = right[j - Len(left)]
        BY <1>1, <1>2, <1>3, <1>4, <2>2
      <3> QED BY <2>2, <3>2, <3>3
    <2> QED BY <2>1, <2>2
  <1>6. RemoveAt(list, i) = left \o right
    BY DEF RemoveAt, left, right
  <1>7. Len(left \o right) = Len(list) - 1
    BY <1>1, <1>2, <1>3, <1>4
  <1> QED
    BY <1>4, <1>5, <1>6, <1>7

\* Unlinking takes one element out and keeps the others and their order.
LEMMA Unlinked ==
    ASSUME NEW S, NEW list \in Seq(S), IsInjective(list), NEW r
    PROVE  /\ Unlink(list, r) \in Seq(S)
           /\ IsInjective(Unlink(list, r))
           /\ \A x : Contains(Unlink(list, r), x) <=> Contains(list, x) /\ x # r
           /\ \A c : Contains(list, c) /\ c # r =>
                From(Unlink(list, r), c) = From(list, c) \ {r}
  <1>0. Len(list) \in Nat /\ DOMAIN list = 1 .. Len(list)
    BY LenProperties
  <1>1. CASE ~Contains(list, r)
    <2>1. Unlink(list, r) = list
      BY <1>1 DEF Unlink
    <2>2. \A x : Contains(list, x) => x # r
      BY <1>1
    <2>3. ASSUME NEW c, Contains(list, c) PROVE r \notin From(list, c)
      <3>1. Position(list, c) \in 1 .. Len(list)
        BY <2>3, PositionFound
      <3> QED BY <1>0, <1>1, <3>1 DEF From, Contains
    <2> QED BY <2>1, <2>2, <2>3
  <1>2. CASE Contains(list, r)
    <2> DEFINE i == Position(list, r)
               u == RemoveAt(list, i)
    <2>1. i \in 1 .. Len(list) /\ list[i] = r
      BY <1>2, PositionFound
    <2>2. Unlink(list, r) = u
      BY <1>2 DEF Unlink
    <2>3. /\ u \in Seq(S) /\ Len(u) = Len(list) - 1
          /\ \A j \in 1 .. Len(list) - 1 : u[j] = IF j < i THEN list[j] ELSE list[j + 1]
      <3> HIDE DEF i
      <3> QED BY <2>1, RemoveAtIndexed
    <2> HIDE DEF i, u
    <2>4. DOMAIN u = 1 .. Len(list) - 1
      BY <2>3, LenProperties
    <2>5. \A j, k \in 1 .. Len(list) : list[j] = list[k] => j = k
      BY <1>0 DEF IsInjective
    <2>6. IsInjective(u)
      <3> SUFFICES ASSUME NEW j \in 1 .. Len(list) - 1, NEW k \in 1 .. Len(list) - 1,
                          u[j] = u[k]
                   PROVE  j = k
        BY <2>4 DEF IsInjective
      <3> DEFINE at(n) == IF n < i THEN n ELSE n + 1
      <3>1. at(j) \in 1 .. Len(list) /\ at(k) \in 1 .. Len(list)
        BY <1>0, <2>1
      <3>2. list[at(j)] = list[at(k)]
        BY <2>3
      <3>3. at(j) = at(k)
        BY <2>5, <3>1, <3>2
      <3> QED BY <1>0, <2>1, <3>3
    <2>7. ASSUME NEW x PROVE Contains(u, x) <=> Contains(list, x) /\ x # r
      <3>1. ASSUME NEW j \in 1 .. Len(list) - 1, u[j] = x PROVE Contains(list, x) /\ x # r
        <4>1. CASE j < i
          BY <1>0, <2>1, <2>3, <2>5, <3>1, <4>1 DEF Contains
        <4>2. CASE ~(j < i)
          <5>1. list[j + 1] = x /\ j + 1 \in 1 .. Len(list) /\ j + 1 # i
            BY <1>0, <2>1, <2>3, <3>1, <4>2
          <5> QED BY <2>1, <2>5, <5>1 DEF Contains
        <4> QED BY <4>1, <4>2
      <3>2. ASSUME NEW j \in 1 .. Len(list), list[j] = x, x # r PROVE Contains(u, x)
        <4>1. CASE j < i
          BY <1>0, <2>1, <2>3, <3>2, <4>1 DEF Contains
        <4>2. CASE ~(j < i)
          <5>1. j - 1 \in 1 .. Len(list) - 1 /\ ~(j - 1 < i)
            BY <1>0, <2>1, <3>2, <4>2
          <5>2. u[j - 1] = x
            BY <1>0, <2>3, <3>2, <5>1
          <5> QED BY <2>3, <5>1, <5>2 DEF Contains
        <4> QED BY <4>1, <4>2
      <3> QED BY <2>3, <3>1, <3>2 DEF Contains
    <2>8. ASSUME NEW c, Contains(list, c), c # r PROVE From(u, c) = From(list, c) \ {r}
      <3> DEFINE p == Position(list, c)
                 q == Position(u, c)
      <3>1. p \in 1 .. Len(list) /\ list[p] = c
        BY <2>8, PositionFound
      <3>2. q \in 1 .. Len(list) - 1 /\ u[q] = c
        BY <2>3, <2>7, <2>8, PositionFound
      <3> HIDE DEF p, q
      <3>3. p = IF q < i THEN q ELSE q + 1
        BY <1>0, <2>1, <2>3, <2>5, <3>1, <3>2
      <3>4. ASSUME NEW x \in From(u, c) PROVE x \in From(list, c) /\ x # r
        <4>1. PICK j \in q .. Len(list) - 1 : x = u[j]
          BY <2>3 DEF From, q
        <4>2. j \in 1 .. Len(list) - 1
          BY <1>0, <3>2, <4>1
        <4>3. Contains(u, x)
          BY <2>3, <4>1, <4>2 DEF Contains
        <4>4. (IF j < i THEN j ELSE j + 1) \in p .. Len(list)
          BY <1>0, <2>1, <3>2, <3>3, <4>1
        <4>5. x = list[IF j < i THEN j ELSE j + 1]
          BY <2>3, <4>1, <4>2
        <4> QED BY <2>7, <4>3, <4>4, <4>5 DEF From, p
      <3>5. ASSUME NEW x \in From(list, c), x # r PROVE x \in From(u, c)
        <4>1. PICK j \in p .. Len(list) : x = list[j]
          BY DEF From, p
        <4>2. j # i
          BY <2>1, <3>5, <4>1
        <4>3. CASE j < i
          <5>1. j \in q .. Len(list) - 1 /\ j \in 1 .. Len(list) - 1
            BY <1>0, <2>1, <3>1, <3>2, <3>3, <4>1, <4>3
          <5>2. u[j] = x
            BY <2>3, <4>1, <4>3, <5>1
          <5> QED BY <2>3, <5>1, <5>2 DEF From, q
        <4>4. CASE i < j
          <5>1. j - 1 \in q .. Len(list) - 1 /\ j - 1 \in 1 .. Len(list) - 1 /\ ~(j - 1 < i)
            BY <1>0, <2>1, <3>1, <3>2, <3>3, <4>1, <4>4
          <5>2. u[j - 1] = x
            BY <1>0, <2>3, <4>1, <5>1
          <5> QED BY <2>3, <5>1, <5>2 DEF From, q
        <4> QED BY <1>0, <2>1, <3>1, <4>1, <4>2, <4>3, <4>4
      <3> QED BY <3>4, <3>5
    <2> QED BY <2>2, <2>3, <2>6, <2>7, <2>8
  <1> QED BY <1>1, <1>2

\* The walk: who follows in a list, and what is left of it from there.
LEMMA Followed ==
    ASSUME NEW S, NEW list \in Seq(S), IsInjective(list), NEW r, Contains(list, r),
           Null \notin S
    PROVE  /\ NextIn(list, r) = Null => From(list, r) = {r}
           /\ NextIn(list, r) # Null =>
                /\ Contains(list, NextIn(list, r)) /\ NextIn(list, r) # r
                /\ From(list, r) = From(list, NextIn(list, r)) \cup {r}
  <1> DEFINE i == Position(list, r)
             next == NextIn(list, r)
  <1>0. Len(list) \in Nat /\ DOMAIN list = 1 .. Len(list)
    BY LenProperties
  <1>1. i \in 1 .. Len(list) /\ list[i] = r
    BY PositionFound
  <1>2. \A j, k \in 1 .. Len(list) : list[j] = list[k] => j = k
    BY <1>0 DEF IsInjective
  <1> HIDE DEF i
  <1>3. CASE i = Len(list)
    <2>1. next = Null
      BY <1>3 DEF NextIn, i
    <2>2. From(list, r) = {list[j] : j \in i .. Len(list)}
      BY DEF From, i
    <2>3. i .. Len(list) = {i}
      BY <1>0, <1>1, <1>3
    <2> QED BY <1>1, <2>1, <2>2, <2>3
  <1>4. CASE i # Len(list)
    <2>1. next = list[i + 1] /\ i + 1 \in 1 .. Len(list)
      BY <1>0, <1>1, <1>4 DEF NextIn, i
    <2>2. next \in S /\ Contains(list, next) /\ next # r
      <3>1. next \in S
        BY <2>1, ElementOfSeq
      <3>2. Contains(list, next)
        BY <2>1 DEF Contains
      <3>3. i # i + 1
        BY <1>0, <1>1
      <3> QED BY <1>1, <1>2, <2>1, <3>1, <3>2, <3>3
    <2>3. Position(list, next) = i + 1
      <3>1. Position(list, next) \in 1 .. Len(list) /\ list[Position(list, next)] = next
        BY <2>2, PositionFound
      <3> QED BY <1>2, <2>1, <3>1
    <2>4. From(list, r) = {list[j] : j \in i .. Len(list)}
      BY DEF From, i
    <2>5. From(list, next) = {list[j] : j \in i + 1 .. Len(list)}
      BY <2>3 DEF From
    <2>6. i .. Len(list) = (i + 1 .. Len(list)) \cup {i}
      BY <1>0, <1>1
    <2> HIDE DEF next
    <2>7. From(list, r) = From(list, next) \cup {r}
      BY <1>1, <2>4, <2>5, <2>6
    <2> QED BY <2>2, <2>7 DEF next
  <1> QED BY <1>3, <1>4

LEMMA WalkStarts ==
    ASSUME NEW S, NEW list \in Seq(S), IsInjective(list), list # <<>>
    PROVE  /\ Head(list) \in S /\ Contains(list, Head(list))
           /\ \A x : Contains(list, x) => x \in From(list, Head(list))
  <1>0. Len(list) \in Nat \ {0} /\ DOMAIN list = 1 .. Len(list) /\ Head(list) = list[1]
    BY EmptySeq, LenProperties
  <1>1. Head(list) \in S /\ Contains(list, Head(list))
    BY <1>0, ElementOfSeq DEF Contains
  <1>2. Position(list, Head(list)) = 1
    <2>1. /\ Position(list, Head(list)) \in 1 .. Len(list)
          /\ list[Position(list, Head(list))] = Head(list)
      BY <1>1, PositionFound
    <2> QED BY <1>0, <2>1 DEF IsInjective
  <1> QED
    BY <1>0, <1>1, <1>2 DEF From, Contains

LEMMA Appended ==
    ASSUME NEW S, NEW list \in Seq(S), IsInjective(list), NEW r \in S, ~Contains(list, r)
    PROVE  /\ Append(list, r) \in Seq(S) /\ IsInjective(Append(list, r))
           /\ \A x : Contains(Append(list, r), x) <=> Contains(list, x) \/ x = r
  <1> DEFINE n == Len(list)
             a == Append(list, r)
  <1>1. n \in Nat /\ DOMAIN list = 1 .. n
    BY LenProperties
  <1>2. /\ a \in Seq(S) /\ Len(a) = n + 1 /\ a[n + 1] = r
        /\ \A i \in 1 .. n : a[i] = list[i]
    BY AppendProperties
  <1>3. DOMAIN a = 1 .. n + 1
    BY <1>2, LenProperties
  <1> HIDE DEF a
  <1>4. \A i \in 1 .. n : a[i] # r
    BY <1>2 DEF Contains
  <1>5. IsInjective(a)
    BY <1>1, <1>2, <1>3, <1>4 DEF IsInjective
  <1>6. \A x : Contains(a, x) <=> Contains(list, x) \/ x = r
    BY <1>1, <1>2 DEF Contains
  <1> QED BY <1>2, <1>5, <1>6 DEF a

LEMMA HeadTaken ==
    ASSUME NEW S, NEW list \in Seq(S), IsInjective(list), list # <<>>
    PROVE  /\ Tail(list) \in Seq(S) /\ IsInjective(Tail(list))
           /\ Head(list) \in S /\ Contains(list, Head(list))
           /\ \A x : Contains(Tail(list), x) <=> Contains(list, x) /\ x # Head(list)
  <1> DEFINE n == Len(list)
             t == Tail(list)
  <1>1. n \in Nat \ {0} /\ DOMAIN list = 1 .. n /\ Head(list) = list[1]
    BY EmptySeq, LenProperties
  <1>2. t \in Seq(S) /\ Len(t) = n - 1 /\ \A i \in 1 .. n - 1 : t[i] = list[i + 1]
    BY HeadTailProperties
  <1>3. DOMAIN t = 1 .. n - 1
    BY <1>2, LenProperties
  <1>4. \A i, j \in 1 .. n : list[i] = list[j] => i = j
    BY <1>1 DEF IsInjective
  <1> HIDE DEF t, n
  <1>5. IsInjective(t)
    BY <1>1, <1>2, <1>3, <1>4 DEF IsInjective
  <1>6. ASSUME NEW x PROVE Contains(t, x) <=> Contains(list, x) /\ x # Head(list)
    <2>1. ASSUME NEW i \in 1 .. n - 1, t[i] = x PROVE Contains(list, x) /\ x # Head(list)
      <3>1. i + 1 \in 1 .. n /\ i + 1 # 1 /\ list[i + 1] = x
        BY <1>1, <1>2, <2>1
      <3> QED BY <1>1, <1>4, <3>1 DEF Contains, n
    <2>2. ASSUME NEW i \in 1 .. n, list[i] = x, x # Head(list) PROVE Contains(t, x)
      <3>1. i - 1 \in 1 .. n - 1
        BY <1>1, <2>2
      <3>2. t[i - 1] = x
        BY <1>1, <1>2, <2>2, <3>1
      <3> QED BY <1>2, <3>1, <3>2 DEF Contains
    <2> QED BY <1>2, <2>1, <2>2 DEF Contains, n
  <1>7. Head(list) \in S /\ Contains(list, Head(list))
    BY <1>1, ElementOfSeq DEF Contains, n
  <1> QED BY <1>2, <1>5, <1>6, <1>7 DEF t

-----------------------------------------------------------------------------
(* The steps of LoopWakeUp that leave the lists alone                      *)

\* AsyncLoopWakeUp::wakeUp, from either of its callers.
LEMMA AddWakeUpStep ==
    ASSUME LoopInv, NEW t \in Threads, NEW r \in Requests, AddWakeUp(t, r),
           calls' \in 0 .. MaxWakeUps
    PROVE  LoopInv'
  <1> USE DEF LoopInv, AddWakeUp, lists, walk
  <1>1. TypeOK'
    BY LoopWakeUpAssumption DEF TypeOK
  <1>2. ListsSound'
    BY DEF ListsSound
  <1>3. WalkInv'
    BY DEF WalkInv, Walking
  <1>4. WakeUpInv'
    <2>1. Ahead' = Ahead
      BY DEF Ahead, Walking
    <2>2. \A u \in Threads : thread[u] \in {"notify", "write"} => thread'[u] = thread[u]
      BY DEF TypeOK
    <2>3. pendingWakeUps[r] = 0 => thread'[t] = "notify"
      BY DEF TypeOK
    <2>4. \A x \in Requests : x # r => pendingWakeUps'[x] = pendingWakeUps[x]
      BY DEF TypeOK
    <2>5. pendingWakeUps[r] \in Nat
      BY DEF TypeOK
    <2>6. \A x \in Requests : Noticed(x) => Noticed(x)'
      BY <2>1, <2>2 DEF Noticed
    <2>7. pendingWakeUps[r] = 0 => Noticed(r)'
      BY <2>3 DEF Noticed
    <2> QED BY <2>2, <2>4, <2>5, <2>6, <2>7 DEF WakeUpInv
  <1> QED BY <1>1, <1>2, <1>3, <1>4

LEMMA NotifyStep ==
    ASSUME LoopInv, NEW t \in Threads, Notify(t) \/ Write(t)
    PROVE  LoopInv'
  <1> USE DEF LoopInv, Notify, Write, Exchange, lists, walk, bounds
  <1>1. TypeOK'
    BY DEF TypeOK
  <1>2. ListsSound'
    BY DEF ListsSound
  <1>3. WalkInv'
    BY DEF WalkInv, Walking
  <1>4. WakeUpInv'
    <2>1. Ahead' = Ahead
      BY DEF Ahead, Walking
    <2>2. \A u \in Threads : u # t => thread'[u] = thread[u]
      BY DEF TypeOK
    <2>3. CASE Notify(t)
      <3>1. wakeUpPending'
        BY <2>3
      <3>2. ~wakeUpPending => thread'[t] = "write"
        BY <2>3 DEF TypeOK
      <3>3. thread[t] = "notify"
        BY <2>3
      <3> QED BY <2>2, <2>3, <3>1, <3>2, <3>3 DEF WakeUpInv, Noticed
    <2>4. CASE Write(t)
      <3>1. thread[t] = "write" /\ eventFd'
        BY <2>4
      <3>2. \A x \in Requests : Noticed(x) => Noticed(x)'
        BY <2>1, <2>2, <2>4, <3>1 DEF Noticed
      <3> QED BY <2>4, <3>1, <3>2 DEF WakeUpInv
    <2> QED BY <2>3, <2>4
  <1> QED BY <1>1, <1>2, <1>3, <1>4

\* The moves of the loop that touch neither list nor latch: RunStep, SubmitDone, the
\* return of a callback.
LEMMA MoveStep ==
    ASSUME LoopInv, RunStep \/ SubmitDone \/ CallbackReturns
    PROVE  LoopInv'
  <1> USE DEF LoopInv, RunStep, SubmitDone, CallbackReturns, lists, walk, bounds
  <1>1. TypeOK'
    BY DEF TypeOK
  <1>2. ListsSound'
    BY DEF ListsSound
  <1>3. WalkInv'
    BY DEF WalkInv, Walking
  <1>4. WakeUpInv'
    <2>1. Ahead' = Ahead
      BY DEF Ahead, Walking
    <2>2. \A x \in Requests : Noticed(x) => Noticed(x)'
      BY <2>1 DEF Noticed, WalkInv
    <2> QED BY <2>2 DEF WakeUpInv
  <1> QED BY <1>1, <1>2, <1>3, <1>4

LEMMA PollStep ==
    ASSUME LoopInv, PollReturns, loop \in {"idle", "poll", "dispatch"}
    PROVE  LoopInv'
  <1> USE DEF LoopInv, PollReturns, lists, bounds
  <1>1. TypeOK'
    BY DEF TypeOK
  <1>2. ListsSound'
    BY DEF ListsSound
  <1>3. WalkInv'
    BY DEF WalkInv, Walking
  <1>4. WakeUpInv'
    <2>1. Ahead' = Ahead
      BY DEF Ahead, Walking
    <2>2. \A x \in Requests : Noticed(x) => Noticed(x)'
      BY <2>1 DEF Noticed
    <2> QED BY <2>2 DEF WakeUpInv
  <1> QED BY <1>1, <1>2, <1>3, <1>4

LEMMA ReadEventStep ==
    ASSUME LoopInv, ReadEvent
    PROVE  LoopInv'
  <1> USE DEF LoopInv, ReadEvent, lists, bounds
  <1>1. TypeOK'
    BY DEF TypeOK
  <1>2. ListsSound'
    BY DEF ListsSound
  <1>3. WalkInv'
    BY DEF WalkInv, Walking
  <1>4. WakeUpInv'
    <2>1. Ahead' = Ahead
      BY DEF Ahead, Walking
    <2>2. \A x \in Requests : Noticed(x) => Noticed(x)'
      BY <2>1 DEF Noticed
    <2> QED BY <2>2 DEF WakeUpInv
  <1> QED BY <1>1, <1>2, <1>3, <1>4

\* Every active request is ahead of a walk that begins, and no other is asked for.
LEMMA ReleaseLatchStep ==
    ASSUME LoopInv, Quiet, ReleaseLatch
    PROVE  LoopInv'
  <1> USE DEF LoopInv, ReleaseLatch, lists, bounds
  <1>0. activeLoopWakeUps \in Seq(Requests) /\ IsInjective(activeLoopWakeUps)
    BY DEF TypeOK, ListsSound
  <1>1. activeLoopWakeUps # <<>> =>
            /\ cursor' \in Requests /\ Contains(activeLoopWakeUps, cursor')
            /\ \A x : Contains(activeLoopWakeUps, x) => x \in From(activeLoopWakeUps, cursor')
    BY <1>0, WalkStarts
  <1>2. activeLoopWakeUps = <<>> => cursor' = Null /\ \A x : ~Contains(activeLoopWakeUps, x)
    BY EmptySeq DEF Contains
  <1>3. TypeOK'
    BY <1>1, <1>2 DEF TypeOK
  <1>4. ListsSound'
    BY DEF ListsSound
  <1>5. WalkInv'
    BY <1>1, <1>2 DEF WalkInv, Walking
  <1>6. WakeUpInv'
    <2>1. ASSUME NEW x \in Requests, state[x] = "Active" PROVE x \in Ahead'
      <3>1. Contains(activeLoopWakeUps, x)
        BY <2>1 DEF ListsSound
      <3> QED BY <1>1, <1>2, <3>1 DEF Ahead, Walking
    <2>2. ASSUME NEW x \in Requests PROVE state[x] \notin {"Setup", "Reactivate"}
      BY DEF ListsSound, Quiet
    <2>3. ~wakeUpPending'
      OBVIOUS
    <2> QED BY <2>1, <2>2, <2>3 DEF WakeUpInv, Noticed
  <1> QED BY <1>3, <1>4, <1>5, <1>6

\* The walk goes on after a callback, or notifies the loop first.
LEMMA AfterCallbackStep ==
    ASSUME LoopInv, AfterCallback \/ LoopNotify \/ LoopWrite
    PROVE  LoopInv'
  <1> USE DEF LoopInv, AfterCallback, LoopNotify, LoopWrite, Exchange, lists, walk, bounds
  <1>1. TypeOK'
    BY DEF TypeOK
  <1>2. ListsSound'
    BY DEF ListsSound
  <1>3. WalkInv'
    BY DEF WalkInv, Walking
  <1>4. WakeUpInv'
    <2>1. Ahead' = Ahead
      BY DEF Ahead, Walking
    <2>2. CASE AfterCallback
      <3>1. \A x \in Requests : pendingWakeUps[x] > 0 /\ Noticed(x) => Noticed(x)'
        BY <2>1, <2>2 DEF Noticed, MustNotify
      <3> QED BY <2>2, <3>1 DEF WakeUpInv
    <2>3. CASE LoopNotify
      BY <2>3 DEF WakeUpInv, Noticed
    <2>4. CASE LoopWrite
      <3>1. \A x \in Requests : Noticed(x) => Noticed(x)'
        BY <2>1, <2>4 DEF Noticed
      <3> QED BY <2>4, <3>1 DEF WakeUpInv
    <2> QED BY <2>2, <2>3, <2>4
  <1> QED BY <1>1, <1>2, <1>3, <1>4
-----------------------------------------------------------------------------
(* The steps of LoopWakeUp that link and unlink requests                   *)

LEMMA StartStep ==
    ASSUME LoopInv, NEW r \in Requests, Start(r)
    PROVE  LoopInv'
  <1> USE DEF LoopInv, Start, walk
  <1>0. /\ submissions \in Seq(Requests) /\ IsInjective(submissions)
        /\ ~Contains(submissions, r) /\ ~Contains(activeLoopWakeUps, r)
    BY DEF TypeOK, ListsSound
  <1>1. /\ submissions' \in Seq(Requests) /\ IsInjective(submissions')
        /\ \A x : Contains(submissions', x) <=> Contains(submissions, x) \/ x = r
    BY <1>0, Appended
  <1>2. TypeOK'
    BY <1>1, LoopWakeUpAssumption DEF TypeOK
  <1>3. ListsSound'
    BY <1>0, <1>1 DEF ListsSound, TypeOK
  <1>4. WalkInv'
    BY DEF WalkInv, Walking
  <1>5. WakeUpInv'
    <2>1. Ahead' = Ahead
      BY DEF Ahead, Walking
    <2>2. \A x \in Requests : Noticed(x) => Noticed(x)'
      BY <2>1 DEF Noticed
    <2>3. pendingWakeUps'[r] = 0
      BY DEF TypeOK
    <2>4. \A x \in Requests : x # r => state'[x] = state[x] /\ pendingWakeUps'[x] = pendingWakeUps[x]
      BY DEF TypeOK
    <2> QED BY <2>2, <2>3, <2>4 DEF WakeUpInv
  <1> QED BY <1>2, <1>3, <1>4, <1>5

\* What stopping a request leaves of the lists.
LEMMA StopLists ==
    ASSUME LoopInv, NEW r \in Requests, StopRequest(r)
    PROVE  /\ state' \in [Requests -> {"Free", "Setup", "Active", "Reactivate", "Cancelling"}]
           /\ state'[r] = "Cancelling" /\ \A x \in Requests : x # r => state'[x] = state[x]
           /\ activeLoopWakeUps' \in Seq(Requests) /\ submissions' \in Seq(Requests)
           /\ ListsSound'
           /\ \A x : Contains(activeLoopWakeUps', x) <=> Contains(activeLoopWakeUps, x) /\ x # r
           /\ \A x : Contains(submissions', x) => Contains(submissions, x) \/ x = r
  <1> USE DEF LoopInv, StopRequest
  <1>0. /\ submissions \in Seq(Requests) /\ IsInjective(submissions)
        /\ activeLoopWakeUps \in Seq(Requests) /\ IsInjective(activeLoopWakeUps)
    BY DEF TypeOK, ListsSound
  <1>1. /\ state' \in [Requests -> {"Free", "Setup", "Active", "Reactivate", "Cancelling"}]
        /\ state'[r] = "Cancelling" /\ \A x \in Requests : x # r => state'[x] = state[x]
    BY DEF TypeOK
  <1>2. /\ activeLoopWakeUps' \in Seq(Requests) /\ IsInjective(activeLoopWakeUps')
        /\ \A x : Contains(activeLoopWakeUps', x) <=> Contains(activeLoopWakeUps, x) /\ x # r
    BY <1>0, Unlinked
  <1>3. /\ submissions' \in Seq(Requests) /\ IsInjective(submissions')
        /\ \A x : x # r => (Contains(submissions', x) <=> Contains(submissions, x))
    <2>1. CASE state[r] = "Active"
      <3>1. ~Contains(submissions, r)
        BY <2>1 DEF ListsSound
      <3> QED BY <1>0, <2>1, <3>1, Appended
    <2>2. CASE state[r] # "Active"
      BY <1>0, <2>2, Unlinked
    <2> QED BY <2>1, <2>2
  <1>4. ListsSound'
    BY <1>1, <1>2, <1>3 DEF ListsSound
  <1> QED BY <1>1, <1>2, <1>3, <1>4

\* A callback may stop any request but the next one of the walk.
LEMMA StopStep ==
    ASSUME LoopInv, UsualUsage, NEW r \in Requests, Stop(r)
    PROVE  LoopInv'
  <1> USE DEF LoopInv, Stop, walk, bounds
  <1>0. StopRequest(r)
    OBVIOUS
  <1>1. TypeOK'
    BY <1>0, StopLists DEF TypeOK
  <1>2. ListsSound'
    BY <1>0, StopLists
  <1>3. Walking => r # cursor
    BY DEF Walking, UserCode, MayStop, UsualUsage
  <1>4. WalkInv'
    <2>1. \A x : Contains(activeLoopWakeUps, x) /\ x # r => Contains(activeLoopWakeUps', x)
      BY <1>0, StopLists
    <2>2. reactivated => state'[current] # "Active"
      BY <1>0, StopLists DEF WalkInv, TypeOK
    <2> QED BY <1>3, <2>1, <2>2 DEF WalkInv, Walking
  <1>5. WakeUpInv'
    <2>1. activeLoopWakeUps \in Seq(Requests) /\ IsInjective(activeLoopWakeUps)
      BY DEF TypeOK, ListsSound
    <2>2. Ahead' = Ahead \ {r}
      <3>1. CASE ~Walking \/ ~Contains(activeLoopWakeUps, cursor)
        BY <1>0, <3>1, StopLists DEF Ahead, Walking
      <3>2. CASE Walking /\ Contains(activeLoopWakeUps, cursor)
        <4>1. From(activeLoopWakeUps', cursor) = From(activeLoopWakeUps, cursor) \ {r}
          BY <1>0, <1>3, <2>1, <3>2, Unlinked DEF StopRequest
        <4>2. Contains(activeLoopWakeUps', cursor)
          BY <1>0, <1>3, <3>2, StopLists
        <4> QED BY <3>2, <4>1, <4>2 DEF Ahead, Walking
      <3> QED BY <3>1, <3>2
    <2>3. \A x \in Requests : x # r /\ Noticed(x) => Noticed(x)'
      BY <2>2 DEF Noticed
    <2> QED BY <1>0, <2>3, StopLists DEF WakeUpInv
  <1> QED BY <1>1, <1>2, <1>4, <1>5

LEMMA ReactivateStep ==
    ASSUME LoopInv, ReactivateRequest
    PROVE  LoopInv' /\ current \in Requests
  <1> USE DEF LoopInv, ReactivateRequest
  <1>0. /\ submissions \in Seq(Requests) /\ IsInjective(submissions)
        /\ current \in Requests
        /\ ~Contains(submissions, current) /\ ~Contains(activeLoopWakeUps, current)
    BY DEF TypeOK, ListsSound, WalkInv
  <1>1. /\ submissions' \in Seq(Requests) /\ IsInjective(submissions')
        /\ \A x : Contains(submissions', x) <=> Contains(submissions, x) \/ x = current
    BY <1>0, Appended
  <1>2. TypeOK'
    BY <1>1, LoopWakeUpAssumption DEF TypeOK, bounds
  <1>3. ListsSound'
    BY <1>0, <1>1 DEF ListsSound, TypeOK
  <1>4. WalkInv'
    BY DEF WalkInv, Walking
  <1>5. WakeUpInv'
    <2>1. Ahead' = Ahead
      BY DEF Ahead, Walking
    <2>2. \A x \in Requests : Noticed(x) => Noticed(x)'
      BY <2>1 DEF Noticed
    <2>3. Noticed(current)'
      BY DEF Noticed
    <2>4. \A x \in Requests : x # current => state'[x] = state[x]
      BY DEF TypeOK
    <2> QED BY <2>2, <2>3, <2>4 DEF WakeUpInv
  <1> QED BY <1>0, <1>2, <1>3, <1>4, <1>5

LEMMA SubmitStep ==
    ASSUME LoopInv, SubmitRequests
    PROVE  LoopInv'
  <1> DEFINE r == Head(submissions)
  <1> USE DEF LoopInv, SubmitRequests, walk, bounds
  <1>0. /\ submissions \in Seq(Requests) /\ IsInjective(submissions)
        /\ activeLoopWakeUps \in Seq(Requests) /\ IsInjective(activeLoopWakeUps)
    BY DEF TypeOK, ListsSound
  <1>1. /\ submissions' \in Seq(Requests) /\ IsInjective(submissions')
        /\ r \in Requests /\ Contains(submissions, r)
        /\ \A x : Contains(submissions', x) <=> Contains(submissions, x) /\ x # r
    BY <1>0, HeadTaken
  <1>2. state[r] # "Cancelling" => state[r] \in {"Setup", "Reactivate"}
    BY <1>1 DEF ListsSound
  <1>3. CASE state[r] = "Cancelling"
    <2>1. UNCHANGED <<state, activeLoopWakeUps>>
      BY <1>3
    <2>2. TypeOK'
      BY <1>1, <2>1 DEF TypeOK
    <2>3. ListsSound'
      BY <1>1, <1>3, <2>1 DEF ListsSound
    <2>4. WalkInv'
      BY <2>1 DEF WalkInv, Walking
    <2>5. Ahead' = Ahead
      BY <2>1 DEF Ahead, Walking
    <2>6. WakeUpInv'
      BY <2>1, <2>5 DEF WakeUpInv, Noticed
    <2> QED BY <2>2, <2>3, <2>4, <2>6
  <1>4. CASE state[r] # "Cancelling"
    <2>1. /\ state' = [state EXCEPT ![r] = "Active"]
          /\ activeLoopWakeUps' = Append(activeLoopWakeUps, r)
      BY <1>4
    <2>2. ~Contains(activeLoopWakeUps, r)
      BY <1>1, <1>2, <1>4 DEF ListsSound
    <2>3. /\ activeLoopWakeUps' \in Seq(Requests) /\ IsInjective(activeLoopWakeUps')
          /\ \A x : Contains(activeLoopWakeUps', x) <=> Contains(activeLoopWakeUps, x) \/ x = r
      BY <1>0, <1>1, <2>1, <2>2, Appended
    <2>4. state'[r] = "Active" /\ \A x \in Requests : x # r => state'[x] = state[x]
      BY <1>1, <2>1 DEF TypeOK
    <2> HIDE DEF r
    <2>5. TypeOK'
      BY <1>1, <2>1, <2>3 DEF TypeOK
    <2>6. ListsSound'
      BY <1>1, <2>3, <2>4 DEF ListsSound
    <2>7. WalkInv'
      BY DEF WalkInv, Walking
    <2>8. Ahead = {} /\ Ahead' = {}
      BY DEF Ahead, Walking
    <2>9. \A x \in Requests : Noticed(x) => Noticed(x)'
      BY <2>8 DEF Noticed
    <2>10. WakeUpInv'
      BY <1>1, <1>2, <1>4, <2>4, <2>9 DEF WakeUpInv
    <2> QED BY <2>5, <2>6, <2>7, <2>10
  <1> QED BY <1>3, <1>4

LEMMA CancellationsStep ==
    ASSUME LoopInv, CancellationsDone
    PROVE  LoopInv'
  <1> USE DEF LoopInv, CancellationsDone, walk, bounds
  <1>1. TypeOK'
    BY DEF TypeOK
  <1>2. ListsSound'
    BY DEF ListsSound, TypeOK
  <1>3. WalkInv'
    BY DEF WalkInv, Walking
  <1>4. WakeUpInv'
    <2>1. Ahead = {} /\ Ahead' = {}
      <3>1. ~Contains(activeLoopWakeUps, Null)
        BY ElementOfSeq, LoopWakeUpAssumption DEF Contains, TypeOK
      <3> QED BY <3>1 DEF Ahead, Walking
    <2>2. \A x \in Requests : Noticed(x) => Noticed(x)'
      BY <2>1 DEF Noticed
    <2>3. \A x \in Requests :
            state'[x] \in {"Setup", "Reactivate", "Active"} => state'[x] = state[x]
      BY DEF TypeOK
    <2> QED BY <2>2, <2>3 DEF WakeUpInv
  <1> QED BY <1>1, <1>2, <1>3, <1>4
\* One request of the walk: who is ahead of it stays so, whether it is called or not.
LEMMA ExecuteStep ==
    ASSUME LoopInv, ExecuteWakeUp
    PROVE  LoopInv'
  <1> USE DEF LoopInv, ExecuteWakeUp, bounds
  <1>0. /\ activeLoopWakeUps \in Seq(Requests) /\ IsInjective(activeLoopWakeUps)
        /\ cursor \in Requests /\ Contains(activeLoopWakeUps, cursor)
        /\ state[cursor] = "Active" /\ Null \notin Requests
    BY LoopWakeUpAssumption DEF TypeOK, ListsSound, WalkInv, Walking
  <1> DEFINE next == NextIn(activeLoopWakeUps, cursor)
  <1>1. cursor' = next
    BY <1>0 DEF NextOf
  <1>2. /\ next = Null => From(activeLoopWakeUps, cursor) = {cursor}
        /\ next # Null =>
             /\ Contains(activeLoopWakeUps, next) /\ next # cursor /\ next \in Requests
             /\ From(activeLoopWakeUps, cursor) = From(activeLoopWakeUps, next) \cup {cursor}
    <2>1. next # Null => Contains(activeLoopWakeUps, next)
      BY <1>0, Followed
    <2>2. next # Null => next \in Requests
      BY <1>0, <2>1, ElementOfSeq DEF Contains
    <2> QED BY <1>0, <2>2, Followed
  <1>3. Ahead = From(activeLoopWakeUps, cursor)
    BY <1>0 DEF Ahead, Walking
  <1>4. CASE ~Asked(cursor)
    <2>1. UNCHANGED <<loop, current, pendingWakeUps, lists, asserted, wakeUpPending, eventFd,
                      thread, ready, reactivated, bounds>>
      BY <1>4
    <2> HIDE DEF ExecuteWakeUp
    <2> USE <2>1 DEF lists
    <2>2. TypeOK'
      BY <1>1, <1>2 DEF TypeOK
    <2>3. ListsSound'
      BY DEF ListsSound
    <2>4. WalkInv'
      BY <1>1, <1>2 DEF WalkInv, Walking
    <2>5. \A x \in Ahead : x # cursor => x \in Ahead'
      BY <1>0, <1>1, <1>2, <1>3 DEF Ahead, Walking
    <2>6. \A x \in Requests : x # cursor /\ Noticed(x) => Noticed(x)'
      BY <2>5 DEF Noticed
    <2>7. ~(pendingWakeUps[cursor] > 0)
      BY <1>4 DEF Asked
    <2>8. WakeUpInv'
      BY <2>6, <2>7 DEF WakeUpInv
    <2> QED BY <2>2, <2>3, <2>4, <2>8
  <1>5. CASE Asked(cursor)
    <2>1. /\ loop' = "callback" /\ current' = cursor
          /\ pendingWakeUps' = [pendingWakeUps EXCEPT ![cursor] = LeftPending(cursor)]
          /\ state' = [state EXCEPT ![cursor] = "Free"]
          /\ activeLoopWakeUps' = Unlink(activeLoopWakeUps, cursor)
          /\ asserted' = asserted
          /\ UNCHANGED <<submissions, wakeUpPending, eventFd, thread, ready, reactivated, bounds>>
      BY <1>0, <1>5 DEF WalkInv, TypeOK
    <2>2. loop = "walk"
      OBVIOUS
    <2>3. /\ activeLoopWakeUps' \in Seq(Requests) /\ IsInjective(activeLoopWakeUps')
          /\ \A x : Contains(activeLoopWakeUps', x) <=> Contains(activeLoopWakeUps, x) /\ x # cursor
      BY <1>0, <2>1, Unlinked
    <2>4. state'[cursor] = "Free" /\ \A x \in Requests : x # cursor =>
            state'[x] = state[x] /\ pendingWakeUps'[x] = pendingWakeUps[x]
      BY <1>0, <2>1 DEF TypeOK
    <2>5. LeftPending(cursor) \in 0 .. MaxWakeUps
      BY <1>0, <1>5, LoopWakeUpAssumption DEF LeftPending, Asked, TypeOK
    <2> HIDE DEF ExecuteWakeUp
    <2>6. TypeOK'
      BY <1>0, <1>1, <1>2, <2>1, <2>3, <2>5 DEF TypeOK
    <2>7. ListsSound'
      BY <1>0, <2>1, <2>3, <2>4 DEF ListsSound
    <2>8. WalkInv'
      BY <1>0, <1>1, <1>2, <2>1, <2>2, <2>3 DEF WalkInv, Walking
    <2>9. \A x \in Ahead : x # cursor => x \in Ahead'
      <3>1. CASE next = Null
        BY <1>2, <1>3, <3>1
      <3>2. CASE next # Null
        <4>1. From(activeLoopWakeUps', next) = From(activeLoopWakeUps, next) \ {cursor}
          BY <1>0, <1>2, <2>1, <3>2, Unlinked
        <4>2. Contains(activeLoopWakeUps', next)
          BY <1>2, <2>3, <3>2
        <4> QED BY <1>1, <1>2, <1>3, <2>1, <3>2, <4>1, <4>2 DEF Ahead, Walking
      <3> QED BY <3>1, <3>2
    <2>10. \A x \in Requests : x # cursor /\ Noticed(x) => Noticed(x)'
      BY <2>1, <2>2, <2>9 DEF Noticed
    <2>11. WakeUpInv'
      BY <2>1, <2>2, <2>4, <2>10 DEF WakeUpInv
    <2> QED BY <2>6, <2>7, <2>8, <2>11
  <1> QED BY <1>4, <1>5

\* AsyncEventLoopMonitor::close stops its request, from wherever a poll left the loop.
LEMMA JoinedStep ==
    ASSUME LoopInv, StopRequest(MonitorWakeUp), loop \in {"idle", "poll", "dispatch"},
           loop' = "idle", ready' = FALSE,
           UNCHANGED <<pendingWakeUps, wakeUpPending, eventFd, thread, cursor, current,
                       reactivated, asserted, bounds>>
    PROVE  LoopInv'
  <1> DEFINE r == MonitorWakeUp
  <1> USE DEF LoopInv, bounds
  <1>0. r \in Requests
    BY LoopMonitorAssumption, LoopWakeUpAssumption
  <1> HIDE DEF r
  <1>a. StopRequest(r)
    BY DEF r
  <1>1. TypeOK'
    BY <1>0, <1>a, StopLists DEF TypeOK
  <1>2. ListsSound'
    BY <1>0, <1>a, StopLists
  <1>3. WalkInv'
    BY DEF WalkInv, Walking
  <1>4. WakeUpInv'
    <2>1. Ahead = {}
      BY DEF Ahead, Walking
    <2>2. \A x \in Requests : Noticed(x) => Noticed(x)'
      BY <2>1 DEF Noticed
    <2> QED BY <1>0, <1>a, <2>2, StopLists DEF WakeUpInv
  <1> QED BY <1>1, <1>2, <1>3, <1>4
-----------------------------------------------------------------------------
(* LoopWakeUp: the loop, driven by its own thread                          *)

\* What the thread of the loop does between user code, and the user code.
LoopAction ==
    \/ RunStep \/ SubmitRequests \/ SubmitDone \/ BlockingPoll
    \/ ReadEvent \/ CancellationsDone \/ ReleaseLatch \/ ExecuteWakeUp
    \/ CallbackReturns \/ AfterCallback \/ LoopNotify \/ LoopWrite
    \/ ReactivateRequest
    \/ \E r \in Requests : Start(r) \/ Stop(r)

LEMMA LoopActionStep ==
    ASSUME LoopInv, Quiet, UsualUsage, LoopAction
    PROVE  LoopInv'
  <1>1. CASE BlockingPoll
    BY <1>1, PollStep DEF BlockingPoll
  <1> QED
    BY <1>1, MoveStep, SubmitStep, ReadEventStep, CancellationsStep, ReleaseLatchStep,
       ExecuteStep, AfterCallbackStep, ReactivateStep, StartStep, StopStep DEF LoopAction

\* Between a poll and the wake-ups it reported requests are stopped, but none is started.
LEMMA QuietStep ==
    ASSUME LoopInv, Quiet, UsualUsage, LoopAction
    PROVE  Quiet'
  <1> USE DEF Quiet
  <1>1. CASE SubmitDone
    <2>1. \A r : ~Contains(submissions', r)
      BY <1>1, EmptySeq DEF SubmitDone, lists, Contains
    <2> QED BY <2>1
  <1>2. CASE BlockingPoll
    BY <1>2 DEF BlockingPoll, PollReturns, lists
  <1>3. CASE ReadEvent
    BY <1>3 DEF ReadEvent, lists
  <1>4. CASE \E r \in Requests : Start(r)
    <2>1. loop' = loop /\ ready' = ready /\ ~(loop = "dispatch" /\ ready) /\ loop # "poll" /\ loop # "clear"
      BY <1>4 DEF Start, MayStart, UserCode, UsualUsage, walk
    <2> QED BY <2>1
  <1>5. CASE \E r \in Requests : Stop(r)
    <2>1. PICK r \in Requests : Stop(r)
      BY <1>5
    <2>2. loop' = loop /\ ready' = ready
      BY <2>1 DEF Stop, walk
    <2>3. StopRequest(r)
      BY <2>1 DEF Stop
    <2> QED BY <2>2, <2>3, StopLists
  <1>6. CASE RunStep \/ SubmitRequests \/ CancellationsDone \/ ReleaseLatch \/ ExecuteWakeUp
             \/ CallbackReturns \/ AfterCallback \/ LoopNotify \/ LoopWrite \/ ReactivateRequest
    <2>1. loop' \notin {"poll", "dispatch", "clear"}
      BY <1>6 DEF RunStep, SubmitRequests, CancellationsDone, ReleaseLatch, ExecuteWakeUp,
         CallbackReturns, AfterCallback, LoopNotify, LoopWrite, ReactivateRequest, Exchange
    <2> QED BY <2>1
  <1> QED
    BY <1>1, <1>2, <1>3, <1>4, <1>5, <1>6 DEF LoopAction

LEMMA ThreadsStep ==
    ASSUME LoopInv, NEW t \in Threads, ThreadStep(t)
    PROVE  LoopInv' /\ (Quiet => Quiet')
  <1>1. CASE \E r \in Requests : WakeUp(t, r)
    <2>1. PICK r \in Requests : WakeUp(t, r)
      BY <1>1
    <2>2. AddWakeUp(t, r) /\ calls' \in 0 .. MaxWakeUps
      BY <2>1, LoopWakeUpAssumption DEF WakeUp, LoopInv, TypeOK
    <2>3. LoopInv'
      BY <2>2, AddWakeUpStep
    <2> QED BY <2>2, <2>3 DEF AddWakeUp, Quiet, lists, walk
  <1>2. CASE Notify(t) \/ Write(t)
    <2>1. LoopInv'
      BY <1>2, NotifyStep
    <2> QED BY <1>2, <2>1 DEF Notify, Write, Quiet, lists, walk
  <1> QED BY <1>1, <1>2 DEF ThreadStep

LEMMA LoopInvInit == Init => LoopInv /\ Quiet
  <1> SUFFICES ASSUME Init PROVE LoopInv /\ Quiet
    OBVIOUS
  <1>1. \A r : ~Contains(<<>>, r)
    BY EmptySeq DEF Contains
  <1>2. IsInjective(<<>>)
    BY EmptySeq, LenProperties DEF IsInjective
  <1>3. <<>> \in Seq(Requests)
    BY EmptySeq
  <1>4. TypeOK
    <2>1. {wakeUpPending, eventFd, ready, reactivated, asserted} \subseteq BOOLEAN
      BY DEF Init
    <2>2. /\ state \in [Requests -> {"Free", "Setup", "Active", "Reactivate", "Cancelling"}]
          /\ pendingWakeUps \in [Requests -> 0 .. MaxWakeUps]
          /\ thread \in [Threads -> {"idle", "notify", "write"}]
      BY LoopWakeUpAssumption DEF Init
    <2> QED BY <1>3, <2>1, <2>2, LoopWakeUpAssumption DEF Init, TypeOK
  <1>5. ListsSound
    BY <1>1, <1>2 DEF Init, ListsSound
  <1>6. WalkInv /\ WakeUpInv /\ Quiet
    BY DEF Init, WalkInv, Walking, WakeUpInv, Quiet
  <1> QED BY <1>4, <1>5, <1>6 DEF LoopInv

LEMMA LoopInvStep == LoopInv /\ Quiet /\ UsualUsage /\ [Next]_vars => LoopInv' /\ Quiet'
  <1> SUFFICES ASSUME LoopInv, Quiet, UsualUsage, [Next]_vars PROVE LoopInv' /\ Quiet'
    OBVIOUS
  <1>1. CASE UNCHANGED vars
    BY <1>1 DEF vars, lists, walk, bounds, LoopInv, TypeOK, ListsSound, WalkInv, WakeUpInv, Noticed,
       Ahead, Walking, Quiet
  <1>2. CASE \E t \in Threads : ThreadStep(t)
    BY <1>2, ThreadsStep
  <1>3. CASE LoopAction
    BY <1>3, LoopActionStep, QuietStep
  <1> QED
    BY <1>1, <1>2, <1>3 DEF Next, LoopStep, LoopAction

\* What the inductive invariant says of the properties that are checked.
LEMMA Noticing == LoopInv => NoLostWakeUp
  <1> SUFFICES ASSUME LoopInv PROVE NoLostWakeUp
    OBVIOUS
  <1>1. ASSUME NEW r \in Requests, state[r] = "Active", pendingWakeUps[r] > 0
        PROVE  \/ wakeUpPending \/ r \in Ahead \/ loop = "notify"
               \/ \E t \in Threads : thread[t] = "notify"
    BY <1>1 DEF LoopInv, WakeUpInv, Noticed, WalkInv
  <1> QED BY <1>1 DEF NoLostWakeUp, LoopInv, WakeUpInv
LEMMA DistinctCounted ==
    ASSUME NEW S, NEW list \in Seq(S), IsInjective(list)
    PROVE  Len(list) = Cardinality(ToSet(list))
  <1>1. Len(list) \in Nat /\ DOMAIN list = 1 .. Len(list) /\ list \in [1 .. Len(list) -> S]
    BY LenProperties
  <1>2. list \in [1 .. Len(list) -> ToSet(list)]
    BY <1>1 DEF ToSet
  <1>3. list \in Bijection(1 .. Len(list), ToSet(list))
    <2>1. list \in Injection(1 .. Len(list), ToSet(list))
      BY <1>2 DEF Injection
    <2>2. list \in Surjection(1 .. Len(list), ToSet(list))
      BY <1>1, <1>2 DEF Surjection, ToSet
    <2> QED BY <2>1, <2>2 DEF Bijection
  <1>4. ExistsBijection(1 .. Len(list), ToSet(list))
    BY <1>3 DEF ExistsBijection
  <1> QED BY <1>1, <1>4, FS_CountingElements

LEMMA Walked == LoopInv => WalkSound
  <1> SUFFICES ASSUME LoopInv PROVE WalkSound
    OBVIOUS
  <1>1. activeLoopWakeUps \in Seq(Requests) /\ IsInjective(activeLoopWakeUps)
    BY DEF LoopInv, TypeOK, ListsSound
  <1>2. ToSet(activeLoopWakeUps) = {r \in Requests : state[r] = "Active"}
    <2>1. \A r : r \in ToSet(activeLoopWakeUps) <=> Contains(activeLoopWakeUps, r)
      BY <1>1, LenProperties DEF ToSet, Contains
    <2>2. \A r : Contains(activeLoopWakeUps, r) => r \in Requests
      BY <1>1, ElementOfSeq DEF Contains
    <2> QED BY <2>1, <2>2 DEF LoopInv, ListsSound
  <1> QED BY <1>1, <1>2, DistinctCounted DEF WalkSound, LoopInv, WalkInv

-----------------------------------------------------------------------------
(* LoopMonitor: who has the loop                                           *)

\* The steps of the application that are not its loop's.
LEMMA AppHandshake ==
    ASSUME Handshake, NeverRecreated, LoopInv,
           Create \/ StartMonitoring \/ StopMonitoring \/ CloseMonitor \/ SubmitForMonitor
             \/ SubmittedForMonitor \/ EnterBlockingMode \/ InterruptPoll \/ WaitExit
             \/ NeedsWakeUpAgain \/ Dispatched \/ RunOnceReturns \/ CloseSignals
             \/ CloseInterrupts \/ Joined
    PROVE  Handshake'
  <1> USE DEF Handshake, MonitorTypeOK, Held, Lent, Closing, handshake, answers
  <1>1. CASE Create
    BY <1>1 DEF Create, MayCreate, NeverRecreated, Start
  <1>2. CASE StartMonitoring
    BY <1>2 DEF StartMonitoring, RunStep
  <1>3. CASE StopMonitoring
    BY <1>3 DEF StopMonitoring, vars
  <1>4. CASE CloseMonitor
    BY <1>4 DEF CloseMonitor, vars
  <1>5. CASE SubmitForMonitor
    BY <1>5 DEF SubmitForMonitor, SubmitRequests, monitorVars
  <1>6. CASE SubmittedForMonitor
    BY <1>6 DEF SubmittedForMonitor, SubmitDone
  <1>7. CASE EnterBlockingMode
    BY <1>7 DEF EnterBlockingMode, vars
  <1>8. CASE InterruptPoll
    BY <1>8 DEF InterruptPoll, AddWakeUp
  <1>9. CASE WaitExit
    BY <1>9 DEF WaitExit, vars
  <1>10. CASE NeedsWakeUpAgain
    BY <1>10 DEF NeedsWakeUpAgain, vars
  <1>11. CASE Dispatched
    BY <1>11 DEF Dispatched, RunStep, vars
  <1>12. CASE RunOnceReturns
    BY <1>12 DEF RunOnceReturns, vars
  <1>13. CASE CloseSignals
    BY <1>13 DEF CloseSignals, vars
  <1>14. CASE CloseInterrupts
    BY <1>14 DEF CloseInterrupts
  <1>15. CASE Joined
    BY <1>15 DEF Joined
  <1> QED
    BY <1>1, <1>2, <1>3, <1>4, <1>5, <1>6, <1>7, <1>8, <1>9, <1>10, <1>11, <1>12, <1>13,
       <1>14, <1>15

LEMMA MonitorHandshake ==
    ASSUME Handshake,
           WaitEnter \/ MonitorPoll \/ NeedsNoWakeUp \/ ExitBlockingMode \/ TestFinished
    PROVE  Handshake'
  <1> USE DEF Handshake, MonitorTypeOK, Held, Lent, Closing, handshake, answers
  <1>1. CASE WaitEnter
    BY <1>1 DEF WaitEnter, vars
  <1>2. CASE MonitorPoll
    BY <1>2 DEF MonitorPoll, PollReturns
  <1>3. CASE NeedsNoWakeUp
    BY <1>3 DEF NeedsNoWakeUp, vars
  <1>4. CASE ExitBlockingMode
    BY <1>4 DEF ExitBlockingMode, vars
  <1>5. CASE TestFinished
    BY <1>5 DEF TestFinished, vars
  <1> QED
    BY <1>1, <1>2, <1>3, <1>4, <1>5

\* The loop moves on its own only while the application has it, and user code does not
\* move it.
LEMMA LoopHandshake ==
    ASSUME Handshake, TypeOK, MonitorCallback \/ UserStep \/ LoopGoesOn \/ LoopPolls \/ OtherThreads
    PROVE  Handshake'
  <1> USE DEF Handshake, MonitorTypeOK, Held, Lent, Closing, handshake, answers, monitorVars
  <1>1. CASE MonitorCallback
    BY <1>1 DEF MonitorCallback, ReactivateRequest
  <1>2. CASE UserStep
    <2>1. loop' = loop /\ thread' = thread
      BY <1>2 DEF UserStep, ReactivateRequest, Start, Stop
    <2> QED BY <1>2, <2>1 DEF UserStep
  <1>3. CASE LoopGoesOn \/ LoopPolls
    <2>1. thread' = thread
      BY <1>3 DEF LoopGoesOn, LoopPolls, RunStep, SubmitRequests, SubmitDone, BlockingPoll, PollReturns,
         ReadEvent, CancellationsDone, ReleaseLatch, ExecuteWakeUp, CallbackReturns,
         AfterCallback, LoopNotify, LoopWrite
    <2>2. Drives /\ UNCHANGED monitorVars
      BY <1>3 DEF LoopGoesOn, LoopPolls
    <2> QED BY <2>1, <2>2 DEF Drives
  <1>4. CASE OtherThreads
    <2>1. loop' = loop /\ UNCHANGED monitorVars
      BY <1>4 DEF OtherThreads, WakeUp, AddWakeUp, Notify, Write
    <2>2. thread[App] = "idle" => thread'[App] = "idle"
      BY <1>4, LoopMonitorAssumption DEF OtherThreads, WakeUp, AddWakeUp, Notify, Write, TypeOK
    <2> QED BY <2>1, <2>2
  <1> QED
    BY <1>1, <1>2, <1>3, <1>4


-----------------------------------------------------------------------------
(* LoopMonitor: its steps keep up what the loop needs                      *)

\* close asks for a notification that no request is behind.
LEMMA LatchStep ==
    ASSUME LoopInv, thread' = [thread EXCEPT ![App] = "notify"], thread[App] = "idle",
           UNCHANGED <<lists, pendingWakeUps, wakeUpPending, eventFd, loop, walk, bounds>>
    PROVE  LoopInv'
  <1> USE DEF LoopInv, lists, walk, bounds
  <1>1. TypeOK'
    BY DEF TypeOK
  <1>2. ListsSound'
    BY DEF ListsSound
  <1>3. WalkInv'
    BY DEF WalkInv, Walking
  <1>4. WakeUpInv'
    <2>1. Ahead' = Ahead
      BY DEF Ahead, Walking
    <2>2. \A t \in Threads : thread[t] # "idle" => thread'[t] = thread[t] \/ thread'[t] = "notify"
      BY DEF TypeOK
    <2>3. \A t \in Threads : thread[t] = "write" => thread'[t] = "write"
      BY DEF TypeOK
    <2>4. \A x \in Requests : Noticed(x) => Noticed(x)'
      BY <2>1, <2>2 DEF Noticed
    <2> QED BY <2>3, <2>4 DEF WakeUpInv
  <1> QED BY <1>1, <1>2, <1>3, <1>4

\* The application moves its loop only while it has it, and then no poll is under way.
LEMMA HasLoop ==
    ASSUME MonitorInv, MonitorCallback \/ UserStep \/ LoopGoesOn \/ LoopPolls
    PROVE  LoopAction /\ ~Closing /\ Quiet
  <1>1. LoopAction
    <2>1. CASE MonitorCallback
      BY <2>1 DEF MonitorCallback, LoopAction
    <2>2. CASE UserStep
      BY <2>2 DEF UserStep, LoopAction
    <2>3. CASE LoopGoesOn \/ LoopPolls
      BY <2>3 DEF LoopGoesOn, LoopPolls, LoopAction
    <2> QED BY <2>1, <2>2, <2>3
  <1>2. ~Closing
    <2>1. CASE MonitorCallback
      BY <2>1 DEF MonitorCallback, ReactivateRequest, MonitorInv, Handshake, Closing
    <2>2. CASE UserStep
      BY <2>2 DEF UserStep, AppHasLoop, Closing
    <2>3. CASE LoopGoesOn \/ LoopPolls
      BY <2>3 DEF LoopGoesOn, LoopPolls, Drives, Closing, MonitorInv, Handshake
    <2> QED BY <2>1, <2>2, <2>3
  <1> QED BY <1>1, <1>2 DEF MonitorInv

LEMMA OthersStep ==
    ASSUME LoopInv, OtherThreads
    PROVE  LoopInv' /\ (Quiet => Quiet') /\ (Closing => Closing')
  <1>1. PICK t \in Threads : ThreadStep(t)
    BY DEF OtherThreads, ThreadStep
  <1>2. Closing' <=> Closing
    BY DEF OtherThreads, monitorVars, Closing
  <1> QED BY <1>1, <1>2, ThreadsStep

\* After a poll that close interrupts nothing is executed any more: until then the
\* application starts nothing.
LEMMA MonitorActionQuiet ==
    ASSUME MonitorInv, UsualUsage, MonitorNext
    PROVE  (Quiet \/ Closing)'
  <1>1. CASE CloseMonitor \/ CloseSignals \/ CloseInterrupts
    BY <1>1 DEF CloseMonitor, CloseSignals, CloseInterrupts, Closing
  <1>2. CASE Create \/ Joined
    BY <1>2 DEF Create, Joined, Start, Quiet
  <1>3. CASE EnterBlockingMode \/ StopMonitoring \/ WaitExit \/ NeedsWakeUpAgain \/ RunOnceReturns
    <2>1. UNCHANGED vars /\ ~Closing
      BY <1>3 DEF EnterBlockingMode, StopMonitoring, WaitExit, NeedsWakeUpAgain, RunOnceReturns, Closing
    <2> QED BY <2>1 DEF MonitorInv, vars, lists, walk, Quiet
  <1>4. CASE WaitEnter \/ NeedsNoWakeUp \/ ExitBlockingMode \/ TestFinished
    <2>1. UNCHANGED <<vars, app>>
      BY <1>4 DEF WaitEnter, NeedsNoWakeUp, ExitBlockingMode, TestFinished
    <2> QED BY <2>1 DEF MonitorInv, vars, lists, walk, Quiet, Closing
  <1>5. CASE StartMonitoring \/ SubmitForMonitor \/ SubmittedForMonitor
    <2>1. LoopAction /\ Quiet
      BY <1>5 DEF StartMonitoring, SubmitForMonitor, SubmittedForMonitor, LoopAction, MonitorInv,
         Closing
    <2> QED BY <2>1, QuietStep DEF MonitorInv
  <1>6. CASE InterruptPoll
    BY <1>6 DEF InterruptPoll, AddWakeUp, MonitorInv, lists, walk, Quiet, Closing
  <1>7. CASE Dispatched
    <2>1. Quiet /\ (RunStep \/ UNCHANGED vars)
      BY <1>7 DEF Dispatched, MonitorInv, Closing
    <2> QED BY <2>1, QuietStep DEF MonitorInv, LoopAction, vars, lists, walk, Quiet
  <1>8. CASE MonitorPoll
    <2>1. CASE Closing
      BY <1>8, <2>1 DEF MonitorPoll, Closing
    <2>2. CASE ~Closing
      <3>1. loop = "poll"
        BY <1>8, <2>2 DEF MonitorPoll, MonitorInv, Handshake, Lent, Held
      <3> QED BY <1>8, <2>2, <3>1 DEF MonitorPoll, PollReturns, MonitorInv, lists, Quiet
    <2> QED BY <2>1, <2>2
  <1>9. CASE MonitorCallback \/ UserStep \/ LoopGoesOn \/ LoopPolls
    BY <1>9, HasLoop, QuietStep DEF MonitorInv
  <1>10. CASE OtherThreads
    BY <1>10, OthersStep DEF MonitorInv
  <1> QED
    BY <1>1, <1>2, <1>3, <1>4, <1>5, <1>6, <1>7, <1>8, <1>9, <1>10
    DEF MonitorNext, AppGoesOn, MonitorGoesOn

\* What each step of the monitor does to the loop.
LEMMA MonitorActionLoopInv ==
    ASSUME MonitorInv, UsualUsage, MonitorNext
    PROVE  LoopInv'
  <1>1. CASE UNCHANGED vars
    BY <1>1 DEF MonitorInv, vars, lists, walk, bounds, LoopInv, TypeOK, ListsSound, WalkInv,
       WakeUpInv, Noticed, Ahead, Walking
  <1>2. CASE Create
    <2>1. MonitorWakeUp \in Requests
      BY LoopWakeUpAssumption, LoopMonitorAssumption
    <2> QED BY <1>2, <2>1, StartStep DEF Create, MonitorInv
  <1>3. CASE StartMonitoring \/ SubmitForMonitor \/ SubmittedForMonitor
    BY <1>3, MoveStep, SubmitStep DEF StartMonitoring, SubmitForMonitor, SubmittedForMonitor,
       MonitorInv
  <1>4. CASE InterruptPoll
    <2>1. MonitorWakeUp \in Requests /\ App \in Threads
      BY LoopWakeUpAssumption, LoopMonitorAssumption
    <2>2. AddWakeUp(App, MonitorWakeUp) /\ calls' \in 0 .. MaxWakeUps
      BY <1>4 DEF InterruptPoll, MonitorInv, LoopInv, TypeOK
    <2> QED BY <2>1, <2>2, AddWakeUpStep DEF MonitorInv
  <1>5. CASE MonitorPoll
    <2>1. loop \in {"idle", "poll", "dispatch"}
      BY <1>5 DEF MonitorPoll, MonitorInv, Handshake, Lent, Held
    <2> QED BY <1>5, <2>1, PollStep DEF MonitorPoll, MonitorInv
  <1>6. CASE Dispatched
    <2>1. RunStep \/ UNCHANGED vars
      BY <1>6 DEF Dispatched
    <2> QED BY <1>1, <2>1, MoveStep DEF MonitorInv
  <1>7. CASE CloseInterrupts
    BY <1>7, LatchStep DEF CloseInterrupts, MonitorInv, Handshake
  <1>8. CASE Joined
    <2>1. loop \in {"idle", "poll", "dispatch"}
      BY <1>8 DEF Joined, MonitorInv, Handshake, Closing
    <2> QED BY <1>8, <2>1, JoinedStep DEF Joined, MonitorInv
  <1>9. CASE MonitorCallback \/ UserStep \/ LoopGoesOn \/ LoopPolls
    BY <1>9, HasLoop, LoopActionStep DEF MonitorInv
  <1>10. CASE OtherThreads
    BY <1>10, OthersStep DEF MonitorInv
  <1> QED
    BY <1>1, <1>2, <1>3, <1>4, <1>5, <1>6, <1>7, <1>8, <1>9, <1>10
    DEF MonitorNext, AppGoesOn, MonitorGoesOn, EnterBlockingMode, WaitEnter, NeedsNoWakeUp,
        ExitBlockingMode, TestFinished, StopMonitoring, WaitExit, NeedsWakeUpAgain,
        RunOnceReturns, CloseMonitor, CloseSignals

LEMMA MonitorInvStep ==
    MonitorInv /\ UsualUsage /\ NeverRecreated /\ [MonitorNext]_all => MonitorInv'
  <1> SUFFICES ASSUME MonitorInv, UsualUsage, NeverRecreated, [MonitorNext]_all
               PROVE  MonitorInv'
    OBVIOUS
  <1>1. CASE UNCHANGED all
    BY <1>1 DEF all, vars, lists, walk, bounds, monitorVars, handshake, answers, MonitorInv,
       LoopInv, TypeOK, ListsSound, WalkInv, WakeUpInv, Noticed, Ahead, Walking, Quiet, Closing,
       Handshake, MonitorTypeOK, Held, Lent
  <1>2. CASE MonitorNext
    <2>1. Handshake'
      BY <1>2, AppHandshake, MonitorHandshake, LoopHandshake
      DEF MonitorInv, LoopInv, MonitorNext, AppGoesOn, MonitorGoesOn
    <2> QED BY <1>2, <2>1, MonitorActionLoopInv, MonitorActionQuiet DEF MonitorInv
  <1> QED BY <1>1, <1>2

LEMMA MonitorInvInit == MonitorInit => MonitorInv
  <1> SUFFICES ASSUME MonitorInit PROVE MonitorInv
    OBVIOUS
  <1>1. LoopInv /\ Quiet
    BY LoopInvInit DEF MonitorInit
  <1>2. Handshake
    BY LoopMonitorAssumption DEF MonitorInit, Init, Handshake, MonitorTypeOK, Closing
  <1> QED BY <1>1, <1>2 DEF MonitorInv

-----------------------------------------------------------------------------

LEMMA LoopInvAlways == ASSUME UsualUsage PROVE Spec => []LoopInv
  <1>1. LoopInv /\ Quiet /\ [Next]_vars => (LoopInv /\ Quiet)'
    BY LoopInvStep
  <1> QED BY <1>1, LoopInvInit, PTL DEF Spec

LEMMA MonitorInvAlways == ASSUME UsualUsage, NeverRecreated PROVE MonitorSpec => []MonitorInv
  <1>1. MonitorInv /\ [MonitorNext]_all => MonitorInv'
    BY MonitorInvStep
  <1> QED BY <1>1, MonitorInvInit, PTL DEF MonitorSpec

\* wakeUp and executeWakeUps, on a loop that its own thread steps: however many threads
\* ask for however many requests, the loop is always on its way to an active request that
\* was asked for.
THEOREM LoopLosesNoWakeUp == ASSUME UsualUsage PROVE Spec => []NoLostWakeUp
  BY LoopInvAlways, Noticing, PTL

\* executeWakeUps, on a loop that its own thread steps: callbacks may stop, start and
\* reactivate requests, and the walk along the intrusive list stays on it.
THEOREM LoopWalksSoundly == ASSUME UsualUsage PROVE Spec => []WalkSound
  BY LoopInvAlways, Walked, PTL

\* The same with an AsyncEventLoopMonitor, whose thread polls the loop and whose request
\* interrupts the poll: no wake-up is lost between the two threads of the loop.
THEOREM MonitorLosesNoWakeUp ==
    ASSUME UsualUsage, NeverRecreated PROVE MonitorSpec => []NoLostWakeUp
  <1>1. MonitorInv => NoLostWakeUp
    BY Noticing DEF MonitorInv
  <1> QED BY <1>1, MonitorInvAlways, PTL

\* executeWakeUps on a loop with a monitor, also after close() dropped a poll.
THEOREM MonitorWalksSoundly ==
    ASSUME UsualUsage, NeverRecreated PROVE MonitorSpec => []WalkSound
  <1>1. MonitorInv => WalkSound
    BY Walked DEF MonitorInv
  <1> QED BY <1>1, MonitorInvAlways, PTL

\* AsyncLoopWakeUp, AsyncEventLoopMonitor: the state of both stays in its types.
THEOREM MonitorTypesOK == ASSUME UsualUsage, NeverRecreated PROVE MonitorSpec => []TypesOK
  <1>1. MonitorInv => TypesOK
    BY DEF MonitorInv, LoopInv, Handshake, TypesOK
  <1> QED BY <1>1, MonitorInvAlways, PTL

\* AsyncEventLoopMonitor: whichever way startMonitoring, the end of a poll,
\* stopMonitoringAndDispatchCompletions and close meet, the two event objects keep the
\* application out of the loop while the monitoring thread polls it.
THEOREM MonitorNeverShares ==
    ASSUME UsualUsage, NeverRecreated PROVE MonitorSpec => []NeverShared
  <1>1. MonitorInv => NeverShared
    BY DEF MonitorInv, Handshake, MonitorTypeOK, Held, Lent, Closing, AppUsesLoop, NeverShared
  <1> QED BY <1>1, MonitorInvAlways, PTL
=============================================================================
