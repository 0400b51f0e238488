--------------------------- MODULE FiberSyncProofs ---------------------------
(***************************************************************************)
(* FiberSync, for any fibers and threads outside, any number of workers    *)
(* and every kind of primitive: permits are handed over without loss, the  *)
(* nodes on the stacks of waiting fibers are there while somebody needs    *)
(* them, and nobody sleeps on a wake-up.                                   *)
(*                                                                         *)
(* The window of the protocol is between the moment a node is taken off    *)
(* the queue and the one when its counter reaches zero: `notified`.        *)
(***************************************************************************)
EXTENDS FiberSync, FiniteSetTheorems, SequenceTheorems, TLAPS

Signalling(t) == pc[t] \in {"wakes", "signals"}
Active(f) == status[f] \in {"running", "suspending"}

\* One fiber runs at a time, and nobody else signals.
Alone == setting.workers = 1 /\ ~Uses("outside")
Exclusive ==
    /\ Uses("cancel") \/ (kind = "event" /\ Uses("reset")) => Alone
    /\ setting.workers = 1 => \A f, g \in Fibers : Active(f) /\ Active(g) => f = g

\* Where a fiber may be in its wait.
FiberInv(f) ==
    /\ status[f] \in {"suspending", "waiting"} => pc[f] = "suspended"
    /\ status[f] = "completed" => pc[f] = "out"
    /\ status[f] = "ready" => pc[f] \in {"out", "holds", "suspended"}
    /\ pc[f] = "suspended" /\ status[f] \in {"ready", "running"} =>
         node[f] = "done" \/ cancelRequested[f]
    /\ status[f] = "waiting" => node[f] # "done" /\ ~cancelRequested[f]
    /\ cancelRequested[f] \/ pc[f] \in {"failed", "passesOn"} => Uses("cancel")
    /\ pc[f] \in {"out", "holds"} => node[f] = "none"
    /\ pc[f] \in {"waits", "tested", "suspended", "failed"} => node[f] # "none"
    /\ pc[f] \in {"woken", "passesOn"} => node[f] = "done"
    /\ Signalling(f) => node[f] \in {"none", "done"}
    /\ pc[f] = "passesOn" => kind # "event"
    /\ pc[f] = "holds" => kind \in {"semaphore", "mutex"}

CallerInv(t) ==
    /\ t \in Outside => pc[t] = "out" \/ (Signalling(t) /\ Uses("outside") /\ kind # "mutex")
    /\ pc[t] = "wakes" => popped[t] \in Fibers /\ node[popped[t]] = "notified"
    /\ pc[t] = "signals" => kind \in {"event", "semaphore"}
    /\ left[t] # 0 => Signalling(t) /\ kind = "semaphore"
    /\ Signalling(t) /\ kind = "event" => permits # 0

\* Who was taken off the queue has one caller that will be done with it.
NotifiedInv ==
    /\ \A f \in Fibers : node[f] = "notified" => \E t \in Callers : pc[t] = "wakes" /\ popped[t] = f
    /\ \A t, u \in Callers : pc[t] = "wakes" /\ pc[u] = "wakes" /\ popped[t] = popped[u] => t = u

SomeoneSignals == kind = "event" /\ \E t \in Callers : Signalling(t)

QueueInv ==
    /\ IsInjective(queue)
    /\ \A f \in Fibers : Contains(queue, f) <=> node[f] = "queued"
    /\ IF queue # <<>> THEN waitTail = Last(queue) ELSE waitTail = Null \/ SomeoneSignals
    /\ permits # 0 /\ queue # <<>> => SomeoneSignals

GrantInv == PermitsKept /\ HandedOver /\ (kind = "mutex" => credit = 1)

IInv ==
    /\ TypeOK /\ Exclusive
    /\ \A f \in Fibers : FiberInv(f)
    /\ \A t \in Callers : CallerInv(t)
    /\ NotifiedInv /\ QueueInv /\ GrantInv

-----------------------------------------------------------------------------
(* Steps of the scheduler, which leave the primitive alone                 *)

Inside == {"waits", "tested", "suspended", "woken", "failed"}

SchedulerStep(f) ==
    \/ Spawn(f) \/ Run(f) \/ Yield(f) \/ Complete(f) \/ Cancel(f)
    \/ TestCounter(f) \/ Suspend(f) \/ PublishSuspension(f) \/ Resume(f)

LEMMA Moved ==
    ASSUME NEW S, NEW f \in Callers, NEW to \in Inside, pc \in [Callers -> S], Inside \subseteq S,
           pc[f] \in Inside, pc' = [pc EXCEPT ![f] = to]
    PROVE  /\ pc' \in [Callers -> S] /\ \A g \in Callers \ {f} : pc'[g] = pc[g]
           /\ \A t \in Callers : pc'[t] = pc[t] \/ (pc[t] \in Inside /\ pc'[t] \in Inside)
  OBVIOUS

LEMMA SchedulerFrame ==
    ASSUME TypeOK, NEW f \in Fibers, SchedulerStep(f)
    PROVE  /\ UNCHANGED <<setting, grants, waiters, node, calls>>
           /\ \A t \in Callers : pc'[t] = pc[t] \/ (pc[t] \in Inside /\ pc'[t] \in Inside)
           /\ \A g \in Fibers \ {f} :
                status'[g] = status[g] /\ cancelRequested'[g] = cancelRequested[g] /\ pc'[g] = pc[g]
           /\ pc' \in [Callers -> Locations]
           /\ status' \in [Fibers -> Statuses]
           /\ cancelRequested' \in [Fibers -> BOOLEAN]
  <1>0. f \in Callers
    BY DEF Callers
  <1>1. CASE Spawn(f) \/ Run(f) \/ Yield(f) \/ Complete(f)
    BY <1>1 DEF Spawn, Run, Yield, Complete, TypeOK, Statuses
  <1>2. CASE Cancel(f)
    BY <1>2 DEF Cancel, TypeOK, Statuses
  <1>3. CASE TestCounter(f)
    <2>1. PICK to \in Inside : pc[f] \in Inside /\ pc' = [pc EXCEPT ![f] = to]
      BY <1>3 DEF TestCounter, Goes, Inside
    <2>2. /\ UNCHANGED <<setting, grants, waiters, node, calls>>
          /\ \A g \in Fibers \ {f} : status'[g] = status[g] /\ cancelRequested'[g] = cancelRequested[g]
          /\ status' \in [Fibers -> Statuses]
          /\ cancelRequested' \in [Fibers -> BOOLEAN]
      BY <1>3 DEF TestCounter, tasks, TypeOK, Statuses
    <2> QED
      BY <1>0, <2>1, <2>2, Moved DEF TypeOK, Callers, Locations, Inside
  <1>4. CASE Suspend(f)
    <2>1. PICK to \in Inside : pc[f] \in Inside /\ pc' = [pc EXCEPT ![f] = to]
      BY <1>4 DEF Suspend, Goes, Inside
    <2>2. /\ UNCHANGED <<setting, grants, waiters, node, calls>>
          /\ \A g \in Fibers \ {f} : status'[g] = status[g] /\ cancelRequested'[g] = cancelRequested[g]
          /\ status' \in [Fibers -> Statuses]
          /\ cancelRequested' \in [Fibers -> BOOLEAN]
      BY <1>4 DEF Suspend, tasks, TypeOK, Statuses
    <2> QED
      BY <1>0, <2>1, <2>2, Moved DEF TypeOK, Callers, Locations, Inside
  <1>5. CASE PublishSuspension(f)
    BY <1>5 DEF PublishSuspension, TypeOK, Statuses
  <1>6. CASE Resume(f)
    <2>1. PICK to \in Inside : pc[f] \in Inside /\ pc' = [pc EXCEPT ![f] = to]
      BY <1>6 DEF Resume, Goes, Inside
    <2>2. /\ UNCHANGED <<setting, grants, waiters, node, calls>>
          /\ \A g \in Fibers \ {f} : status'[g] = status[g] /\ cancelRequested'[g] = cancelRequested[g]
          /\ status' \in [Fibers -> Statuses]
          /\ cancelRequested' \in [Fibers -> BOOLEAN]
      BY <1>6 DEF Resume, tasks, TypeOK, Statuses
    <2> QED
      BY <1>0, <2>1, <2>2, Moved DEF TypeOK, Callers, Locations, Inside
  <1> QED
    BY <1>1, <1>2, <1>3, <1>4, <1>5, <1>6 DEF SchedulerStep

LEMMA SchedulerFiber ==
    ASSUME IInv, NEW f \in Fibers, SchedulerStep(f), NEW g \in Fibers
    PROVE  FiberInv(g)'
  <1>0. TypeOK /\ FiberInv(f) /\ FiberInv(g) /\ f \in Callers
    BY DEF IInv, Callers
  <1>f. UNCHANGED <<setting, grants, waiters, node, calls>>
    BY <1>0, SchedulerFrame
  <1>1. CASE g # f
    BY <1>0, <1>f, <1>1, SchedulerFrame DEF FiberInv, Signalling, Uses, kind
  <1>2. CASE g = f
    <2>1. CASE Spawn(f)
      BY <1>0, <1>2, <2>1 DEF FiberInv, Signalling, Uses, kind, Spawn, TypeOK
    <2>2. CASE Run(f)
      BY <1>0, <1>2, <2>2 DEF FiberInv, Signalling, Uses, kind, Run, TypeOK
    <2>3. CASE Yield(f)
      BY <1>0, <1>2, <2>3 DEF FiberInv, Signalling, Uses, kind, Yield, TypeOK
    <2>4. CASE Complete(f)
      BY <1>0, <1>2, <2>4 DEF FiberInv, Signalling, Uses, kind, Complete, TypeOK, Statuses
    <2>5. CASE Cancel(f)
      BY <1>0, <1>2, <2>5 DEF FiberInv, Signalling, Uses, kind, Cancel, TypeOK
    <2>6. CASE TestCounter(f)
      BY <1>0, <1>2, <2>6 DEF FiberInv, Signalling, Uses, kind, TestCounter, Goes, tasks, TypeOK
    <2>7. CASE Suspend(f)
      BY <1>0, <1>2, <2>7 DEF FiberInv, Signalling, Uses, kind, Suspend, Goes, TypeOK
    <2>8. CASE PublishSuspension(f)
      BY <1>0, <1>2, <2>8 DEF FiberInv, Signalling, Uses, kind, PublishSuspension, TypeOK, Statuses
    <2>9. CASE Resume(f)
      BY <1>0, <1>2, <2>9 DEF FiberInv, Signalling, Uses, kind, Resume, Goes, tasks, TypeOK, Statuses
    <2> QED
      BY <2>1, <2>2, <2>3, <2>4, <2>5, <2>6, <2>7, <2>8, <2>9 DEF SchedulerStep
  <1> QED
    BY <1>1, <1>2

LEMMA SchedulerExclusive ==
    ASSUME IInv, NEW f \in Fibers, SchedulerStep(f), FiberSyncAssumption
    PROVE  Exclusive'
  <1>0. TypeOK /\ Exclusive /\ UNCHANGED <<setting, grants, waiters, node, calls>>
    BY SchedulerFrame DEF IInv
  <1>1. CASE Run(f)
    <2> DEFINE A == {g \in Fibers : status[g] \in {"running", "suspending"}}
    <2>1. IsFiniteSet(A)
      BY FS_Subset DEF FiberSyncAssumption
    <2>2. setting.workers = 1 => A = {}
      <3>1. setting.workers = 1 => Cardinality(A) < 1
        BY <1>1 DEF Run
      <3>2. Cardinality(A) \in Nat /\ (Cardinality(A) = 0 <=> A = {})
        BY <2>1, FS_CardinalityType, FS_EmptySet
      <3> HIDE DEF A
      <3> QED
        BY <3>1, <3>2
    <2>3. \A g \in Fibers \ {f} : status'[g] = status[g]
      BY <1>0, SchedulerFrame
    <2>4. setting.workers = 1 => \A g \in Fibers : Active(g)' => g = f
      BY <2>2, <2>3 DEF Active
    <2> QED
      BY <1>0, <2>4 DEF Exclusive, Alone, Uses, kind
  <1>2. CASE ~Run(f)
    <2>1. \A g \in Fibers : Active(g)' => Active(g)
      BY <1>0, <1>2 DEF SchedulerStep, Spawn, Yield, Complete, Cancel, TestCounter, Suspend,
        PublishSuspension, Resume, Active, tasks, TypeOK, Statuses
    <2> QED
      BY <1>0, <2>1 DEF Exclusive, Alone, Uses, kind
  <1> QED
    BY <1>1, <1>2

LEMMA SchedulerKeeps ==
    ASSUME IInv, NEW f \in Fibers, SchedulerStep(f), FiberSyncAssumption
    PROVE  IInv'
  <1>0. /\ TypeOK /\ UNCHANGED <<setting, grants, waiters, node, calls>>
        /\ \A t \in Callers : pc'[t] = pc[t] \/ (pc[t] \in Inside /\ pc'[t] \in Inside)
    BY SchedulerFrame DEF IInv
  <1>1. TypeOK'
    BY <1>0, SchedulerFrame DEF TypeOK, grants, waiters, calls
  <1>2. \A t \in Callers :
          /\ pc'[t] = "wakes" <=> pc[t] = "wakes"
          /\ pc'[t] = "signals" <=> pc[t] = "signals"
          /\ pc'[t] = "holds" <=> pc[t] = "holds"
          /\ pc'[t] = "out" <=> pc[t] = "out"
    BY <1>0 DEF Inside
  <1>3. ASSUME NEW t \in Callers
        PROVE  CallerInv(t)'
    <2>1. CallerInv(t)
      BY DEF IInv
    <2> QED
      BY <1>0, <1>2, <2>1 DEF CallerInv, Signalling, Uses, kind, calls, grants
  <1>4. NotifiedInv'
    <2>1. NotifiedInv
      BY DEF IInv
    <2> QED
      BY <1>0, <1>2, <2>1 DEF NotifiedInv, calls
  <1>5. QueueInv'
    <2>1. QueueInv
      BY DEF IInv
    <2> QED
      BY <1>0, <1>2, <2>1 DEF QueueInv, SomeoneSignals, Signalling, Uses, kind, waiters, grants
  <1>6. GrantInv'
    <2>1. GrantInv /\ f \in Callers /\ Fibers \subseteq Callers
      BY DEF IInv, Callers
    <2>2. Granted' = Granted
      BY <1>0, <1>2, <2>1 DEF Granted
    <2>3. ToGive' = ToGive
      BY <1>0 DEF ToGive, calls
    <2> QED
      BY <1>0, <2>1, <2>2, <2>3 DEF GrantInv, PermitsKept, HandedOver, kind, grants
  <1> QED
    BY <1>1, <1>3, <1>4, <1>5, <1>6, SchedulerFiber, SchedulerExclusive DEF IInv

-----------------------------------------------------------------------------
(* The queue of nodes                                                      *)

LEMMA Appended ==
    ASSUME NEW S, NEW list \in Seq(S), IsInjective(list), NEW r \in S, ~Contains(list, r)
    PROVE  /\ Append(list, r) \in Seq(S) /\ IsInjective(Append(list, r))
           /\ \A x : Contains(Append(list, r), x) <=> Contains(list, x) \/ x = r
           /\ Append(list, r) # <<>> /\ Last(Append(list, r)) = r
  <1> DEFINE n == Len(list)
             a == Append(list, r)
  <1>1. n \in Nat /\ DOMAIN list = 1 .. n
    BY LenProperties
  <1>2. /\ a \in Seq(S) /\ Len(a) = n + 1 /\ a[n + 1] = r
        /\ \A i \in 1 .. n : a[i] = list[i]
    BY AppendProperties
  <1>3. DOMAIN a = 1 .. n + 1
    BY <1>2, LenProperties
  <1> HIDE DEF a
  <1>4. \A i \in 1 .. n : a[i] # r
    BY <1>2 DEF Contains
  <1>5. IsInjective(a)
    BY <1>1, <1>2, <1>3, <1>4 DEF IsInjective
  <1>6. \A x : Contains(a, x) <=> Contains(list, x) \/ x = r
    BY <1>1, <1>2 DEF Contains
  <1>7. a # <<>> /\ Last(a) = r
    BY <1>1, <1>2, EmptySeq DEF Last
  <1> QED BY <1>2, <1>5, <1>6, <1>7 DEF a

LEMMA HeadTaken ==
    ASSUME NEW S, NEW list \in Seq(S), IsInjective(list), list # <<>>
    PROVE  /\ Tail(list) \in Seq(S) /\ IsInjective(Tail(list))
           /\ Head(list) \in S /\ Contains(list, Head(list))
           /\ \A x : Contains(Tail(list), x) <=> Contains(list, x) /\ x # Head(list)
           /\ Len(list) = 1 <=> Tail(list) = <<>>
           /\ Tail(list) # <<>> => Last(Tail(list)) = Last(list)
  <1> DEFINE n == Len(list)
             t == Tail(list)
  <1>1. n \in Nat \ {0} /\ DOMAIN list = 1 .. n /\ Head(list) = list[1]
    BY EmptySeq, LenProperties
  <1>2. t \in Seq(S) /\ Len(t) = n - 1 /\ \A i \in 1 .. n - 1 : t[i] = list[i + 1]
    BY HeadTailProperties
  <1>3. DOMAIN t = 1 .. n - 1
    BY <1>2, LenProperties
  <1>4. \A i, j \in 1 .. n : list[i] = list[j] => i = j
    BY <1>1 DEF IsInjective
  <1> HIDE DEF t, n
  <1>5. IsInjective(t)
    BY <1>1, <1>2, <1>3, <1>4 DEF IsInjective
  <1>6. ASSUME NEW x PROVE Contains(t, x) <=> Contains(list, x) /\ x # Head(list)
    <2>1. ASSUME NEW i \in 1 .. n - 1, t[i] = x PROVE Contains(list, x) /\ x # Head(list)
      <3>1. i + 1 \in 1 .. n /\ i + 1 # 1 /\ list[i + 1] = x
        BY <1>1, <1>2, <2>1
      <3> QED BY <1>1, <1>4, <3>1 DEF Contains, n
    <2>2. ASSUME NEW i \in 1 .. n, list[i] = x, x # Head(list) PROVE Contains(t, x)
      <3>1. i - 1 \in 1 .. n - 1
        BY <1>1, <2>2
      <3>2. t[i - 1] = x
        BY <1>1, <1>2, <2>2, <3>1
      <3> QED BY <1>2, <3>1, <3>2 DEF Contains
    <2> QED BY <1>2, <2>1, <2>2 DEF Contains, n
  <1>7. Head(list) \in S /\ Contains(list, Head(list))
    BY <1>1, ElementOfSeq DEF Contains, n
  <1>8. Len(list) = 1 <=> t = <<>>
    BY <1>1, <1>2, EmptySeq DEF n
  <1>9. t # <<>> => Last(t) = Last(list)
    BY <1>1, <1>2, EmptySeq DEF Last, n
  <1> QED BY <1>2, <1>5, <1>6, <1>7, <1>8, <1>9 DEF t

LEMMA RemoveAtIndexed ==
    ASSUME NEW S, NEW list \in Seq(S), NEW i \in 1 .. Len(list)
    PROVE  /\ RemoveAt(list, i) \in Seq(S)
           /\ Len(RemoveAt(list, i)) = Len(list) - 1
           /\ \A j \in 1 .. Len(list) - 1 :
                RemoveAt(list, i)[j] = IF j < i THEN list[j] ELSE list[j + 1]
  <1> DEFINE before == SubSeq(list, 1, i - 1)
             after == SubSeq(list, i + 1, Len(list))
  <1>1. Len(list) \in Nat /\ \A j \in 1 .. Len(list) : list[j] \in S
    BY LenProperties, ElementOfSeq
  <1>2. /\ before \in Seq(S) /\ Len(before) = i - 1
        /\ \A j \in 1 .. i - 1 : before[j] = list[j]
    BY <1>1, SubSeqProperties
  <1>3. /\ after \in Seq(S) /\ Len(after) = Len(list) - i
        /\ \A j \in 1 .. Len(list) - i : after[j] = list[i + j]
    <2>1. /\ after \in Seq(S)
          /\ Len(after) = IF i + 1 <= Len(list) THEN Len(list) - (i + 1) + 1 ELSE 0
          /\ \A j \in 1 .. Len(list) - (i + 1) + 1 : after[j] = list[(i + 1) + j - 1]
      BY <1>1, SubSeqProperties
    <2> QED BY <1>1, <2>1
  <1>4. /\ before \o after \in Seq(S)
        /\ Len(before \o after) = Len(before) + Len(after)
        /\ \A j \in 1 .. Len(before) + Len(after) :
             (before \o after)[j] = IF j <= Len(before) THEN before[j] ELSE after[j - Len(before)]
    BY <1>2, <1>3, ConcatProperties
  <1> HIDE DEF before, after
  <1>5. ASSUME NEW j \in 1 .. Len(list) - 1
        PROVE  (before \o after)[j] = IF j < i THEN list[j] ELSE list[j + 1]
    <2>1. CASE j < i
      BY <1>1, <1>2, <1>3, <1>4, <2>1
    <2>2. CASE ~(j < i)
      <3>1. j - Len(before) \in 1 .. Len(list) - i /\ i + (j - Len(before)) = j + 1
        BY <1>1, <1>2, <2>2
      <3>2. after[j - Len(before)] = list[j + 1]
        BY <1>3, <3>1
      <3>3. (before \o after)[j] = after[j - Len(before)]
        BY <1>1, <1>2, <1>3, <1>4, <2>2
      <3> QED BY <2>2, <3>2, <3>3
    <2> QED BY <2>1, <2>2
  <1>6. RemoveAt(list, i) = before \o after
    BY DEF RemoveAt, before, after
  <1>7. Len(before \o after) = Len(list) - 1
    BY <1>1, <1>2, <1>3, <1>4
  <1> QED
    BY <1>4, <1>5, <1>6, <1>7

LEMMA Removed ==
    ASSUME NEW S, NEW list \in Seq(S), IsInjective(list), NEW r, Contains(list, r)
    PROVE  /\ RemoveFirst(list, r) \in Seq(S)
           /\ IsInjective(RemoveFirst(list, r))
           /\ \A x : Contains(RemoveFirst(list, r), x) <=> Contains(list, x) /\ x # r
           /\ Last(list) # r =>
                RemoveFirst(list, r) # <<>> /\ Last(RemoveFirst(list, r)) = Last(list)
  <1>0. Len(list) \in Nat /\ DOMAIN list = 1 .. Len(list)
    BY LenProperties
  <1>1. PICK i \in 1 .. Len(list) : list[i] = r
    BY DEF Contains
  <1> DEFINE u == RemoveAt(list, i)
  <1>2. RemoveFirst(list, r) = u
    <2>1. {j \in 1 .. Len(list) : list[j] = r} = {i}
      BY <1>0, <1>1 DEF IsInjective
    <2>2. SelectInSeq(list, LAMBDA v : v = r) = i
      BY <1>0, <2>1 DEF SelectInSeq, Min
    <2> QED BY <1>1, <2>2 DEF RemoveFirst
  <1>3. /\ u \in Seq(S) /\ Len(u) = Len(list) - 1
        /\ \A j \in 1 .. Len(list) - 1 : u[j] = IF j < i THEN list[j] ELSE list[j + 1]
    BY <1>1, RemoveAtIndexed
  <1> HIDE DEF u
  <1>4. DOMAIN u = 1 .. Len(list) - 1
    BY <1>3, LenProperties
  <1>5. \A j, k \in 1 .. Len(list) : list[j] = list[k] => j = k
    BY <1>0 DEF IsInjective
  <1>6. IsInjective(u)
    <2> SUFFICES ASSUME NEW j \in 1 .. Len(list) - 1, NEW k \in 1 .. Len(list) - 1,
                        u[j] = u[k]
                 PROVE  j = k
      BY <1>4 DEF IsInjective
    <2> DEFINE at(n) == IF n < i THEN n ELSE n + 1
    <2>1. at(j) \in 1 .. Len(list) /\ at(k) \in 1 .. Len(list)
      BY <1>0, <1>1
    <2>2. list[at(j)] = list[at(k)]
      BY <1>3
    <2>3. at(j) = at(k)
      BY <1>5, <2>1, <2>2
    <2> QED BY <1>0, <1>1, <2>3
  <1>7. ASSUME NEW x PROVE Contains(u, x) <=> Contains(list, x) /\ x # r
    <2>1. ASSUME NEW j \in 1 .. Len(list) - 1, u[j] = x PROVE Contains(list, x) /\ x # r
      <3>1. CASE j < i
        BY <1>0, <1>1, <1>3, <1>5, <2>1, <3>1 DEF Contains
      <3>2. CASE ~(j < i)
        <4>1. list[j + 1] = x /\ j + 1 \in 1 .. Len(list) /\ j + 1 # i
          BY <1>0, <1>1, <1>3, <2>1, <3>2
        <4> QED BY <1>1, <1>5, <4>1 DEF Contains
      <3> QED BY <3>1, <3>2
    <2>2. ASSUME NEW j \in 1 .. Len(list), list[j] = x, x # r PROVE Contains(u, x)
      <3>1. CASE j < i
        BY <1>0, <1>1, <1>3, <2>2, <3>1 DEF Contains
      <3>2. CASE ~(j < i)
        <4>1. j - 1 \in 1 .. Len(list) - 1 /\ ~(j - 1 < i)
          BY <1>0, <1>1, <2>2, <3>2
        <4>2. u[j - 1] = x
          BY <1>0, <1>3, <2>2, <4>1
        <4> QED BY <1>3, <4>1, <4>2 DEF Contains
      <3> QED BY <3>1, <3>2
    <2> QED BY <1>3, <2>1, <2>2 DEF Contains
  <1>8. ASSUME Last(list) # r PROVE u # <<>> /\ Last(u) = Last(list)
    <2> DEFINE n == Len(list)
    <2>1. n \in Nat /\ i \in 1 .. n /\ Len(u) = n - 1
      BY <1>0, <1>1, <1>3
    <2>2. Last(list) = list[n] /\ i # n
      BY <1>1, <1>8 DEF Last
    <2>3. \A j \in 1 .. n - 1 : ~(j < i) => u[j] = list[j + 1]
      BY <1>3
    <2> HIDE DEF n
    <2>4. n - 1 \in 1 .. n - 1 /\ ~(n - 1 < i) /\ (n - 1) + 1 = n /\ n - 1 # 0
      BY <2>1, <2>2
    <2>5. u[n - 1] = list[n]
      BY <2>3, <2>4
    <2>6. u # <<>>
      BY <1>3, <2>1, <2>4, EmptySeq
    <2> QED BY <2>1, <2>2, <2>5, <2>6 DEF Last
  <1> QED BY <1>2, <1>3, <1>6, <1>7, <1>8

\* While permits are out nothing but a signal under way leaves the tail behind.
LEMMA WaiterQueued ==
    ASSUME FiberSyncAssumption, IInv, permits = 0, NEW f \in Fibers, node[f] = "none", QueueWaiter(f)
    PROVE  /\ queue' \in Seq(Fibers) /\ IsInjective(queue') /\ waitTail' = f
           /\ \A g : Contains(queue', g) <=> Contains(queue, g) \/ g = f
           /\ queue' # <<>> /\ Last(queue') = f
  <1>1. queue \in Seq(Fibers) /\ IsInjective(queue) /\ ~Contains(queue, f)
    BY DEF IInv, TypeOK, QueueInv
  <1>2. ~SomeoneSignals
    <2>1. ASSUME NEW t \in Callers, Signalling(t), kind = "event"
          PROVE  FALSE
      BY <2>1 DEF IInv, CallerInv
    <2> QED
      BY <2>1 DEF SomeoneSignals
  <1>3. IF queue # <<>> THEN waitTail = Last(queue) ELSE waitTail = Null
    BY <1>2 DEF IInv, QueueInv
  <1>4. queue' = Append(queue, f) /\ waitTail' = f
    <2>1. CASE queue = <<>>
      BY <1>3, <2>1 DEF QueueWaiter
    <2>2. CASE queue # <<>>
      <3>1. waitTail # Null
        <4>1. waitTail \in Fibers
          BY <1>1, <1>3, <2>2, EmptySeq, LenProperties, ElementOfSeq DEF Last
        <4> QED
          BY <4>1 DEF FiberSyncAssumption
      <3> QED
        BY <1>3, <2>2, <3>1 DEF QueueWaiter
    <2> QED
      BY <2>1, <2>2
  <1> QED
    BY <1>1, <1>4, Appended

LEMMA WaiterPopped ==
    ASSUME IInv, queue # <<>>
    PROVE  /\ Tail(queue) \in Seq(Fibers) /\ IsInjective(Tail(queue))
           /\ Head(queue) \in Fibers /\ node[Head(queue)] = "queued"
           /\ \A g : Contains(Tail(queue), g) <=> Contains(queue, g) /\ g # Head(queue)
           /\ Len(queue) = 1 <=> Tail(queue) = <<>>
           /\ Tail(queue) # <<>> => waitTail = Last(Tail(queue))
  <1>1. queue \in Seq(Fibers) /\ QueueInv
    BY DEF IInv, TypeOK
  <1> QED
    BY <1>1, HeadTaken DEF QueueInv

LEMMA WaiterRemoved ==
    ASSUME IInv, NEW f \in Fibers, node[f] = "queued", RemoveWaiter(f)
    PROVE  /\ queue' \in Seq(Fibers) /\ IsInjective(queue')
           /\ \A g : Contains(queue', g) <=> Contains(queue, g) /\ g # f
           /\ waitTail' = IF queue' # <<>> THEN Last(queue') ELSE Null
           /\ queue # <<>>
  <1>1. queue \in Seq(Fibers) /\ QueueInv /\ Contains(queue, f)
    BY DEF IInv, TypeOK, QueueInv
  <1>2. queue # <<>>
    BY <1>1 DEF Contains
  <1>3. queue' = RemoveFirst(queue, f) /\ waitTail = Last(queue)
    BY <1>1, <1>2 DEF RemoveWaiter, QueueInv
  <1>4. /\ queue' \in Seq(Fibers) /\ IsInjective(queue')
        /\ \A g : Contains(queue', g) <=> Contains(queue, g) /\ g # f
        /\ Last(queue) # f => queue' # <<>> /\ Last(queue') = Last(queue)
    BY <1>1, <1>3, Removed DEF QueueInv
  <1>5. waitTail' = IF queue' # <<>> THEN Last(queue') ELSE Null
    BY <1>3, <1>4 DEF RemoveWaiter
  <1> QED
    BY <1>2, <1>4, <1>5

-----------------------------------------------------------------------------
(* Counting permits                                                        *)

LEMMA GrantedCounts ==
    ASSUME FiberSyncAssumption, NEW S \in SUBSET Fibers, NEW f
    PROVE  /\ IsFiniteSet(S) /\ Cardinality(S) \in Nat
           /\ f \notin S => Cardinality(S \cup {f}) = Cardinality(S) + 1
           /\ f \in S => Cardinality(S \ {f}) = Cardinality(S) - 1 /\ Cardinality(S) # 0
  <1>1. IsFiniteSet(S)
    BY FS_Subset DEF FiberSyncAssumption
  <1> QED
    BY <1>1, FS_CardinalityType, FS_AddElement, FS_RemoveElement, FS_EmptySet

LEMMA GivesCount ==
    ASSUME FiberSyncAssumption, TypeOK, NEW t \in Callers, NEW n \in 0 .. MaxCredit,
           left' = [left EXCEPT ![t] = n]
    PROVE  /\ Cardinality(ToGive) \in Nat /\ Cardinality(ToGive') \in Nat
           /\ Cardinality(ToGive') = Cardinality(ToGive) - left[t] + n
  <1> DEFINE Rest == {g \in ToGive : g[1] # t}
             Column(k) == {t} \X (1 .. k)
  <1>1. left \in [Callers -> 0 .. MaxCredit] /\ MaxCredit \in Nat
    BY DEF TypeOK, FiberSyncAssumption
  <1>2. IsFiniteSet(Callers \X (1 .. MaxCredit))
    <2>1. IsFiniteSet(Callers)
      BY FS_Union DEF Callers, FiberSyncAssumption
    <2>2. IsFiniteSet(1 .. MaxCredit)
      BY <1>1, FS_Interval
    <2> QED
      BY <2>1, <2>2, FS_Product
  <1>3. IsFiniteSet(Rest)
    <2>1. Rest \in SUBSET (Callers \X (1 .. MaxCredit))
      BY DEF ToGive
    <2> QED
      BY <1>2, <2>1, FS_Subset
  <1>4. ASSUME NEW k \in 0 .. MaxCredit
        PROVE  IsFiniteSet(Column(k)) /\ Cardinality(Column(k)) = k
    <2>0. k \in Nat /\ k \in Int /\ 1 \in Int
      BY <1>1
    <2>1. IsFiniteSet(1 .. k) /\ Cardinality(1 .. k) = k
      <3>1. IsFiniteSet(1 .. k) /\ Cardinality(1 .. k) = IF 1 > k THEN 0 ELSE k - 1 + 1
        BY <2>0, FS_Interval
      <3> QED
        BY <2>0, <3>1
    <2>2. IsFiniteSet({t}) /\ Cardinality({t}) = 1
      BY FS_Singleton
    <2> DEFINE one == {t}
               upTo == 1 .. k
    <2>3. IsFiniteSet(one \X upTo) /\ Cardinality(one \X upTo) = Cardinality(one) * Cardinality(upTo)
      <3> HIDE DEF one, upTo
      <3>1. IsFiniteSet(one) /\ IsFiniteSet(upTo)
        BY <2>1, <2>2 DEF one, upTo
      <3> QED
        BY <3>1, FS_Product
    <2>4. Cardinality(one) * Cardinality(upTo) = k
      BY <2>0, <2>1, <2>2
    <2> QED
      BY <2>3, <2>4
  <1>5. ASSUME NEW k \in 0 .. MaxCredit
        PROVE  /\ IsFiniteSet(Rest \cup Column(k))
               /\ Cardinality(Rest \cup Column(k)) = Cardinality(Rest) + k
    <2>1. Rest \cap Column(k) = {}
      OBVIOUS
    <2>2. Cardinality(Rest \cap Column(k)) = 0
      BY <2>1, FS_EmptySet
    <2>3. Cardinality(Rest) \in Nat
      BY <1>3, FS_CardinalityType
    <2> HIDE DEF Rest, Column
    <2>4. /\ IsFiniteSet(Rest \cup Column(k))
          /\ Cardinality(Rest \cup Column(k)) =
               Cardinality(Rest) + Cardinality(Column(k)) - Cardinality(Rest \cap Column(k))
      BY <1>3, <1>4, FS_Union
    <2> QED
      BY <1>4, <2>2, <2>3, <2>4
  <1>6. ToGive = Rest \cup Column(left[t])
    <2>1. ASSUME NEW c \in Callers, NEW i \in 1 .. MaxCredit
          PROVE  <<c, i>> \in ToGive <=> <<c, i>> \in Rest \cup Column(left[t])
      BY <1>1 DEF ToGive
    <2>2. Column(left[t]) \subseteq Callers \X (1 .. MaxCredit)
      BY <1>1
    <2> QED
      BY <2>1, <2>2 DEF ToGive
  <1>7. ToGive' = Rest \cup Column(n)
    <2>1. ASSUME NEW c \in Callers, NEW i \in 1 .. MaxCredit
          PROVE  <<c, i>> \in ToGive' <=> <<c, i>> \in Rest \cup Column(n)
      <3>1. left'[t] = n /\ \A u \in Callers \ {t} : left'[u] = left[u]
        BY <1>1
      <3> QED
        BY <1>1, <3>1 DEF ToGive
    <2>2. Column(n) \subseteq Callers \X (1 .. MaxCredit)
      BY <1>1
    <2> QED
      BY <2>1, <2>2 DEF ToGive
  <1>8. Cardinality(Rest) \in Nat /\ left[t] \in 0 .. MaxCredit
    BY <1>1, <1>3, FS_CardinalityType
  <1> HIDE DEF Rest, Column
  <1>9. Cardinality(ToGive) = Cardinality(Rest) + left[t]
    BY <1>5, <1>6, <1>8
  <1>10. Cardinality(ToGive') = Cardinality(Rest) + n
    BY <1>5, <1>7
  <1> QED
    BY <1>1, <1>8, <1>9, <1>10

LEMMA GivesNat ==
    ASSUME FiberSyncAssumption
    PROVE  Cardinality(ToGive) \in Nat
  <1>1. IsFiniteSet(Callers)
    BY FS_Union DEF Callers, FiberSyncAssumption
  <1>2. IsFiniteSet(1 .. MaxCredit)
    BY FS_Interval DEF FiberSyncAssumption
  <1>3. IsFiniteSet(Callers \X (1 .. MaxCredit))
    BY <1>1, <1>2, FS_Product
  <1>4. ToGive \in SUBSET (Callers \X (1 .. MaxCredit))
    BY DEF ToGive
  <1> QED
    BY <1>3, <1>4, FS_Subset, FS_CardinalityType

-----------------------------------------------------------------------------
(* Who can be where                                                        *)

LEMMA BusyRuns ==
    ASSUME IInv, NEW f \in Fibers, pc[f] \notin {"out", "holds", "suspended"}
    PROVE  status[f] = "running" /\ Active(f)
  <1>1. FiberInv(f) /\ status[f] \in Statuses
    BY DEF IInv, TypeOK
  <1> QED
    BY <1>1 DEF FiberInv, Statuses, Active

\* Where one fiber runs alone, nobody signals while it is elsewhere.
LEMMA AloneNoSignal ==
    ASSUME IInv, Alone, NEW f \in Fibers, status[f] = "running", ~Signalling(f),
           NEW t \in Callers
    PROVE  ~Signalling(t)
  <1>1. CASE t \in Outside
    BY <1>1 DEF IInv, CallerInv, Alone, Signalling
  <1>2. CASE t \in Fibers
    <2>1. Signalling(t) => Active(t)
      BY <1>2, BusyRuns DEF Signalling
    <2>2. Active(f) /\ Exclusive /\ setting.workers = 1
      BY DEF Active, IInv, Alone
    <2> QED
      BY <1>2, <2>1, <2>2 DEF Exclusive
  <1> QED
    BY <1>1, <1>2 DEF Callers

\* waitUntil fails with a node that was popped: the one who did is done with it.
LEMMA FailedDone ==
    ASSUME IInv, NEW f \in Fibers, status[f] = "running", pc[f] = "failed", node[f] # "queued"
    PROVE  node[f] = "done"
  <1>1. Alone
    BY DEF IInv, FiberInv, Exclusive
  <1>2. \A t \in Callers : ~Signalling(t)
    BY <1>1, AloneNoSignal DEF Signalling
  <1>3. node[f] # "notified"
    BY <1>2 DEF IInv, NotifiedInv, Signalling
  <1>4. node[f] \in {"none", "queued", "notified", "done"} /\ node[f] # "none"
    BY DEF IInv, TypeOK, FiberInv
  <1> QED
    BY <1>3, <1>4

\* Who may signal holds no node that somebody else reaches.
LEMMA SignallerNode ==
    ASSUME IInv, NEW t \in Fibers, pc[t] \in {"out", "holds", "passesOn", "wakes", "signals"}
    PROVE  node[t] \in {"none", "done"}
  BY DEF IInv, FiberInv, Signalling

-----------------------------------------------------------------------------
(* Waiting                                                                 *)

\* A permit that is there is taken.
LEMMA TakeKeeps ==
    ASSUME FiberSyncAssumption, IInv, NEW f \in Fibers, status[f] = "running", pc[f] = "out",
           permits # 0, UNCHANGED <<setting, tasks, calls, waiters, node>>,
           \/ /\ kind = "autoReset" /\ permits' = 0 /\ permits = 1 /\ credit' = credit - 1
              /\ UNCHANGED <<owner, pc>>
           \/ /\ kind = "semaphore" /\ permits' = permits - 1 /\ pc' = [pc EXCEPT ![f] = "holds"]
              /\ UNCHANGED <<owner, credit>>
           \/ /\ kind = "mutex" /\ permits' = 0 /\ permits = 1 /\ owner' = f
              /\ pc' = [pc EXCEPT ![f] = "holds"] /\ UNCHANGED credit
    PROVE  IInv'
  <1>0. TypeOK /\ GrantInv /\ QueueInv /\ f \in Callers /\ Fibers \subseteq Callers
    BY DEF IInv, Callers
  <1>1. /\ setting' = setting /\ status' = status /\ cancelRequested' = cancelRequested
        /\ popped' = popped /\ left' = left /\ queue' = queue /\ waitTail' = waitTail
        /\ node' = node /\ kind' = kind /\ kind \in {"autoReset", "semaphore", "mutex"}
    BY DEF tasks, calls, waiters, kind
  <1>2. \A t \in Callers : pc'[t] = pc[t] \/ (t = f /\ pc'[t] = "holds" /\ kind # "autoReset")
    BY <1>0 DEF TypeOK
  <1>3. \A t \in Callers : Signalling(t)' <=> Signalling(t)
    BY <1>2 DEF Signalling
  <1>4. node[f] = "none"
    BY DEF IInv, FiberInv
  <1>5. permits + Cardinality(Granted) + Cardinality(ToGive) = credit
    BY <1>0, <1>1 DEF GrantInv, PermitsKept
  <1>6. Cardinality(ToGive) \in Nat /\ Granted \in SUBSET Fibers /\ Cardinality(Granted) \in Nat
    BY GivesNat, GrantedCounts DEF Granted
  <1>7. permits \in Nat /\ permits' \in Nat /\ credit' \in Nat
    BY <1>0, <1>5, <1>6 DEF TypeOK
  <1>8. TypeOK'
    <2>1. pc' \in [Callers -> Locations] /\ owner' \in Fibers \cup {Null}
      BY <1>0 DEF TypeOK, Locations
    <2> QED
      BY <1>0, <1>1, <1>7, <2>1 DEF TypeOK
  <1>9. Exclusive'
    BY <1>1 DEF IInv, Exclusive, Alone, Uses, Active
  <1>10. ASSUME NEW g \in Fibers PROVE FiberInv(g)'
    <2>1. FiberInv(g) /\ g \in Callers
      BY <1>0 DEF IInv
    <2>2. CASE g = f
      BY <1>0, <1>1, <1>2, <1>4, <2>1, <2>2 DEF FiberInv, Signalling, Uses
    <2>3. CASE g # f
      BY <1>0, <1>1, <1>2, <2>1, <2>3 DEF FiberInv, Signalling, Uses
    <2> QED BY <2>2, <2>3
  <1>11. ASSUME NEW t \in Callers PROVE CallerInv(t)'
    <2>1. CallerInv(t) /\ (t = f => t \notin Outside)
      BY DEF IInv, FiberSyncAssumption
    <2> QED
      BY <1>0, <1>1, <1>2, <2>1 DEF CallerInv, Signalling, Uses
  <1>12. NotifiedInv'
    <2>1. \A t \in Callers : pc'[t] = "wakes" <=> pc[t] = "wakes"
      BY <1>2
    <2> QED BY <1>1, <2>1 DEF IInv, NotifiedInv
  <1>13. QueueInv'
    <2>1. ~SomeoneSignals /\ ~SomeoneSignals'
      BY <1>1 DEF SomeoneSignals
    <2> QED
      BY <1>0, <1>1, <2>1 DEF QueueInv
  <1>14. GrantInv'
    <2>1. ToGive' = ToGive
      BY <1>1 DEF ToGive
    <2>2. CASE kind = "autoReset"
      <3>1. Granted' = Granted
        BY <1>1, <1>2, <1>0, <2>2 DEF Granted
      <3> QED
        BY <1>1, <1>5, <1>6, <1>7, <2>1, <2>2, <3>1 DEF GrantInv, PermitsKept, HandedOver
    <2>3. CASE kind \in {"semaphore", "mutex"}
      <3>1. Granted' = Granted \cup {f} /\ f \notin Granted
        BY <1>0, <1>1, <1>2, <1>4, <2>3 DEF Granted, TypeOK
      <3>2. Cardinality(Granted') = Cardinality(Granted) + 1
        BY <1>6, <3>1, GrantedCounts
      <3>3. PermitsKept'
        BY <1>1, <1>5, <1>6, <1>7, <2>1, <2>3, <3>2 DEF PermitsKept
      <3>4. kind = "mutex" => owner = Null /\ Granted = {}
        BY <1>0, <1>6 DEF GrantInv, HandedOver, FiberSyncAssumption
      <3>5. HandedOver'
        BY <1>1, <2>3, <3>1, <3>4 DEF HandedOver, FiberSyncAssumption
      <3> QED
        BY <1>0, <1>1, <3>3, <3>5 DEF GrantInv
    <2> QED BY <1>1, <2>2, <2>3
  <1> QED
    BY <1>8, <1>9, <1>10, <1>11, <1>12, <1>13, <1>14 DEF IInv

\* There is none: the node is queued.
LEMMA BlockKeeps ==
    ASSUME FiberSyncAssumption, IInv, NEW f \in Fibers, status[f] = "running", pc[f] = "out",
           Blocks(f), UNCHANGED <<setting, tasks, calls>>
    PROVE  IInv'
  <1>0. TypeOK /\ f \in Callers /\ Fibers \subseteq Callers
    BY DEF IInv, Callers
  <1>1. /\ setting' = setting /\ status' = status /\ cancelRequested' = cancelRequested
        /\ popped' = popped /\ left' = left /\ permits' = permits /\ permits = 0
        /\ owner' = owner /\ credit' = credit /\ kind' = kind
    BY DEF tasks, calls, grants, kind, Blocks
  <1>2. /\ node' = [node EXCEPT ![f] = "queued"] /\ pc' = [pc EXCEPT ![f] = "waits"]
        /\ node[f] = "none"
    BY DEF Blocks, Goes, IInv, FiberInv
  <1>3. /\ queue' \in Seq(Fibers) /\ IsInjective(queue') /\ waitTail' = f
        /\ \A g : Contains(queue', g) <=> Contains(queue, g) \/ g = f
        /\ queue' # <<>> /\ Last(queue') = f
    BY <1>1, <1>2, WaiterQueued DEF Blocks
  <1>4. TypeOK'
    BY <1>0, <1>1, <1>2, <1>3 DEF TypeOK, Locations
  <1>5. Exclusive'
    BY <1>1 DEF IInv, Exclusive, Alone, Uses, Active
  <1>6. /\ node'[f] = "queued" /\ pc'[f] = "waits" /\ \A g \in Fibers \ {f} : node'[g] = node[g]
        /\ \A t \in Callers \ {f} : pc'[t] = pc[t]
    BY <1>0, <1>2 DEF TypeOK
  <1>7. ASSUME NEW g \in Fibers PROVE FiberInv(g)'
    <2>1. FiberInv(g) /\ g \in Callers
      BY <1>0 DEF IInv
    <2>2. CASE g = f
      BY <1>1, <1>6, <2>1, <2>2 DEF FiberInv, Signalling, Uses
    <2>3. CASE g # f
      BY <1>1, <1>6, <2>1, <2>3 DEF FiberInv, Signalling, Uses
    <2> QED BY <2>2, <2>3
  <1>8. ASSUME NEW t \in Callers PROVE CallerInv(t)'
    <2>1. CallerInv(t) /\ (t = f => t \notin Outside)
      BY DEF IInv, FiberSyncAssumption
    <2>2. CASE t = f
      BY <1>1, <1>6, <2>1, <2>2 DEF CallerInv, Signalling, Uses
    <2>3. CASE t # f
      BY <1>1, <1>2, <1>6, <2>1, <2>3 DEF CallerInv, Signalling, Uses
    <2> QED BY <2>2, <2>3
  <1>9. NotifiedInv'
    <2>1. \A t \in Callers : pc'[t] = "wakes" <=> pc[t] = "wakes"
      BY <1>6
    <2> QED BY <1>1, <1>6, <2>1 DEF IInv, NotifiedInv
  <1>10. QueueInv'
    <2>1. \A g \in Fibers : Contains(queue', g) <=> node'[g] = "queued"
      BY <1>3, <1>6 DEF IInv, QueueInv
    <2> QED BY <1>1, <1>3, <2>1 DEF QueueInv
  <1>11. GrantInv'
    <2>1. ToGive' = ToGive
      BY <1>1 DEF ToGive
    <2>2. Granted' = Granted
      BY <1>0, <1>2, <1>6 DEF Granted
    <2> QED
      BY <1>1, <2>1, <2>2 DEF IInv, GrantInv, PermitsKept, HandedOver
  <1> QED
    BY <1>4, <1>5, <1>7, <1>8, <1>9, <1>10, <1>11 DEF IInv

LEMMA UnchangedKeeps == IInv /\ UNCHANGED vars => IInv'
  BY DEF IInv, vars, grants, waiters, tasks, calls, TypeOK, Exclusive, Alone, Uses, kind, Active,
    FiberInv, CallerInv, Signalling, NotifiedInv, QueueInv, SomeoneSignals, GrantInv, PermitsKept,
    HandedOver, Granted, ToGive

LEMMA WaitKeeps ==
    ASSUME FiberSyncAssumption, IInv, NEW f \in Fibers, Wait(f)
    PROVE  IInv'
  <1>1. status[f] = "running" /\ pc[f] = "out" /\ UNCHANGED <<setting, tasks, calls>>
    BY DEF Wait
  <1>2. CASE Blocks(f)
    BY <1>1, <1>2, BlockKeeps
  <1>3. CASE ~Blocks(f)
    <2>1. CASE EventWait(f)
      <3>1. UNCHANGED vars
        BY <1>1, <1>3, <2>1 DEF EventWait, vars
      <3> QED BY <3>1, UnchangedKeeps
    <2>2. CASE AutoResetWait(f)
      BY <1>1, <1>3, <2>2, TakeKeeps DEF AutoResetWait
    <2>3. CASE SemaphoreWait(f)
      BY <1>1, <1>3, <2>3, TakeKeeps DEF SemaphoreWait, Goes
    <2>4. CASE MutexLock(f)
      BY <1>1, <1>3, <2>4, TakeKeeps DEF MutexLock, Goes
    <2> QED BY <2>1, <2>2, <2>3, <2>4 DEF Wait
  <1> QED BY <1>2, <1>3

\* The wait is over: the node on the fiber's stack is gone.
LEMMA WaitReturnsKeeps ==
    ASSUME FiberSyncAssumption, IInv, NEW f \in Fibers, WaitReturns(f)
    PROVE  IInv'
  <1>0. TypeOK /\ GrantInv /\ QueueInv /\ f \in Callers /\ Fibers \subseteq Callers
    BY DEF IInv, Callers
  <1>1. /\ setting' = setting /\ status' = status /\ cancelRequested' = cancelRequested
        /\ popped' = popped /\ left' = left /\ queue' = queue /\ waitTail' = waitTail
        /\ permits' = permits /\ owner' = owner /\ kind' = kind
    BY DEF WaitReturns, tasks, calls, waiters, kind
  <1>2. /\ pc[f] = "woken" /\ node[f] = "done" /\ status[f] = "running"
        /\ pc' = [pc EXCEPT ![f] = IF kind \in {"semaphore", "mutex"} THEN "holds" ELSE "out"]
        /\ credit' = IF kind = "autoReset" THEN credit - 1 ELSE credit
        /\ node' = [node EXCEPT ![f] = "none"]
    BY DEF WaitReturns, Goes, IInv, FiberInv
  <1>3. /\ node'[f] = "none" /\ pc'[f] = IF kind \in {"semaphore", "mutex"} THEN "holds" ELSE "out"
        /\ \A g \in Fibers \ {f} : node'[g] = node[g]
        /\ \A t \in Callers \ {f} : pc'[t] = pc[t]
    BY <1>0, <1>2 DEF TypeOK
  <1>4. kind # "event" => permits + Cardinality(Granted) + Cardinality(ToGive) = credit
    BY <1>0 DEF GrantInv, PermitsKept
  <1>5. Cardinality(ToGive) \in Nat /\ Granted \in SUBSET Fibers /\ Cardinality(Granted) \in Nat
    BY GivesNat, GrantedCounts DEF Granted
  <1>6. f \in Granted
    BY <1>2 DEF Granted
  <1>7. permits \in Nat /\ credit' \in Nat
    <2>1. Cardinality(Granted) # 0
      BY <1>5, <1>6, GrantedCounts
    <2>2. permits \in Nat /\ credit \in Nat
      BY <1>0 DEF TypeOK
    <2> QED
      BY <1>2, <1>4, <1>5, <2>1, <2>2
  <1>8. TypeOK'
    <2>1. pc' \in [Callers -> Locations] /\ node' \in [Fibers -> {"none", "queued", "notified", "done"}]
      BY <1>0, <1>2 DEF TypeOK, Locations
    <2> QED
      BY <1>0, <1>1, <1>7, <2>1 DEF TypeOK
  <1>9. Exclusive'
    BY <1>1 DEF IInv, Exclusive, Alone, Uses, Active
  <1>10. ASSUME NEW g \in Fibers PROVE FiberInv(g)'
    <2>1. FiberInv(g) /\ g \in Callers
      BY <1>0 DEF IInv
    <2>2. CASE g = f
      BY <1>1, <1>2, <1>3, <2>1, <2>2 DEF FiberInv, Signalling, Uses
    <2>3. CASE g # f
      BY <1>1, <1>3, <2>1, <2>3 DEF FiberInv, Signalling, Uses
    <2> QED BY <2>2, <2>3
  <1>11. ASSUME NEW t \in Callers PROVE CallerInv(t)'
    <2>1. CallerInv(t) /\ (t = f => t \notin Outside)
      BY DEF IInv, FiberSyncAssumption
    <2>2. CASE t = f
      BY <1>1, <1>2, <1>3, <2>1, <2>2 DEF CallerInv, Signalling, Uses
    <2>3. CASE t # f
      BY <1>1, <1>2, <1>3, <2>1, <2>3 DEF CallerInv, Signalling, Uses
    <2> QED BY <2>2, <2>3
  <1>12. NotifiedInv'
    <2>1. \A t \in Callers : pc'[t] = "wakes" <=> pc[t] = "wakes"
      BY <1>2, <1>3
    <2> QED BY <1>1, <1>3, <2>1 DEF IInv, NotifiedInv
  <1>13. QueueInv'
    <2>1. SomeoneSignals' <=> SomeoneSignals
      BY <1>1, <1>2, <1>3 DEF SomeoneSignals, Signalling
    <2>2. \A g \in Fibers : node'[g] = "queued" <=> node[g] = "queued"
      BY <1>2, <1>3
    <2> QED
      BY <1>0, <1>1, <2>1, <2>2 DEF QueueInv
  <1>14. GrantInv'
    <2>1. ToGive' = ToGive
      BY <1>1 DEF ToGive
    <2>2. CASE kind \in {"semaphore", "mutex"}
      <3>1. Granted' = Granted
        BY <1>0, <1>2, <1>3, <2>2 DEF Granted
      <3> QED
        BY <1>0, <1>1, <1>2, <2>1, <2>2, <3>1 DEF GrantInv, PermitsKept, HandedOver
    <2>3. CASE kind = "autoReset"
      <3>1. Granted' = Granted \ {f}
        BY <1>0, <1>2, <1>3, <2>3 DEF Granted
      <3>2. Cardinality(Granted') = Cardinality(Granted) - 1
        BY <1>5, <1>6, <3>1, GrantedCounts
      <3> QED
        BY <1>1, <1>2, <1>4, <1>5, <1>7, <2>1, <2>3, <3>2 DEF GrantInv, PermitsKept, HandedOver
    <2>4. CASE kind \notin {"semaphore", "mutex", "autoReset"}
      <3>1. kind = "event"
        BY <2>4 DEF WaitReturns
      <3> QED
        BY <1>1, <3>1 DEF GrantInv, PermitsKept, HandedOver
    <2> QED BY <2>2, <2>3, <2>4
  <1> QED
    BY <1>8, <1>9, <1>10, <1>11, <1>12, <1>13, <1>14 DEF IInv

LEMMA WaitFailsKeeps ==
    ASSUME FiberSyncAssumption, IInv, NEW f \in Fibers, WaitFails(f)
    PROVE  IInv'
  <1>0. TypeOK /\ GrantInv /\ QueueInv /\ f \in Callers /\ Fibers \subseteq Callers
    BY DEF IInv, Callers
  <1>1. /\ setting' = setting /\ status' = status /\ cancelRequested' = cancelRequested
        /\ popped' = popped /\ left' = left
        /\ permits' = permits /\ owner' = owner /\ credit' = credit /\ kind' = kind
    BY DEF WaitFails, tasks, calls, grants, kind
  <1>2. pc[f] = "failed" /\ status[f] = "running"
    BY DEF WaitFails, Goes
  <1>3. node[f] = "queued" \/ node[f] = "done"
    BY <1>2, FailedDone
  \* The node is taken out of the queue, or was done and is given up.
  <1>4. PICK to \in {"out", "passesOn"}, n \in {"none", "done"} :
          /\ pc' = [pc EXCEPT ![f] = to] /\ node' = [node EXCEPT ![f] = n]
          /\ to = "out" => n = "none" /\ (node[f] = "queued" \/ kind = "event")
          /\ to = "passesOn" => n = "done" /\ node[f] = "done" /\ kind # "event"
    <2>1. CASE node[f] = "queued"
      BY <2>1 DEF WaitFails, Goes
    <2>2. CASE node[f] = "done" /\ kind = "event"
      BY <2>2 DEF WaitFails, Goes
    <2>3. CASE node[f] = "done" /\ kind # "event"
      <3>1. node' = node /\ pc' = [pc EXCEPT ![f] = "passesOn"]
        BY <2>3 DEF WaitFails, Goes
      <3>2. node' = [node EXCEPT ![f] = "done"]
        BY <1>0, <2>3, <3>1 DEF TypeOK
      <3> QED BY <2>3, <3>1, <3>2
    <2> QED BY <1>3, <2>1, <2>2, <2>3
  <1>5. /\ node'[f] = n /\ pc'[f] = to /\ \A g \in Fibers \ {f} : node'[g] = node[g]
        /\ \A t \in Callers \ {f} : pc'[t] = pc[t]
    BY <1>0, <1>4 DEF TypeOK
  <1>6. /\ queue' \in Seq(Fibers) /\ IsInjective(queue')
        /\ \A g \in Fibers : Contains(queue', g) <=> node'[g] = "queued"
        /\ waitTail' \in Fibers \cup {Null}
        /\ IF queue' # <<>> THEN waitTail' = Last(queue') ELSE waitTail' = Null \/ SomeoneSignals
        /\ queue' # <<>> => queue # <<>>
    <2>1. CASE node[f] = "queued"
      <3>1. /\ RemoveWaiter(f)
            /\ queue' \in Seq(Fibers) /\ IsInjective(queue')
            /\ \A g : Contains(queue', g) <=> Contains(queue, g) /\ g # f
            /\ waitTail' = IF queue' # <<>> THEN Last(queue') ELSE Null
            /\ queue # <<>>
        BY <2>1, WaiterRemoved DEF WaitFails
      <3>2. waitTail' \in Fibers \cup {Null}
        BY <3>1, EmptySeq, LenProperties, ElementOfSeq DEF Last
      <3>3. \A g \in Fibers : Contains(queue', g) <=> node'[g] = "queued"
        BY <1>0, <1>4, <1>5, <3>1 DEF QueueInv
      <3> QED BY <3>1, <3>2, <3>3
    <2>2. CASE node[f] = "done"
      <3>1. queue' = queue /\ waitTail' = waitTail
        BY <2>2 DEF WaitFails, waiters
      <3>2. \A g \in Fibers : node'[g] = "queued" <=> node[g] = "queued"
        BY <1>4, <1>5, <2>2
      <3> QED BY <1>0, <3>1, <3>2 DEF QueueInv, TypeOK
    <2> QED BY <1>3, <2>1, <2>2
  <1>7. TypeOK'
    <2>1. pc' \in [Callers -> Locations] /\ node' \in [Fibers -> {"none", "queued", "notified", "done"}]
      BY <1>0, <1>4 DEF TypeOK, Locations
    <2> QED
      BY <1>0, <1>1, <1>6, <2>1 DEF TypeOK
  <1>8. Exclusive'
    BY <1>1 DEF IInv, Exclusive, Alone, Uses, Active
  <1>9. ASSUME NEW g \in Fibers PROVE FiberInv(g)'
    <2>1. FiberInv(g) /\ g \in Callers
      BY <1>0 DEF IInv
    <2>2. CASE g = f
      BY <1>1, <1>2, <1>4, <1>5, <2>1, <2>2 DEF FiberInv, Signalling, Uses
    <2>3. CASE g # f
      BY <1>1, <1>5, <2>1, <2>3 DEF FiberInv, Signalling, Uses
    <2> QED BY <2>2, <2>3
  <1>10. ASSUME NEW t \in Callers PROVE CallerInv(t)'
    <2>1. CallerInv(t) /\ (t = f => t \notin Outside)
      BY DEF IInv, FiberSyncAssumption
    <2>2. CASE t = f
      BY <1>1, <1>2, <1>4, <1>5, <2>1, <2>2 DEF CallerInv, Signalling, Uses
    <2>3. CASE t # f
      <3>1. pc[t] = "wakes" => popped[t] \in Fibers \ {f} /\ node[popped[t]] = "notified"
        BY <1>3, <2>1 DEF CallerInv
      <3> QED
        BY <1>1, <1>5, <2>1, <2>3, <3>1 DEF CallerInv, Signalling, Uses
    <2> QED BY <2>2, <2>3
  <1>11. NotifiedInv'
    <2>1. \A t \in Callers : pc'[t] = "wakes" <=> pc[t] = "wakes"
      BY <1>2, <1>4, <1>5
    <2> QED BY <1>1, <1>5, <2>1 DEF IInv, NotifiedInv
  <1>12. QueueInv'
    <2>1. SomeoneSignals' <=> SomeoneSignals
      BY <1>1, <1>2, <1>4, <1>5 DEF SomeoneSignals, Signalling
    <2> QED
      BY <1>0, <1>1, <1>6, <2>1 DEF QueueInv
  <1>13. GrantInv'
    <2>1. ToGive' = ToGive
      BY <1>1 DEF ToGive
    <2>2. kind # "event" => Granted' = Granted
      BY <1>0, <1>2, <1>3, <1>4, <1>5 DEF Granted
    <2> QED
      BY <1>0, <1>1, <2>1, <2>2 DEF GrantInv, PermitsKept, HandedOver
  <1> QED
    BY <1>7, <1>8, <1>9, <1>10, <1>11, <1>12, <1>13 DEF IInv

\* An event is reset only where nobody else is in the middle of a signal.
LEMMA ResetKeeps ==
    ASSUME FiberSyncAssumption, IInv, NEW f \in Fibers, Reset(f)
    PROVE  IInv'
  <1>0. TypeOK /\ GrantInv /\ QueueInv
    BY DEF IInv
  <1>1. /\ setting' = setting /\ status' = status /\ cancelRequested' = cancelRequested
        /\ popped' = popped /\ left' = left /\ queue' = queue /\ waitTail' = waitTail
        /\ node' = node /\ pc' = pc /\ owner' = owner /\ kind' = kind /\ permits' = 0
        /\ kind \in {"event", "autoReset"}
        /\ credit' = IF kind = "event" THEN 0 ELSE credit - permits
    BY DEF Reset, tasks, calls, waiters, kind
  <1>2. ASSUME kind = "event", NEW t \in Callers PROVE ~Signalling(t)
    <2>1. Alone /\ status[f] = "running" /\ ~Signalling(f)
      BY <1>2 DEF Reset, IInv, Exclusive, Signalling
    <2> QED BY <2>1, AloneNoSignal
  <1>3. Cardinality(ToGive) \in Nat /\ Cardinality(Granted) \in Nat
    BY GivesNat, GrantedCounts DEF Granted
  <1>4. /\ permits \in Nat /\ credit' \in Nat
        /\ kind # "event" => permits + Cardinality(Granted) + Cardinality(ToGive) = credit
    BY <1>0, <1>1, <1>3 DEF TypeOK, GrantInv, PermitsKept
  <1>5. TypeOK' /\ Exclusive'
    BY <1>0, <1>1, <1>4 DEF TypeOK, IInv, Exclusive, Alone, Uses, Active
  <1>6. ASSUME NEW g \in Fibers PROVE FiberInv(g)'
    BY <1>1 DEF IInv, FiberInv, Signalling, Uses
  <1>7. ASSUME NEW t \in Callers PROVE CallerInv(t)'
    BY <1>1, <1>2 DEF IInv, CallerInv, Signalling, Uses
  <1>8. NotifiedInv' /\ QueueInv'
    BY <1>0, <1>1 DEF IInv, NotifiedInv, QueueInv, SomeoneSignals, Signalling
  <1>9. GrantInv'
    <2>1. ToGive' = ToGive /\ Granted' = Granted
      BY <1>1 DEF ToGive, Granted
    <2> QED
      BY <1>1, <1>3, <1>4, <2>1 DEF GrantInv, PermitsKept, HandedOver
  <1> QED
    BY <1>5, <1>6, <1>7, <1>8, <1>9 DEF IInv

-----------------------------------------------------------------------------
(* Signalling                                                              *)

Free(t) ==
    /\ pc[t] \in {"out", "holds", "passesOn", "signals"}
    /\ t \in Fibers => status[t] = "running"
    /\ t \in Outside => Uses("outside") /\ kind # "mutex"

\* One node is taken off the queue and its fiber not yet told: one permit moves to it.
LEMMA NotifyGrants ==
    ASSUME FiberSyncAssumption, IInv, NEW t \in Callers, Free(t), queue # <<>>, Notify(t)
    PROVE  /\ Granted' = (Granted \ {t}) \cup {Head(queue)}
           /\ Cardinality(Granted') =
                Cardinality(Granted) + (IF pc[t] \in {"holds", "passesOn"} THEN 0 ELSE 1)
           /\ t \in Granted <=> pc[t] \in {"holds", "passesOn"}
           /\ Cardinality(Granted) \in Nat
  <1> DEFINE h == Head(queue)
  <1>0. TypeOK /\ Fibers \subseteq Callers
    BY DEF IInv, Callers
  <1>1. h \in Fibers /\ node[h] = "queued"
    BY WaiterPopped
  <1>2. pc[h] \notin {"holds", "out", "wakes", "signals"} /\ h # t
    BY <1>0, <1>1 DEF IInv, FiberInv, Signalling, Free
  <1>3. t \in Fibers => node[t] \in {"none", "done"}
    BY SignallerNode DEF Free
  <1>4. t \in Granted <=> pc[t] \in {"holds", "passesOn"}
    <2>1. ASSUME t \in Outside PROVE t \notin Fibers /\ pc[t] \notin {"holds", "passesOn"}
      BY <2>1 DEF IInv, CallerInv, Signalling, FiberSyncAssumption
    <2>2. t \in Fibers => FiberInv(t)
      BY DEF IInv
    <2> QED
      BY <1>3, <2>1, <2>2 DEF Granted, Free, FiberInv, Signalling, Callers
  <1> HIDE DEF h
  <1>5. /\ node' = [node EXCEPT ![h] = "notified"] /\ pc' = [pc EXCEPT ![t] = "wakes"]
    BY DEF Notify, h
  <1>6. Granted' = (Granted \ {t}) \cup {h} /\ h \notin Granted
    <2>1. node'[h] = "notified" /\ \A g \in Fibers \ {h} : node'[g] = node[g]
      BY <1>0, <1>1, <1>5 DEF TypeOK
    <2>2. pc'[t] = "wakes" /\ \A u \in Callers \ {t} : pc'[u] = pc[u]
      BY <1>0, <1>5 DEF TypeOK
    <2>3. ASSUME NEW g \in Fibers PROVE g \in Granted' <=> g \in (Granted \ {t}) \cup {h}
      BY <1>0, <1>1, <1>2, <2>1, <2>2 DEF Granted
    <2> QED
      BY <1>1, <1>2, <2>3 DEF Granted
  <1>7. Granted \in SUBSET Fibers /\ Granted \ {t} \in SUBSET Fibers /\ h \notin Granted \ {t}
    BY <1>6 DEF Granted
  <1>8. Cardinality(Granted) \in Nat /\ Cardinality(Granted \ {t}) \in Nat
    BY <1>7, GrantedCounts
  <1>9. Cardinality(Granted') = Cardinality(Granted \ {t}) + 1
    BY <1>6, <1>7, GrantedCounts
  <1>10. Cardinality(Granted \ {t}) = IF t \in Granted THEN Cardinality(Granted) - 1 ELSE Cardinality(Granted)
    <2>1. CASE t \in Granted
      BY <1>7, <2>1, GrantedCounts
    <2>2. CASE t \notin Granted
      <3>1. Granted \ {t} = Granted
        BY <2>2
      <3> QED BY <2>2, <3>1
    <2> QED BY <2>1, <2>2
  <1>11. Cardinality(Granted') =
           Cardinality(Granted) + (IF pc[t] \in {"holds", "passesOn"} THEN 0 ELSE 1)
    BY <1>4, <1>8, <1>9, <1>10
  <1> QED
    BY <1>4, <1>6, <1>8, <1>11 DEF h

LEMMA NotifyKeeps ==
    ASSUME FiberSyncAssumption, IInv, NEW t \in Callers, Free(t), queue # <<>>, Notify(t),
           queue' = Tail(queue), UNCHANGED <<setting, tasks>>,
           permits' \in Nat, credit' \in Nat, owner' \in Fibers \cup {Null},
           IF kind = "event" THEN permits' # 0 /\ waitTail' = waitTail
           ELSE permits' = permits /\ waitTail' = IF Len(queue) = 1 THEN Null ELSE waitTail,
           NEW m \in 0 .. MaxCredit, left' = [left EXCEPT ![t] = m],
           m # 0 => kind = "semaphore", pc[t] = "signals" => kind \in {"event", "semaphore"},
           GrantInv'
    PROVE  IInv'
  <1> DEFINE h == Head(queue)
  <1>0. TypeOK /\ Fibers \subseteq Callers
    BY DEF IInv, Callers
  <1>1. /\ setting' = setting /\ status' = status /\ cancelRequested' = cancelRequested
        /\ kind' = kind
    BY DEF tasks, kind
  <1>2. /\ queue' \in Seq(Fibers) /\ IsInjective(queue')
        /\ h \in Fibers /\ node[h] = "queued"
        /\ \A g : Contains(queue', g) <=> Contains(queue, g) /\ g # h
        /\ Len(queue) = 1 <=> queue' = <<>>
        /\ queue' # <<>> => waitTail = Last(queue')
    BY WaiterPopped
  <1> HIDE DEF h
  <1>3. /\ node' = [node EXCEPT ![h] = "notified"] /\ pc' = [pc EXCEPT ![t] = "wakes"]
        /\ popped' = [popped EXCEPT ![t] = h]
    BY DEF Notify, h
  <1>4. /\ node'[h] = "notified" /\ \A g \in Fibers \ {h} : node'[g] = node[g]
        /\ pc'[t] = "wakes" /\ popped'[t] = h /\ left'[t] = m
        /\ \A u \in Callers \ {t} : pc'[u] = pc[u] /\ popped'[u] = popped[u] /\ left'[u] = left[u]
    BY <1>0, <1>2, <1>3 DEF TypeOK
  <1>5. t \in Fibers => node[t] \in {"none", "done"}
    BY SignallerNode DEF Free
  <1>6. h # t /\ pc[t] # "wakes" /\ h \in Callers
    BY <1>0, <1>2, <1>5 DEF Free
  <1>7. TypeOK'
    <2>1. waitTail' \in Fibers \cup {Null}
      BY <1>0 DEF TypeOK
    <2>2. /\ pc' \in [Callers -> Locations] /\ node' \in [Fibers -> {"none", "queued", "notified", "done"}]
          /\ popped' \in [Callers -> Fibers \cup {Null}] /\ left' \in [Callers -> 0 .. MaxCredit]
      BY <1>0, <1>2, <1>3 DEF TypeOK, Locations
    <2> QED
      BY <1>0, <1>1, <1>2, <2>1, <2>2 DEF TypeOK
  <1>8. Exclusive'
    BY <1>1 DEF IInv, Exclusive, Alone, Uses, Active
  <1>9. ASSUME NEW g \in Fibers PROVE FiberInv(g)'
    <2>1. FiberInv(g) /\ g \in Callers
      BY <1>0 DEF IInv
    <2>2. CASE g = t
      <3>1. node'[t] = node[t] /\ node[t] \in {"none", "done"} /\ status[t] = "running"
        BY <1>4, <1>5, <1>6, <2>2 DEF Free
      <3> QED
        BY <1>1, <1>4, <2>1, <2>2, <3>1 DEF FiberInv, Signalling, Uses
    <2>3. CASE g = h
      BY <1>1, <1>2, <1>4, <1>6, <2>1, <2>3 DEF FiberInv, Signalling, Uses
    <2>4. CASE g # t /\ g # h
      BY <1>1, <1>4, <2>1, <2>4 DEF FiberInv, Signalling, Uses
    <2> QED BY <2>2, <2>3, <2>4
  <1>10. ASSUME NEW u \in Callers PROVE CallerInv(u)'
    <2>1. CallerInv(u)
      BY DEF IInv
    <2>2. CASE u = t
      BY <1>1, <1>2, <1>4, <2>2 DEF CallerInv, Signalling, Uses, Free
    <2>3. CASE u # t
      BY <1>1, <1>2, <1>4, <2>1, <2>3 DEF CallerInv, Signalling, Uses
    <2> QED BY <2>2, <2>3
  <1>11. NotifiedInv'
    <2>1. NotifiedInv /\ \A u \in Callers : pc[u] = "wakes" => popped[u] # h
      BY <1>2 DEF IInv, CallerInv
    <2>2. ASSUME NEW g \in Fibers, node'[g] = "notified"
          PROVE  \E u \in Callers : pc'[u] = "wakes" /\ popped'[u] = g
      <3>1. CASE g = h
        BY <1>4, <3>1
      <3>2. CASE g # h
        <4>1. PICK u \in Callers : pc[u] = "wakes" /\ popped[u] = g
          BY <1>4, <2>1, <2>2, <3>2 DEF NotifiedInv
        <4> QED
          BY <1>4, <1>6, <4>1
      <3> QED BY <3>1, <3>2
    <2>3. ASSUME NEW u \in Callers, NEW v \in Callers, pc'[u] = "wakes", pc'[v] = "wakes",
                 popped'[u] = popped'[v]
          PROVE  u = v
      BY <1>4, <2>1, <2>3 DEF NotifiedInv
    <2> QED BY <2>2, <2>3 DEF NotifiedInv
  <1>12. QueueInv'
    <2>1. QueueInv
      BY DEF IInv
    <2>2. kind = "event" => SomeoneSignals'
      BY <1>1, <1>4 DEF SomeoneSignals, Signalling
    <2>3. \A g \in Fibers : Contains(queue', g) <=> node'[g] = "queued"
      BY <1>2, <1>4, <2>1 DEF QueueInv
    <2>4. kind # "event" => permits = 0
      BY <2>1 DEF QueueInv, SomeoneSignals
    <2> QED
      BY <1>2, <2>2, <2>3, <2>4 DEF QueueInv
  <1> QED
    BY <1>7, <1>8, <1>9, <1>10, <1>11, <1>12 DEF IInv

\* Nobody is left to notify: the caller is out, and holds nothing any more.
LEMMA ReturnsGrants ==
    ASSUME FiberSyncAssumption, IInv, NEW t \in Callers, Free(t), Returns(t)
    PROVE  /\ Granted' = Granted \ {t}
           /\ Cardinality(Granted') =
                Cardinality(Granted) - (IF pc[t] \in {"holds", "passesOn"} THEN 1 ELSE 0)
           /\ t \in Granted <=> pc[t] \in {"holds", "passesOn"}
           /\ Cardinality(Granted) \in Nat
  <1>0. TypeOK /\ Fibers \subseteq Callers
    BY DEF IInv, Callers
  <1>1. t \in Fibers => node[t] \in {"none", "done"}
    BY SignallerNode DEF Free
  <1>2. t \in Granted <=> pc[t] \in {"holds", "passesOn"}
    <2>1. ASSUME t \in Outside PROVE t \notin Fibers /\ pc[t] \notin {"holds", "passesOn"}
      BY <2>1 DEF IInv, CallerInv, Signalling, FiberSyncAssumption
    <2>2. t \in Fibers => FiberInv(t)
      BY DEF IInv
    <2> QED
      BY <1>1, <2>1, <2>2 DEF Granted, Free, FiberInv, Signalling, Callers
  <1>3. Granted' = Granted \ {t}
    <2>1. /\ t \in Fibers => node'[t] = "none" /\ \A g \in Fibers \ {t} : node'[g] = node[g]
          /\ t \notin Fibers => node' = node
      BY <1>0 DEF TypeOK, Returns
    <2>2. pc'[t] = "out" /\ \A u \in Callers \ {t} : pc'[u] = pc[u]
      BY <1>0 DEF TypeOK, Returns
    <2>3. ASSUME NEW g \in Fibers PROVE g \in Granted' <=> g \in Granted \ {t}
      BY <1>0, <2>1, <2>2 DEF Granted
    <2> QED
      BY <2>3 DEF Granted
  <1>4. Granted \in SUBSET Fibers
    BY DEF Granted
  <1>5. Cardinality(Granted) \in Nat
    BY <1>4, GrantedCounts
  <1>6. Cardinality(Granted') = Cardinality(Granted) - (IF pc[t] \in {"holds", "passesOn"} THEN 1 ELSE 0)
    <2>1. CASE t \in Granted
      <3>1. Cardinality(Granted \ {t}) = Cardinality(Granted) - 1
        BY <1>4, <2>1, GrantedCounts
      <3> QED BY <1>2, <1>3, <2>1, <3>1
    <2>2. CASE t \notin Granted
      <3>1. Granted \ {t} = Granted
        BY <2>2
      <3> QED BY <1>2, <1>3, <1>5, <2>2, <3>1
    <2> QED BY <2>1, <2>2
  <1> QED
    BY <1>2, <1>3, <1>5, <1>6

LEMMA ReturnsKeeps ==
    ASSUME FiberSyncAssumption, IInv, NEW t \in Callers, Free(t), Returns(t),
           UNCHANGED <<setting, tasks, queue, popped>>,
           permits' \in Nat, credit' \in Nat, owner' \in Fibers \cup {Null},
           queue # <<>> => kind # "event" /\ permits' = 0,
           IF kind = "event" THEN permits' # 0 /\ waitTail' = Null ELSE waitTail' = waitTail,
           GrantInv'
    PROVE  IInv'
  <1>0. TypeOK /\ QueueInv /\ Fibers \subseteq Callers
    BY DEF IInv, Callers
  <1>1. /\ setting' = setting /\ status' = status /\ cancelRequested' = cancelRequested
        /\ kind' = kind /\ queue' = queue /\ popped' = popped
    BY DEF tasks, kind
  <1>2. /\ t \in Fibers => node'[t] = "none" /\ \A g \in Fibers \ {t} : node'[g] = node[g]
        /\ t \notin Fibers => node' = node
        /\ pc'[t] = "out" /\ left'[t] = 0
        /\ \A u \in Callers \ {t} : pc'[u] = pc[u] /\ left'[u] = left[u]
    BY <1>0 DEF TypeOK, Returns
  <1>3. t \in Fibers => node[t] \in {"none", "done"}
    BY SignallerNode DEF Free
  <1>4. pc[t] # "wakes"
    BY DEF Free
  <1>5. TypeOK'
    <2>1. waitTail' \in Fibers \cup {Null}
      BY <1>0 DEF TypeOK
    <2>2. /\ pc' \in [Callers -> Locations] /\ left' \in [Callers -> 0 .. MaxCredit]
          /\ node' \in [Fibers -> {"none", "queued", "notified", "done"}]
      BY <1>0 DEF TypeOK, Returns, Locations, FiberSyncAssumption
    <2> QED
      BY <1>0, <1>1, <2>1, <2>2 DEF TypeOK
  <1>6. Exclusive'
    BY <1>1 DEF IInv, Exclusive, Alone, Uses, Active
  <1>7. ASSUME NEW g \in Fibers PROVE FiberInv(g)'
    <2>1. FiberInv(g) /\ g \in Callers
      BY <1>0 DEF IInv
    <2>2. CASE g = t
      BY <1>1, <1>2, <2>1, <2>2 DEF FiberInv, Signalling, Uses, Free
    <2>3. CASE g # t
      BY <1>1, <1>2, <2>1, <2>3 DEF FiberInv, Signalling, Uses
    <2> QED BY <2>2, <2>3
  <1>8. ASSUME NEW u \in Callers PROVE CallerInv(u)'
    <2>1. CallerInv(u)
      BY DEF IInv
    <2>2. CASE u = t
      BY <1>2, <2>2 DEF CallerInv, Signalling
    <2>3. CASE u # t
      <3>1. pc[u] = "wakes" => popped[u] \in Fibers /\ node'[popped[u]] = "notified"
        BY <1>2, <1>3, <2>1 DEF CallerInv
      <3> QED
        BY <1>1, <1>2, <2>1, <2>3, <3>1 DEF CallerInv, Signalling, Uses
    <2> QED BY <2>2, <2>3
  <1>9. NotifiedInv'
    <2>1. \A u \in Callers : pc'[u] = "wakes" <=> pc[u] = "wakes"
      BY <1>2, <1>4
    <2>2. \A g \in Fibers : node'[g] = "notified" => node[g] = "notified"
      BY <1>2
    <2> QED BY <1>1, <2>1, <2>2 DEF IInv, NotifiedInv
  <1>10. QueueInv'
    <2>1. \A g \in Fibers : node'[g] = "queued" <=> node[g] = "queued"
      BY <1>2, <1>3
    <2>2. kind # "event" => ~SomeoneSignals
      BY DEF SomeoneSignals
    <2> QED
      BY <1>0, <1>1, <2>1, <2>2 DEF QueueInv
  <1> QED
    BY <1>5, <1>6, <1>7, <1>8, <1>9, <1>10 DEF IInv

LEMMA EventSignalKeeps ==
    ASSUME FiberSyncAssumption, IInv, NEW t \in Callers, Signal(t), EventSignal(t)
    PROVE  IInv'
  <1>0. TypeOK /\ CallerInv(t) /\ kind = "event" /\ kind' = kind
    BY DEF IInv, EventSignal, Signal, kind
  <1>1. /\ Free(t) /\ UNCHANGED <<setting, tasks>> /\ owner' = owner
        /\ permits' \in Nat /\ credit' \in Nat /\ permits' # 0
    <2>1. pc[t] = "signals" => permits # 0
      BY <1>0 DEF CallerInv, Signalling
    <2> QED
      BY <1>0, <2>1 DEF EventSignal, Signal, Free, TypeOK
  <1>2. GrantInv'
    BY <1>0 DEF GrantInv, PermitsKept, HandedOver
  <1>3. CASE queue = <<>>
    BY <1>0, <1>1, <1>2, <1>3, ReturnsKeeps DEF EventSignal, EventNotifies, TypeOK
  <1>4. CASE queue # <<>>
    <2>1. left[t] = 0 /\ left' = left
      BY <1>0, <1>4 DEF CallerInv, EventSignal, EventNotifies
    <2>2. left' = [left EXCEPT ![t] = 0] /\ 0 \in 0 .. MaxCredit
      BY <1>0, <2>1 DEF TypeOK, FiberSyncAssumption
    <2>3. Notify(t) /\ queue' = Tail(queue) /\ waitTail' = waitTail
      BY <1>4 DEF EventSignal, EventNotifies
    <2> QED
      BY <1>0, <1>1, <1>2, <1>4, <2>2, <2>3, NotifyKeeps DEF TypeOK
  <1> QED
    BY <1>3, <1>4

LEMMA AutoResetSignalKeeps ==
    ASSUME FiberSyncAssumption, IInv, NEW t \in Callers, Signal(t), AutoResetSignal(t)
    PROVE  IInv'
  <1>0. TypeOK /\ QueueInv /\ CallerInv(t) /\ kind = "autoReset" /\ kind' = kind
    BY DEF IInv, AutoResetSignal, Signal, kind
  <1>1. Free(t) /\ UNCHANGED <<setting, tasks>> /\ owner' = owner /\ pc[t] \in {"out", "passesOn"}
    BY <1>0 DEF AutoResetSignal, Signal, Free
  <1>2. permits + Cardinality(Granted) + Cardinality(ToGive) = credit
    BY <1>0 DEF IInv, GrantInv, PermitsKept
  <1>3. /\ Cardinality(ToGive) \in Nat /\ Cardinality(ToGive') = Cardinality(ToGive)
        /\ left' = [left EXCEPT ![t] = 0] /\ 0 \in 0 .. MaxCredit
    <2>1. left[t] = 0
      BY <1>0 DEF CallerInv
    <2>2. left' = [left EXCEPT ![t] = 0]
      BY <1>0, <2>1 DEF TypeOK, AutoResetSignal, Returns
    <2>3. 0 \in 0 .. MaxCredit
      BY DEF FiberSyncAssumption
    <2>4. Cardinality(ToGive) \in Nat /\ Cardinality(ToGive') = Cardinality(ToGive) - 0 + 0
      BY <1>0, <2>1, <2>2, <2>3, GivesCount
    <2> QED BY <2>2, <2>3, <2>4
  <1>4. permits \in Nat /\ credit \in Nat
    BY <1>0 DEF TypeOK
  <1>5. CASE queue = <<>>
    <2>1. /\ Returns(t) /\ permits' = 1 /\ UNCHANGED <<queue, waitTail, popped>>
          /\ credit' = credit + (IF pc[t] = "out" THEN 1 ELSE 0) - permits
      BY <1>5 DEF AutoResetSignal, PopWaiter, waiters
    <2>2. /\ Cardinality(Granted') = Cardinality(Granted) - (IF pc[t] = "out" THEN 0 ELSE 1)
          /\ Cardinality(Granted) \in Nat
      BY <1>1, <2>1, ReturnsGrants
    <2>3. permits' + Cardinality(Granted') + Cardinality(ToGive') = credit'
      BY <1>2, <1>3, <1>4, <2>1, <2>2
    <2>4. Cardinality(Granted') \in Nat
      <3>1. Granted' \in SUBSET Fibers
        BY DEF Granted
      <3> QED BY <3>1, GrantedCounts
    <2>5. GrantInv'
      BY <1>0, <2>3 DEF GrantInv, PermitsKept, HandedOver
    <2>6. credit' \in Nat
      BY <1>3, <2>1, <2>3, <2>4
    <2> QED
      BY <1>0, <1>1, <1>5, <2>1, <2>5, <2>6, ReturnsKeeps DEF TypeOK
  <1>6. CASE queue # <<>>
    <2>1. /\ Notify(t) /\ permits' = permits /\ queue' = Tail(queue)
          /\ waitTail' = IF Len(queue) = 1 THEN Null ELSE waitTail
          /\ credit' = credit + (IF pc[t] = "out" THEN 1 ELSE 0)
      <3>1. credit' = credit + (IF pc[t] = "out" THEN 1 ELSE 0) - 0
        BY <1>6 DEF AutoResetSignal
      <3> QED
        BY <1>4, <1>6, <3>1 DEF AutoResetSignal, PopWaiter
    <2>2. /\ Cardinality(Granted') = Cardinality(Granted) + (IF pc[t] = "out" THEN 1 ELSE 0)
          /\ Cardinality(Granted) \in Nat
      BY <1>1, <1>6, <2>1, NotifyGrants
    <2>3. permits' + Cardinality(Granted') + Cardinality(ToGive') = credit' /\ credit' \in Nat
      BY <1>2, <1>3, <1>4, <2>1, <2>2
    <2>4. GrantInv'
      BY <1>0, <2>3 DEF GrantInv, PermitsKept, HandedOver
    <2> QED
      BY <1>0, <1>1, <1>3, <1>4, <1>6, <2>1, <2>3, <2>4, NotifyKeeps DEF TypeOK
  <1> QED
    BY <1>5, <1>6

\* The loop of FiberSemaphore::signal from one of its tests on: what the caller gives is
\* what it brings, what it holds, or what is left of it.
LEMMA GivesKeeps ==
    ASSUME FiberSyncAssumption, IInv, NEW t \in Callers, Free(t), kind = "semaphore",
           UNCHANGED <<setting, tasks, owner>>, NEW n \in 0 .. MaxCredit + 1, SemaphoreGives(t, n),
           credit' \in Nat,
           credit' = credit + n - left[t] - (IF pc[t] \in {"holds", "passesOn"} THEN 1 ELSE 0)
    PROVE  IInv'
  <1>0. TypeOK /\ QueueInv /\ kind' = kind
    BY DEF IInv, kind
  <1>1. permits + Cardinality(Granted) + Cardinality(ToGive) = credit
    BY DEF IInv, GrantInv, PermitsKept
  <1>2. permits \in Nat /\ credit \in Nat /\ left[t] \in Nat /\ n \in Nat /\ MaxCredit \in Nat
    BY <1>0 DEF TypeOK, FiberSyncAssumption
  <1>3. Cardinality(ToGive) \in Nat
    BY GivesNat
  <1>4. CASE n = 0 \/ queue = <<>>
    <2>1. /\ Returns(t) /\ permits' = permits + n /\ UNCHANGED <<queue, waitTail, popped>>
          /\ left' = [left EXCEPT ![t] = 0] /\ 0 \in 0 .. MaxCredit
      BY <1>2, <1>4 DEF SemaphoreGives, PopWaiter, waiters, Returns
    <2>2. /\ Cardinality(Granted') =
                Cardinality(Granted) - (IF pc[t] \in {"holds", "passesOn"} THEN 1 ELSE 0)
          /\ Cardinality(Granted) \in Nat
      BY <2>1, ReturnsGrants
    <2>3. Cardinality(ToGive') = Cardinality(ToGive) - left[t] + 0
      BY <1>0, <2>1, GivesCount
    <2>4. permits' + Cardinality(Granted') + Cardinality(ToGive') = credit'
      <3> DEFINE granted == Cardinality(Granted)
                 given == Cardinality(Granted')
                 rest == Cardinality(ToGive)
                 had == left[t]
                 one == IF pc[t] \in {"holds", "passesOn"} THEN 1 ELSE 0
      <3>1. /\ permits + granted + rest = credit /\ permits' = permits + n
            /\ given = granted - one /\ Cardinality(ToGive') = rest - had + 0
            /\ credit' = credit + n - had - one
        BY <1>1, <1>2, <2>1, <2>2, <2>3
      <3>2. /\ permits \in Nat /\ credit \in Nat /\ had \in Nat /\ n \in Nat /\ one \in {0, 1}
            /\ granted \in Nat /\ rest \in Nat
        BY <1>2, <1>3, <2>2
      <3> HIDE DEF granted, given, rest, had, one
      <3>3. permits' + given + Cardinality(ToGive') = credit'
        BY <3>1, <3>2
      <3> QED
        BY <3>3 DEF given
    <2>5. GrantInv'
      BY <1>0, <2>4 DEF GrantInv, PermitsKept, HandedOver
    <2>6. queue # <<>> => permits' = 0
      BY <1>0, <1>2, <1>4, <2>1 DEF QueueInv, SomeoneSignals
    <2> QED
      BY <1>0, <1>2, <2>1, <2>5, <2>6, ReturnsKeeps DEF TypeOK
  <1>5. CASE n # 0 /\ queue # <<>>
    <2>1. /\ Notify(t) /\ permits' = permits /\ queue' = Tail(queue)
          /\ waitTail' = IF Len(queue) = 1 THEN Null ELSE waitTail
          /\ left' = [left EXCEPT ![t] = n - 1] /\ n - 1 \in 0 .. MaxCredit
      BY <1>2, <1>5 DEF SemaphoreGives, PopWaiter
    <2>2. /\ Cardinality(Granted') =
                Cardinality(Granted) + (IF pc[t] \in {"holds", "passesOn"} THEN 0 ELSE 1)
          /\ Cardinality(Granted) \in Nat
      BY <1>5, <2>1, NotifyGrants
    <2>3. Cardinality(ToGive') = Cardinality(ToGive) - left[t] + (n - 1)
      <3> DEFINE m == n - 1
      <3>1. m \in 0 .. MaxCredit /\ left' = [left EXCEPT ![t] = m]
        BY <2>1
      <3> HIDE DEF m
      <3>2. Cardinality(ToGive') = Cardinality(ToGive) - left[t] + m
        BY <1>0, <3>1, GivesCount
      <3> QED
        BY <3>2 DEF m
    <2>4. permits' + Cardinality(Granted') + Cardinality(ToGive') = credit'
      <3> DEFINE granted == Cardinality(Granted)
                 given == Cardinality(Granted')
                 rest == Cardinality(ToGive)
                 had == left[t]
                 one == IF pc[t] \in {"holds", "passesOn"} THEN 1 ELSE 0
      <3>1. /\ permits + granted + rest = credit /\ permits' = permits
            /\ given = granted + (1 - one) /\ Cardinality(ToGive') = rest - had + (n - 1)
            /\ credit' = credit + n - had - one
        BY <1>1, <1>2, <2>1, <2>2, <2>3
      <3>2. /\ permits \in Nat /\ credit \in Nat /\ had \in Nat /\ n \in Nat /\ one \in {0, 1}
            /\ granted \in Nat /\ rest \in Nat
        BY <1>2, <1>3, <2>2
      <3> HIDE DEF granted, given, rest, had, one
      <3>3. permits' + given + Cardinality(ToGive') = credit'
        BY <3>1, <3>2
      <3> QED
        BY <3>3 DEF given
    <2>5. GrantInv'
      BY <1>0, <2>4 DEF GrantInv, PermitsKept, HandedOver
    <2> DEFINE m == n - 1
    <2>6. m \in 0 .. MaxCredit /\ left' = [left EXCEPT ![t] = m]
      BY <2>1
    <2> HIDE DEF m
    <2> QED
      BY <1>0, <1>2, <1>5, <2>1, <2>5, <2>6, NotifyKeeps DEF TypeOK
  <1> QED
    BY <1>4, <1>5

LEMMA SemaphoreSignalKeeps ==
    ASSUME FiberSyncAssumption, IInv, NEW t \in Callers, Signal(t), SemaphoreSignal(t)
    PROVE  IInv'
  <1>0. TypeOK /\ CallerInv(t) /\ kind = "semaphore"
    BY DEF IInv, SemaphoreSignal
  <1>1. Free(t) /\ UNCHANGED <<setting, tasks, owner>>
    BY <1>0 DEF SemaphoreSignal, Signal, Free
  <1>2. credit \in Nat /\ MaxCredit \in Nat /\ left[t] \in 0 .. MaxCredit
    BY <1>0 DEF TypeOK, FiberSyncAssumption
  <1>3. pc[t] # "signals" => left[t] = 0
    BY <1>0, <1>1 DEF CallerInv, Signalling, Free
  <1>4. ASSUME pc[t] = "out", NEW n \in 1 .. MaxCredit - credit, credit' = credit + n, SemaphoreGives(t, n)
        PROVE  IInv'
    <2>1. n \in 0 .. MaxCredit + 1 /\ credit' \in Nat
      BY <1>2, <1>4
    <2>2. credit' = credit + n - left[t] - (IF pc[t] \in {"holds", "passesOn"} THEN 1 ELSE 0)
      BY <1>2, <1>3, <1>4
    <2> QED
      BY <1>0, <1>1, <1>4, <2>1, <2>2, GivesKeeps
  <1>5. ASSUME pc[t] \in {"holds", "passesOn"}, credit' = credit, SemaphoreGives(t, 1)
        PROVE  IInv'
    <2>1. 1 \in 0 .. MaxCredit + 1
      BY <1>2
    <2>2. credit' = credit + 1 - left[t] - (IF pc[t] \in {"holds", "passesOn"} THEN 1 ELSE 0)
      BY <1>2, <1>3, <1>5
    <2> QED
      BY <1>0, <1>1, <1>2, <1>5, <2>1, <2>2, GivesKeeps
  <1>6. ASSUME pc[t] = "signals", credit' = credit, SemaphoreGives(t, left[t])
        PROVE  IInv'
    <2>1. left[t] \in 0 .. MaxCredit + 1
      BY <1>2
    <2>2. credit' = credit + left[t] - left[t] - (IF pc[t] \in {"holds", "passesOn"} THEN 1 ELSE 0)
      BY <1>2, <1>6
    <2> QED
      BY <1>0, <1>1, <1>2, <1>6, <2>1, <2>2, GivesKeeps
  <1> QED
    BY <1>4, <1>5, <1>6 DEF SemaphoreSignal

\* The mutex goes to the first in the queue, or is free.
LEMMA MutexUnlockKeeps ==
    ASSUME FiberSyncAssumption, IInv, NEW t \in Callers, Signal(t), MutexUnlock(t)
    PROVE  IInv'
  <1>0. TypeOK /\ QueueInv /\ CallerInv(t) /\ GrantInv /\ kind = "mutex" /\ kind' = kind
    BY DEF IInv, MutexUnlock, Signal, kind
  <1>1. Free(t) /\ UNCHANGED <<setting, tasks>> /\ credit' = credit /\ pc[t] \in {"holds", "passesOn"}
    BY <1>0 DEF MutexUnlock, Signal, Free
  <1>2. /\ permits + Cardinality(Granted) + Cardinality(ToGive) = credit /\ credit = 1
        /\ permits \in Nat
    BY <1>0 DEF GrantInv, PermitsKept, TypeOK
  <1>3. /\ Cardinality(ToGive) \in Nat /\ Cardinality(ToGive') = Cardinality(ToGive)
        /\ left' = [left EXCEPT ![t] = 0] /\ 0 \in 0 .. MaxCredit
    <2>1. left[t] = 0
      BY <1>0 DEF CallerInv
    <2>2. left' = [left EXCEPT ![t] = 0]
      BY <1>0, <2>1 DEF TypeOK, MutexUnlock, Returns
    <2>3. 0 \in 0 .. MaxCredit
      BY DEF FiberSyncAssumption
    <2>4. Cardinality(ToGive) \in Nat /\ Cardinality(ToGive') = Cardinality(ToGive) - 0 + 0
      BY <1>0, <2>1, <2>2, <2>3, GivesCount
    <2> QED BY <2>2, <2>3, <2>4
  <1>4. CASE queue = <<>>
    <2>1. /\ Returns(t) /\ permits' = 1 /\ owner' = Null /\ UNCHANGED <<queue, waitTail, popped>>
      BY <1>4 DEF MutexUnlock, PopWaiter, waiters
    <2>2. /\ Granted' = Granted \ {t} /\ t \in Granted
          /\ Cardinality(Granted') = Cardinality(Granted) - 1
          /\ Cardinality(Granted) \in Nat
      BY <1>1, <2>1, ReturnsGrants
    <2>3. Granted = {t}
      BY <1>0, <2>2 DEF GrantInv, HandedOver
    <2>4. Granted' = {} /\ Cardinality(Granted') = 0
      BY <2>2, <2>3, FS_EmptySet
    <2>5. permits = 0 /\ Cardinality(ToGive) = 0
      BY <1>2, <1>3, <2>2, <2>4
    <2>6. GrantInv'
      BY <1>0, <1>1, <1>2, <1>3, <2>1, <2>4, <2>5 DEF GrantInv, PermitsKept, HandedOver
    <2> QED
      BY <1>0, <1>1, <1>4, <2>1, <2>6, ReturnsKeeps DEF TypeOK
  <1>5. CASE queue # <<>>
    <2>1. /\ Notify(t) /\ permits' = permits /\ queue' = Tail(queue) /\ owner' = Head(queue)
          /\ waitTail' = IF Len(queue) = 1 THEN Null ELSE waitTail
      BY <1>5 DEF MutexUnlock, PopWaiter
    <2>2. /\ Granted' = (Granted \ {t}) \cup {Head(queue)} /\ t \in Granted
          /\ Cardinality(Granted') = Cardinality(Granted) + 0
          /\ Cardinality(Granted) \in Nat
      BY <1>1, <1>5, <2>1, NotifyGrants
    <2>3. Head(queue) \in Fibers
      BY <1>5, WaiterPopped
    <2>4. Granted' = {Head(queue)} /\ permits = 0
      BY <1>0, <1>5, <2>2 DEF GrantInv, HandedOver, QueueInv, SomeoneSignals
    <2>5. HandedOver'
      BY <1>0, <2>1, <2>3, <2>4 DEF HandedOver, FiberSyncAssumption
    <2>6. permits' + Cardinality(Granted') + Cardinality(ToGive') = credit'
      BY <1>1, <1>2, <1>3, <2>1, <2>2
    <2>7. GrantInv'
      BY <1>0, <1>1, <1>2, <2>5, <2>6 DEF GrantInv, PermitsKept
    <2>8. permits' \in Nat /\ credit' \in Nat /\ owner' \in Fibers \cup {Null}
      BY <1>0, <1>1, <2>1, <2>3 DEF TypeOK
    <2> QED
      BY <1>0, <1>1, <1>3, <1>5, <2>1, <2>7, <2>8, NotifyKeeps
  <1> QED
    BY <1>4, <1>5

\* done() of the counter: the fiber is ready, or will not go to sleep.
LEMMA DoneKeeps ==
    ASSUME FiberSyncAssumption, IInv, NEW t \in Callers, Done(t)
    PROVE  IInv'
  <1> DEFINE f == popped[t]
             to == IF kind \in {"event", "semaphore"} THEN "signals" ELSE "out"
  <1>0. TypeOK /\ QueueInv /\ NotifiedInv /\ CallerInv(t) /\ GrantInv /\ Fibers \subseteq Callers
    BY DEF IInv, Callers
  <1>1. /\ setting' = setting /\ cancelRequested' = cancelRequested /\ kind' = kind
        /\ permits' = permits /\ owner' = owner /\ credit' = credit
        /\ queue' = queue /\ waitTail' = waitTail /\ left' = left
    BY DEF Done, grants, waiters, kind
  <1>2. pc[t] = "wakes" /\ f \in Fibers /\ node[f] = "notified"
    BY <1>0 DEF Done, CallerInv
  <1>3. t \in Fibers => node[t] \in {"none", "done"} /\ status[t] = "running"
    BY <1>2, SignallerNode, BusyRuns
  <1>4. f # t /\ f \in Callers
    BY <1>0, <1>2, <1>3
  <1>5. pc[f] \notin {"out", "holds", "wakes", "signals"}
    BY <1>2 DEF IInv, FiberInv, Signalling
  <1> HIDE DEF f
  <1>6. /\ pc' = [pc EXCEPT ![t] = to] /\ popped' = [popped EXCEPT ![t] = Null]
        /\ status' = IF status[f] = "waiting" THEN [status EXCEPT ![f] = "ready"] ELSE status
        /\ node' = IF t \in Fibers /\ to = "out"
                   THEN [[node EXCEPT ![f] = "done"] EXCEPT ![t] = "none"]
                   ELSE [node EXCEPT ![f] = "done"]
    BY DEF Done, Goes, f
  <1>7. /\ pc'[t] = to /\ \A u \in Callers \ {t} : pc'[u] = pc[u] /\ popped'[u] = popped[u]
        /\ node'[f] = "done" /\ \A g \in Fibers \ {f, t} : node'[g] = node[g]
        /\ t \in Fibers => node'[t] = IF to = "out" THEN "none" ELSE node[t]
        /\ status'[f] = IF status[f] = "waiting" THEN "ready" ELSE status[f]
        /\ \A g \in Fibers \ {f} : status'[g] = status[g]
    BY <1>0, <1>2, <1>4, <1>6 DEF TypeOK
  <1>8. TypeOK'
    <2>1. /\ pc' \in [Callers -> Locations] /\ popped' \in [Callers -> Fibers \cup {Null}]
          /\ status' \in [Fibers -> Statuses]
          /\ node' \in [Fibers -> {"none", "queued", "notified", "done"}]
      BY <1>0, <1>6 DEF TypeOK, Locations, Statuses
    <2> QED
      BY <1>0, <1>1, <2>1 DEF TypeOK
  <1>9. Exclusive'
    <2>1. \A g \in Fibers : Active(g)' => Active(g)
      BY <1>7 DEF Active
    <2> QED
      BY <1>1, <2>1 DEF IInv, Exclusive, Alone, Uses
  <1>10. ASSUME NEW g \in Fibers PROVE FiberInv(g)'
    <2>1. FiberInv(g) /\ g \in Callers
      BY <1>0 DEF IInv
    <2>2. CASE g = t
      BY <1>1, <1>2, <1>3, <1>4, <1>7, <2>1, <2>2 DEF FiberInv, Signalling, Uses
    <2>3. CASE g = f
      BY <1>1, <1>2, <1>4, <1>5, <1>7, <2>1, <2>3 DEF FiberInv, Signalling, Uses
    <2>4. CASE g # t /\ g # f
      BY <1>1, <1>7, <2>1, <2>4 DEF FiberInv, Signalling, Uses
    <2> QED BY <2>2, <2>3, <2>4
  <1>11. ASSUME NEW u \in Callers PROVE CallerInv(u)'
    <2>1. CallerInv(u)
      BY DEF IInv
    <2>2. CASE u = t
      BY <1>1, <1>2, <1>7, <2>1, <2>2 DEF CallerInv, Signalling, Uses
    <2>3. CASE u # t
      <3>1. pc[u] = "wakes" =>
              popped[u] \in Fibers \ {f} /\ popped[u] # t /\ node[popped[u]] = "notified"
        BY <1>0, <1>2, <1>3, <2>1, <2>3 DEF CallerInv, NotifiedInv, f
      <3> QED
        BY <1>1, <1>7, <2>1, <2>3, <3>1 DEF CallerInv, Signalling, Uses
    <2> QED BY <2>2, <2>3
  <1>12. NotifiedInv'
    <2>1. ASSUME NEW g \in Fibers, node'[g] = "notified"
          PROVE  \E u \in Callers : pc'[u] = "wakes" /\ popped'[u] = g
      <3>1. g # f /\ node[g] = "notified"
        BY <1>3, <1>7, <2>1
      <3>2. PICK u \in Callers : pc[u] = "wakes" /\ popped[u] = g
        BY <1>0, <3>1 DEF NotifiedInv
      <3>3. u # t
        BY <3>1, <3>2 DEF f
      <3> QED
        BY <1>7, <3>2, <3>3
    <2>2. \A u \in Callers : pc'[u] = "wakes" => u # t
      BY <1>7
    <2> QED
      BY <1>0, <1>7, <2>1, <2>2 DEF NotifiedInv
  <1>13. QueueInv'
    <2>1. \A g \in Fibers : node'[g] = "queued" <=> node[g] = "queued"
      BY <1>2, <1>3, <1>7
    <2>2. SomeoneSignals => SomeoneSignals'
      BY <1>1, <1>7 DEF SomeoneSignals, Signalling
    <2> QED
      BY <1>0, <1>1, <2>1, <2>2 DEF QueueInv
  <1>14. GrantInv'
    <2>1. ToGive' = ToGive
      BY <1>1 DEF ToGive
    <2>2. ASSUME NEW g \in Fibers PROVE g \in Granted' <=> g \in Granted
      BY <1>0, <1>2, <1>3, <1>4, <1>5, <1>7 DEF Granted
    <2>3. Granted' = Granted
      BY <2>2 DEF Granted
    <2> QED
      BY <1>0, <1>1, <2>1, <2>3 DEF GrantInv, PermitsKept, HandedOver
  <1> QED
    BY <1>8, <1>9, <1>10, <1>11, <1>12, <1>13, <1>14 DEF IInv

-----------------------------------------------------------------------------
(* All behaviours                                                          *)

LEMMA InitInvariant ==
    ASSUME FiberSyncAssumption, SoundUsages, Init
    PROVE  IInv
  <1>1. /\ setting \in Settings /\ permits \in {0, 1} /\ (kind = "mutex" => permits = 1)
        /\ credit = permits /\ owner = Null /\ waitTail = Null /\ queue = <<>>
    BY DEF Init
  <1>2. /\ node \in [Fibers -> {"none"}] /\ status \in [Fibers -> {"ready", "completed"}]
        /\ cancelRequested \in [Fibers -> {FALSE}] /\ pc \in [Callers -> {"out"}]
        /\ popped \in [Callers -> {Null}] /\ left \in [Callers -> {0}]
    BY DEF Init
  <1>3. \A f \in Fibers : f \in Callers
    BY DEF Callers
  <1>4. TypeOK
    <2>1. 0 \in 0 .. MaxCredit
      BY DEF FiberSyncAssumption
    <2>2. node \in [Fibers -> {"none", "queued", "notified", "done"}] /\ status \in [Fibers -> Statuses]
      BY <1>2 DEF Statuses
    <2>3. cancelRequested \in [Fibers -> BOOLEAN] /\ pc \in [Callers -> Locations]
      BY <1>2 DEF Locations
    <2>4. popped \in [Callers -> Fibers \cup {Null}] /\ left \in [Callers -> 0 .. MaxCredit]
      BY <1>2, <2>1
    <2>5. queue \in Seq(Fibers) /\ permits \in Nat /\ credit \in Nat
      BY <1>1, EmptySeq
    <2> QED
      BY <1>1, <2>2, <2>3, <2>4, <2>5 DEF TypeOK
  <1>5. Exclusive
    BY <1>1, <1>2 DEF Exclusive, Alone, SoundUsages, Uses, kind, Active
  <1>6. ASSUME NEW f \in Fibers PROVE FiberInv(f)
    BY <1>2, <1>3 DEF FiberInv, Signalling
  <1>7. ASSUME NEW t \in Callers PROVE CallerInv(t)
    BY <1>2 DEF CallerInv, Signalling
  <1>8. NotifiedInv
    BY <1>2 DEF NotifiedInv
  <1>9. QueueInv
    BY <1>1, <1>2, EmptySeq DEF QueueInv, IsInjective, Contains
  <1>10. GrantInv
    <2>1. Granted = {} /\ ToGive = {}
      BY <1>2, <1>3 DEF Granted, ToGive
    <2>2. Cardinality(Granted) = 0 /\ Cardinality(ToGive) = 0
      BY <2>1, FS_EmptySet
    <2> QED
      BY <1>1, <2>1, <2>2 DEF GrantInv, PermitsKept, HandedOver
  <1> QED
    BY <1>4, <1>5, <1>6, <1>7, <1>8, <1>9, <1>10 DEF IInv

LEMMA StepInvariant ==
    ASSUME FiberSyncAssumption, IInv, [Next]_vars
    PROVE  IInv'
  <1>1. CASE UNCHANGED vars
    BY <1>1, UnchangedKeeps
  <1>2. ASSUME NEW f \in Fibers, SchedulerStep(f) PROVE IInv'
    BY <1>2, SchedulerKeeps
  <1>3. ASSUME NEW f \in Fibers, Wait(f) \/ WaitReturns(f) \/ WaitFails(f) \/ Reset(f) PROVE IInv'
    BY <1>3, WaitKeeps, WaitReturnsKeeps, WaitFailsKeeps, ResetKeeps
  <1>4. ASSUME NEW t \in Callers, Signal(t) \/ Done(t) PROVE IInv'
    BY <1>4, EventSignalKeeps, AutoResetSignalKeeps, SemaphoreSignalKeeps, MutexUnlockKeeps, DoneKeeps
      DEF Signal
  <1> QED
    BY <1>1, <1>2, <1>3, <1>4 DEF Next, SchedulerStep

LEMMA InvariantSound == IInv => TypeOK /\ WaitsSound
  <1> SUFFICES ASSUME IInv PROVE TypeOK /\ WaitsSound
    OBVIOUS
  <1>1. TypeOK /\ PermitsKept /\ HandedOver
    BY DEF IInv, GrantInv
  <1>2. NobodyWaitsInVain
    BY DEF IInv, QueueInv, SomeoneSignals, Signalling, NobodyWaitsInVain
  <1>3. NodesReached
    BY DEF IInv, QueueInv, CallerInv, NodesReached
  <1>4. NobodySleepsOn
    <2> SUFFICES ASSUME NEW f \in Fibers, status[f] = "waiting"
                 PROVE  node[f] \in {"queued", "notified"} /\ ~cancelRequested[f]
      BY DEF NobodySleepsOn
    <2>1. FiberInv(f) /\ node[f] \in {"none", "queued", "notified", "done"}
      BY DEF IInv, TypeOK
    <2> QED
      BY <2>1 DEF FiberInv
  <1> QED
    BY <1>1, <1>2, <1>3, <1>4 DEF WaitsSound

LEMMA Invariance == FiberSyncAssumption /\ SoundUsages => (Spec => []IInv)
  <1> SUFFICES ASSUME FiberSyncAssumption, SoundUsages PROVE Spec => []IInv
    OBVIOUS
  <1>1. Init => IInv
    BY InitInvariant
  <1>2. IInv /\ [Next]_vars => IInv'
    BY StepInvariant
  <1> QED
    BY <1>1, <1>2, PTL DEF Spec

\* Every variable keeps its type, for any number of fibers, threads and workers.
THEOREM TypeCorrect == FiberSyncAssumption /\ SoundUsages => (Spec => []TypeOK)
  <1>1. IInv => TypeOK
    BY InvariantSound
  <1> QED
    BY <1>1, Invariance, PTL

\* FiberEvent, FiberAutoResetEvent, FiberSemaphore and FiberMutex: no permit is lost or
\* made up, a mutex is handed from owner to owner, nobody waits for what is there, every
\* node that somebody reaches is there, and nobody sleeps on a wake-up or a cancellation.
THEOREM WaitsAreSound == FiberSyncAssumption /\ SoundUsages => (Spec => []WaitsSound)
  <1>1. IInv => WaitsSound
    BY InvariantSound
  <1> QED
    BY <1>1, Invariance, PTL
=============================================================================
