------------------------------ MODULE Semaphore ------------------------------
(***************************************************************************)
(* SC::Semaphore (Libraries/Threading/Threading.cpp).  Any thread may      *)
(* release, whether it acquired or not.  MaxReleases bounds the number of  *)
(* releases of a behaviour.                                                *)
(***************************************************************************)
EXTENDS Integers, ThreadSet, ConditionVariables

CONSTANTS InitialCount, MaxReleases

SemaphoreAssumption == InitialCount \in Nat /\ MaxReleases \in Nat

VARIABLES
    count,
    condition,   \* threads asleep in condition.wait
    blocked,     \* threads inside acquire that did not get a resource yet
    released     \* releases so far

vars == <<count, condition, blocked, released>>

TypeOK ==
    /\ count \in Nat
    /\ condition \in SUBSET blocked
    /\ blocked \in SUBSET Threads
    /\ released \in 0 .. MaxReleases

Init ==
    /\ count = InitialCount
    /\ condition = {} /\ blocked = {}
    /\ released = 0

-----------------------------------------------------------------------------

\* Slips these methods could have made, tried by the mutation runs.
MissedWait(t) ==
    /\ count' = count - 1
    /\ blocked' = blocked \ {t} /\ UNCHANGED condition
ReleaseWhenEmpty(t) ==
    /\ t \notin blocked /\ released < MaxReleases
    /\ count' = count + 1 /\ released' = released + 1
    /\ condition' \in IF count = 0 THEN Signal(condition) ELSE {condition}
    /\ UNCHANGED blocked

\* `while (count == 0) condition.wait(mutex); --count`, from a loop test on.
AcquireLoop(t) ==
    \/ /\ count = 0
       /\ blocked' = blocked \cup {t}
       /\ condition' = condition \cup {t}
       /\ UNCHANGED count
    \/ /\ count # 0
       /\ count' = count - 1
       /\ blocked' = blocked \ {t}
       /\ UNCHANGED condition

Acquire(t) == t \notin blocked /\ AcquireLoop(t) /\ UNCHANGED released

RetryAcquire(t) == t \in blocked \ condition /\ AcquireLoop(t) /\ UNCHANGED released

Release(t) ==
    /\ t \notin blocked /\ released < MaxReleases
    /\ count' = count + 1
    /\ released' = released + 1
    /\ condition' \in Signal(condition)
    /\ UNCHANGED blocked

SpuriousWakeup(t) ==
    /\ t \in condition
    /\ condition' = condition \ {t}
    /\ UNCHANGED <<count, blocked, released>>

Next == \E t \in Threads :
    Acquire(t) \/ RetryAcquire(t) \/ Release(t) \/ SpuriousWakeup(t)

Spec == Init /\ [][Next]_vars

\* The scheduler runs every thread that is awake inside acquire.
FairSpec == Spec /\ \A t \in Threads : WF_vars(RetryAcquire(t))

-----------------------------------------------------------------------------

\* Semaphore: as many sleepers have been woken as there are resources for
\* them, also when a late thread takes a resource from a woken one.
EnoughAwake ==
    condition = {} \/ Cardinality(blocked \ condition) >= count

\* Semaphore: no thread stays blocked while resources stay available.
ResourcesGetUsed ==
    <>[](count > 0) => \A t \in Threads : t \in blocked ~> t \notin blocked
=============================================================================
