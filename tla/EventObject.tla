----------------------------- MODULE EventObject -----------------------------
(***************************************************************************)
(* SC::EventObject (Libraries/Threading/Threading.cpp) with autoReset, its *)
(* default: a signal is kept until one waiter consumes it, and signals     *)
(* sent before that are merged into it.                                    *)
(***************************************************************************)
EXTENDS Naturals, ThreadSet, ConditionVariables

VARIABLES
    isSignaled,
    cond,      \* threads asleep in cond.wait
    blocked    \* threads inside wait() that have not seen the signal

vars == <<isSignaled, cond, blocked>>

TypeOK ==
    /\ isSignaled \in BOOLEAN
    /\ cond \in SUBSET blocked
    /\ blocked \in SUBSET Threads

Init ==
    /\ isSignaled = FALSE
    /\ cond = {} /\ blocked = {}

-----------------------------------------------------------------------------

\* A slip this method could have made, tried by the mutation runs.
SignalWakesNobody(t) ==
    /\ t \notin blocked
    /\ isSignaled' = TRUE
    /\ UNCHANGED <<cond, blocked>>

\* `while (not isSignaled) cond.wait(mutex); isSignaled = false`.
WaitLoop(t) ==
    \/ /\ ~isSignaled
       /\ blocked' = blocked \cup {t}
       /\ cond' = cond \cup {t}
       /\ UNCHANGED isSignaled
    \/ /\ isSignaled
       /\ isSignaled' = FALSE
       /\ blocked' = blocked \ {t}
       /\ UNCHANGED cond

Wait(t) == t \notin blocked /\ WaitLoop(t)

RetryWait(t) == t \in blocked \ cond /\ WaitLoop(t)

SignalEvent(t) ==
    /\ t \notin blocked
    /\ isSignaled' = TRUE
    /\ cond' \in Signal(cond)
    /\ UNCHANGED blocked

SpuriousWakeup(t) ==
    /\ t \in cond
    /\ cond' = cond \ {t}
    /\ UNCHANGED <<isSignaled, blocked>>

Next == \E t \in Threads :
    Wait(t) \/ RetryWait(t) \/ SignalEvent(t) \/ SpuriousWakeup(t)

Spec == Init /\ [][Next]_vars

\* The scheduler runs every thread that is awake inside wait.
FairSpec == Spec /\ \A t \in Threads : WF_vars(RetryWait(t))

-----------------------------------------------------------------------------

\* EventObject: while a signal is kept somebody is awake to consume it, if anybody
\* waits at all.
SignalHeard == isSignaled /\ blocked # {} => blocked \ cond # {}
=============================================================================
