------------------------------- MODULE Barrier -------------------------------
(***************************************************************************)
(* SC::Barrier (Libraries/Threading/Threading.cpp): wait() blocks until    *)
(* threadCount threads have called it, and the barrier can be used again   *)
(* at once.  The generation counter is a uint32_t that wraps: its width is *)
(* the constant Generations (2^32 in the code).                            *)
(*                                                                         *)
(* The team has exactly threadCount threads: with more of them a thread    *)
(* that sleeps through Generations rounds of the others would see its own  *)
(* generation again.                                                       *)
(***************************************************************************)
EXTENDS Naturals, ThreadSet, ConditionVariables

CONSTANT Generations   \* number of values of `generation`

\* The whole team arrives in every round.
ThreadCount == Cardinality(Threads)

BarrierAssumption == Threads # {} /\ Generations \in Nat \ {0, 1}

VARIABLES
    waitCount,    \* arrivals of the current generation
    generation,
    condition,    \* threads asleep in condition.wait
    waiting,      \* threads inside wait()
    gen           \* the local variable gen of each thread inside wait()

vars == <<waitCount, generation, condition, waiting, gen>>

TypeOK ==
    /\ waitCount \in 0 .. ThreadCount - 1
    /\ generation \in 0 .. Generations - 1
    /\ condition \in SUBSET waiting
    /\ waiting \in SUBSET Threads
    /\ gen \in [Threads -> 0 .. Generations - 1]

Init ==
    /\ waitCount = 0
    /\ generation = 0
    /\ condition = {}
    /\ waiting = {}
    /\ gen = [t \in Threads |-> 0]

-----------------------------------------------------------------------------

NextGeneration == (generation + 1) % Generations

\* Slip this method could have made, tried by the mutation runs.
WakesOne(t) ==
    /\ t \notin waiting
    /\ waitCount + 1 = ThreadCount
    /\ generation' = NextGeneration /\ condition' \in Signal(condition)
    /\ waitCount' = 0
    /\ UNCHANGED <<waiting, gen>>

\* The last arrival: starts a new generation and wakes the others.
Release(t) ==
    /\ t \notin waiting
    /\ waitCount + 1 = ThreadCount
    /\ waitCount' = 0
    /\ generation' = NextGeneration
    /\ condition' = Broadcast(condition)
    /\ UNCHANGED <<waiting, gen>>

\* Any other arrival: goes to sleep until the generation changes.
Block(t) ==
    /\ t \notin waiting
    /\ waitCount + 1 # ThreadCount
    /\ waitCount' = waitCount + 1
    /\ gen' = [gen EXCEPT ![t] = generation]
    /\ waiting' = waiting \cup {t}
    /\ condition' = condition \cup {t}
    /\ UNCHANGED generation

\* Slip: the generation is tested by `if` instead of `while`.
LeaveOnAnyWakeup(t) ==
    /\ t \in waiting \ condition
    /\ waiting' = waiting \ {t}
    /\ UNCHANGED <<waitCount, generation, condition, gen>>

\* A woken thread tests `gen == generation` again.
Retry(t) ==
    /\ t \in waiting \ condition
    /\ IF gen[t] = generation
          THEN condition' = condition \cup {t} /\ UNCHANGED waiting
          ELSE waiting' = waiting \ {t} /\ UNCHANGED condition
    /\ UNCHANGED <<waitCount, generation, gen>>

SpuriousWakeup(t) ==
    /\ t \in condition
    /\ condition' = condition \ {t}
    /\ UNCHANGED <<waitCount, generation, waiting, gen>>

Next == \E t \in Threads :
    Release(t) \/ Block(t) \/ Retry(t) \/ SpuriousWakeup(t)

Spec == Init /\ [][Next]_vars

\* The scheduler runs every thread that is awake inside wait().
FairSpec == Spec /\ \A t \in Threads : WF_vars(Retry(t))

-----------------------------------------------------------------------------

Gathering == {t \in waiting : gen[t] = generation}
Leaving == waiting \ Gathering

\* Barrier::wait: the arrivals of the round are counted exactly, and a thread
\* of a complete round has been woken and is on its way out.
RoundsApart ==
    /\ waitCount = Cardinality(Gathering)
    /\ condition \subseteq Gathering

Promise == INSTANCE Rendezvous WITH gathering <- Gathering, leaving <- Leaving

\* Barrier::wait: nobody leaves before its own round is complete, although
\* threads of the last round may be leaving while the next one gathers and
\* the generation counter wraps around.
ImplementsPromise == Promise!Spec

\* Barrier::wait: once its round is complete a thread gets out, even when the
\* others are already waiting in the next round.
CompleteRoundLeaves == \A t \in Threads : t \in Leaving ~> t \notin waiting
=============================================================================
