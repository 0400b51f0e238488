----------------------------- MODULE Rendezvous -----------------------------
(***************************************************************************)
(* What a reusable barrier promises its team: a round is complete when all *)
(* of the team have arrived, only then may they leave, and the next round  *)
(* gathers its own arrivals even while the last round is still leaving.    *)
(***************************************************************************)

CONSTANT Threads

VARIABLES
    gathering,   \* arrived threads of the round that is not complete
    leaving      \* threads of a complete round that have not left yet

vars == <<gathering, leaving>>

Init == gathering = {} /\ leaving = {}

\* The last arrival completes the round and leaves at once.
Arrive(t) ==
    /\ t \notin gathering \cup leaving
    /\ IF gathering \cup {t} = Threads
          THEN gathering' = {} /\ leaving' = leaving \cup gathering
          ELSE gathering' = gathering \cup {t} /\ UNCHANGED leaving

Leave(t) ==
    /\ t \in leaving
    /\ leaving' = leaving \ {t}
    /\ UNCHANGED gathering

Next == \E t \in Threads : Arrive(t) \/ Leave(t)

Spec == Init /\ [][Next]_vars
=============================================================================
