------------------------- MODULE ConditionVariables -------------------------
(***************************************************************************)
(* SC::ConditionVariable as the modules of this project use it.  A         *)
(* condition variable is the set of the threads asleep in wait(): these    *)
(* operators say which sets the calls may leave behind.  A thread that     *)
(* left the set is woken, but runs again only once it got the mutex back.  *)
(***************************************************************************)

\* signal(): wakes an arbitrary sleeper, and does nothing when there is none.
Signal(sleepers) ==
    IF sleepers = {} THEN {sleepers} ELSE {sleepers \ {t} : t \in sleepers}

\* broadcast(): wakes them all.
Broadcast(sleepers) == {}
=============================================================================
