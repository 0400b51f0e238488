------------------------------ MODULE TaskPool ------------------------------
(***************************************************************************)
(* What SC::ThreadPool promises of its tasks: a task that is accepted is   *)
(* pending until a worker takes it, tasks are taken in the order in which  *)
(* they were accepted, each by one worker, and a destroyed pool frees the  *)
(* pending ones.                                                           *)
(***************************************************************************)
EXTENDS Sequences, SequencesExt

CONSTANT Tasks

VARIABLES
    pending,   \* accepted tasks, oldest first
    running    \* tasks being executed

vars == <<pending, running>>

Init == pending = <<>> /\ running = {}

Submit(t) ==
    /\ t \notin running \cup ToSet(pending)
    /\ pending' = Append(pending, t)
    /\ UNCHANGED running

Start ==
    /\ pending # <<>>
    /\ running' = running \cup {Head(pending)}
    /\ pending' = Tail(pending)

Finish(t) ==
    /\ t \in running
    /\ running' = running \ {t}
    /\ UNCHANGED pending

Free ==
    /\ pending' = <<>>
    /\ UNCHANGED running

Next == Start \/ Free \/ \E t \in Tasks : Submit(t) \/ Finish(t)

Spec == Init /\ [][Next]_vars
=============================================================================
