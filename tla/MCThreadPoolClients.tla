------------------------ MODULE MCThreadPoolClients ------------------------
(***************************************************************************)
(* A pool and its clients.  Either all of them call it, or one is alone    *)
(* with it: two waiting calls may disturb each other (MCThreadPool), so    *)
(* that the calls return is checked of the client that is alone.           *)
(***************************************************************************)
EXTENDS ThreadPool

CONSTANT AloneTasks  \* the tasks that only a client that is alone uses

VARIABLE callers

Alone == callers = {Owner}

MCInit == Init /\ callers \in {Clients, {Owner}}

WorkerMoves(w) == WorkerStep(w) /\ UNCHANGED callers

ClientCalls(c) ==
    /\ ClientCall(c)
    /\ Alone \/ argument'[c] \notin AloneTasks
    /\ UNCHANGED callers

\* Where one client is alone its threads get created.
ClientMoves(c) == ClientStep(c) /\ (Alone => ~CreateFailed(c)) /\ UNCHANGED callers

MCNext ==
    \/ \E w \in Workers : WorkerMoves(w)
    \/ \E c \in callers : ClientMoves(c) \/ ClientCalls(c)
    \/ SpuriousWakeup /\ UNCHANGED callers

MCSpec ==
    /\ MCInit /\ [][MCNext]_<<vars, callers>>
    /\ \A w \in Workers : WF_<<vars, callers>>(WorkerMoves(w))
    /\ \A c \in Clients : WF_<<vars, callers>>(ClientMoves(c))

\* ThreadPool: an accepted task is executed, or freed by destroy, and a call to any method
\* returns.  Before and after, numWorkerThreads counts the workers, if all were created:
\* destroy leaves none behind for the next life of the pool.
ClientIsServed == Alone => TasksSettle /\ CallsReturn /\ []WorkersCounted
=============================================================================
