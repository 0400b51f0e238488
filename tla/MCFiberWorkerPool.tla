------------------------- MODULE MCFiberWorkerPool -------------------------
(* Pools of one or two workers, fed by one thread outside them. *)
EXTENDS FiberWorkerPool
=============================================================================
