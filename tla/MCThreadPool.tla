---------------------------- MODULE MCThreadPool ----------------------------
(* A pool whose clients may do as they please, for the run with two that wait. *)
EXTENDS ThreadPool
=============================================================================
