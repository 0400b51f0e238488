----------------------------- MODULE ThreadSet -----------------------------
(* The threads that share one of the primitives of Libraries/Threading.    *)
EXTENDS FiniteSets

CONSTANT Threads

ASSUME ThreadsAssumption == IsFiniteSet(Threads)
=============================================================================
