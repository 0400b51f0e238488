---------------------------- MODULE MCLoopWakeUp ----------------------------
(* Wake-ups of which one is not coalesced, with and without a monitor. *)
EXTENDS LoopMonitor
=============================================================================
