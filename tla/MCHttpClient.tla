---------------------------- MODULE MCHttpClient ----------------------------
(***************************************************************************)
(* Settings of HttpClientScheduler: who drives the operations, how much    *)
(* memory they have, what curl passes, and what the user does.             *)
(***************************************************************************)
EXTENDS HttpClientScheduler

CONSTANTS o1, o2, b1, b2, b3

Setting(client, operations, buffers, queueSize, pieces, chunk, room, usage) ==
    [client |-> client, operations |-> operations, registered |-> SetToSeq(operations),
     buffers |-> buffers, queueSize |-> queueSize, pieces |-> pieces, chunk |-> chunk,
     room |-> room, usage |-> usage]

\* Little memory, so that the worker waits for buffers or for slots, where nothing is
\* closed before it ended.
Polled == {
    Setting("polls", {o1}, {b1, b2}, 1, 3, 3, 0, {"cancel", "fails", "close", "startInCallback"}),
    Setting("polls", {o1}, {b1}, 3, 3, 2, 0, {"cancel", "fails", "close", "startInCallback"})}

\* All that curl may pass fits.
Closed == {Setting("polls", {o1}, {b1, b2}, 4, 2, 2, 0, {"cancel", "fails", "close", "closeInFlight"})}

Scheduled == {
    Setting("schedules", {o1}, {b1, b2}, 2, 3, 2, 0, {"cancel", "fails", "close", "closeScheduler"}),
    Setting("schedules", {o1, o2}, {b1}, 1, 0, 1, 0, {"closeScheduler"})}

\* A body that fits, and one that does not, with memory enough for all of it.
Blocking == {
    Setting("blocks", {o1}, {b1}, 1, 3, 3, 3, {"fails"}),
    Setting("blocks", {o1}, {b1, b2, b3}, 5, 3, 3, 1, {"fails"})}

AllSettings == Polled \cup Closed \cup Scheduled \cup Blocking

\* More is received at once than the buffers hold.
OverflowSettings == {Setting("blocks", {o1}, {b1}, 1, 3, 3, 0, {})}
=============================================================================
