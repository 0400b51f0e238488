----------------------------- MODULE MCEventLoop -----------------------------
(***************************************************************************)
(* Settings of EventLoop with three requests: of which kinds, on which     *)
(* sequence, what may fail and what the client does with them.             *)
(***************************************************************************)
EXTENDS EventLoop

CONSTANTS r1, r2, r3, seq1

Three(a, b, c) == (r1 :> a) @@ (r2 :> b) @@ (r3 :> c)

NoSequence == Three(Null, Null, Null)
OneSequence == Three(seq1, seq1, seq1)
NoFailure == Three({}, {}, {})

\* Requests the kernel watches and a timer, each on its own.
Watched == [
    kind |-> Three("socket", "readiness", "timeout"),
    sequenceOf |-> NoSequence, clearOnCancel |-> {}, clearOnError |-> {},
    fails |-> Three({"setup"}, {}, {}),
    usage |-> {"stop", "exclude", "reactivate", "betweenPhases", "noWait"},
    maxStarts |-> 3]

\* A socket; and thread pool work and a write that finishes at once on a sequence, with
\* which the client does all it may.
Sequenced == [
    kind |-> Three("socket", "work", "write"),
    sequenceOf |-> Three(Null, seq1, seq1), clearOnCancel |-> {seq1}, clearOnError |-> {},
    fails |-> Three({"complete"}, {"complete"}, {"activate"}),
    usage |-> {"stop", "reactivate", "withdraw", "clearSequence", "interrupt", "close"},
    maxStarts |-> 5]

\* Every request is on the sequence, which cancellations do not clear, and runs once
\* after it is started, unless the client stops it or clears the sequence: here
\* things have to come to an end.
OneShot == [
    kind |-> Three("socket", "work", "write"),
    sequenceOf |-> OneSequence, clearOnCancel |-> {}, clearOnError |-> {seq1},
    fails |-> Three({}, {"complete"}, {}),
    usage |-> {"stop", "clearSequence"},
    maxStarts |-> 5]

AllSettings == {Watched, Sequenced, OneShot}

ASSUME UsedSoundly == \A s \in AllSettings : SoundSetting(s)

\* A callback of a dispatch stops work whose completion is about to be dispatched.
StopWorkSettings == {[
    kind |-> Three("socket", "work", "write"),
    sequenceOf |-> Three(Null, seq1, Null), clearOnCancel |-> {seq1}, clearOnError |-> {seq1},
    fails |-> NoFailure,
    usage |-> {"stop", "stopWorkLate"},
    maxStarts |-> 2]}

EventErrorSettings == {[Watched EXCEPT !.fails = Three({"event"}, {}, {}), !.maxStarts = 2]}

\* A sequence with the default options, SequenceProgress is refuted here.
CancelledSettings == {[
    kind |-> Three("socket", "socket", "work"),
    sequenceOf |-> OneSequence, clearOnCancel |-> {seq1}, clearOnError |-> {seq1},
    fails |-> NoFailure,
    usage |-> {"stop", "clearSequence"},
    maxStarts |-> 2]}

\* AsyncSequence: a request waiting in a sequence is submitted or dropped some day.
\* AsyncRequest::stop: a stopped request gets free, its close callback is called.
OneShotEnds == loop.setting = OneShot => SequenceProgress /\ StopCompletes
=============================================================================
