--------------------------- MODULE ReadersWriters ---------------------------
(***************************************************************************)
(* What SC::RWLock promises: any number of readers or one writer, and      *)
(* priority to writers (a thread that announced itself as a writer keeps   *)
(* new readers out).  It says nothing about mutexes, counters or queues.   *)
(***************************************************************************)
CONSTANT Threads

VARIABLES
    readers,    \* threads reading
    writers,    \* threads writing: at most one
    announced   \* threads waiting to write

vars == <<readers, writers, announced>>

Init == readers = {} /\ writers = {} /\ announced = {}

BeginRead(t) ==
    /\ writers = {} /\ announced = {}
    /\ readers' = readers \cup {t}
    /\ UNCHANGED <<writers, announced>>

EndRead(t) ==
    /\ t \in readers
    /\ readers' = readers \ {t}
    /\ UNCHANGED <<writers, announced>>

Announce(t) ==
    /\ announced' = announced \cup {t}
    /\ UNCHANGED <<readers, writers>>

BeginWrite(t) ==
    /\ readers = {} /\ writers = {}
    /\ writers' = {t}
    /\ announced' = announced \ {t}
    /\ UNCHANGED readers

EndWrite(t) ==
    /\ writers = {t}
    /\ writers' = {}
    /\ UNCHANGED <<readers, announced>>

Next == \E t \in Threads :
    BeginRead(t) \/ EndRead(t) \/ Announce(t) \/ BeginWrite(t) \/ EndWrite(t)

Spec == Init /\ [][Next]_vars
=============================================================================
