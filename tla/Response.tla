------------------------------ MODULE Response ------------------------------
(***************************************************************************)
(* What an HttpClientOperation promises to the listener of a request: the  *)
(* head comes first, the pieces of the body follow in their order, and     *)
(* the request ends once, after everything that was received was heard.    *)
(***************************************************************************)
EXTENDS Naturals

CONSTANT Operations

VARIABLES inFlight, sent, heard

Silence == [head |-> FALSE, body |-> 0, end |-> "none"]

Init ==
    /\ inFlight = [o \in Operations |-> FALSE]
    /\ sent = [o \in Operations |-> 0]
    /\ heard = [o \in Operations |-> Silence]

Start(o) ==
    /\ ~inFlight[o]
    /\ inFlight' = [inFlight EXCEPT ![o] = TRUE]
    /\ sent' = [sent EXCEPT ![o] = 0]
    /\ heard' = [heard EXCEPT ![o] = Silence]

Receive(o) ==
    /\ inFlight[o]
    /\ sent' = [sent EXCEPT ![o] = @ + 1]
    /\ UNCHANGED <<inFlight, heard>>

HearHead(o) ==
    /\ inFlight[o] /\ heard[o] = Silence
    /\ heard' = [heard EXCEPT ![o].head = TRUE]
    /\ UNCHANGED <<inFlight, sent>>

HearBody(o) ==
    /\ inFlight[o] /\ heard[o].head /\ heard[o].body < sent[o]
    /\ heard' = [heard EXCEPT ![o].body = @ + 1]
    /\ UNCHANGED <<inFlight, sent>>

HearEnd(o) ==
    /\ inFlight[o] /\ heard[o].body = sent[o]
    /\ inFlight' = [inFlight EXCEPT ![o] = FALSE]
    /\ \/ heard[o].head /\ heard' = [heard EXCEPT ![o].end = "complete"]
       \/ heard' = [heard EXCEPT ![o].end = "error"]
    /\ UNCHANGED sent

\* The operation is closed: the listener hears no more of the request.
Abandon(o) ==
    /\ inFlight[o]
    /\ inFlight' = [inFlight EXCEPT ![o] = FALSE]
    /\ UNCHANGED <<sent, heard>>

Next ==
    \E o \in Operations :
        \/ Start(o) \/ Receive(o) \/ HearHead(o) \/ HearBody(o) \/ HearEnd(o) \/ Abandon(o)

Spec == Init /\ [][Next]_<<inFlight, sent, heard>>
=============================================================================
