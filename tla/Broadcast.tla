----------------------------- MODULE Broadcast ------------------------------
(***************************************************************************)
(* What a pipeline promises: each receiver in use gets the items 1, 2, ..  *)
(* in their order, and it is over when every one of them has all of them,  *)
(* unless it was cut short.                                                *)
(***************************************************************************)
EXTENDS Naturals, Sequences

CONSTANT Receivers

VARIABLES
    used,       \* the receivers this broadcast is for
    items,      \* how many items there are
    received,   \* what each receiver got
    cut, over

vars == <<used, items, received, cut, over>>

Init ==
    /\ used \subseteq Receivers /\ items \in Nat
    /\ received = [r \in Receivers |-> <<>>]
    /\ cut = FALSE /\ over = FALSE

Deliver(r) ==
    /\ r \in used /\ ~over /\ Len(received[r]) < items
    /\ received' = [received EXCEPT ![r] = Append(@, Len(@) + 1)]
    /\ UNCHANGED <<used, items, cut, over>>

CutShort ==
    /\ cut' = TRUE
    /\ UNCHANGED <<used, items, received, over>>

Finish ==
    /\ cut \/ \A r \in used : Len(received[r]) = items
    /\ over' = TRUE
    /\ UNCHANGED <<used, items, received, cut>>

Next == Finish \/ CutShort \/ \E r \in Receivers : Deliver(r)

Spec == Init /\ [][Next]_vars
=============================================================================
