---------------------------- MODULE BoundedDeque ----------------------------
(***************************************************************************)
(* What a circular queue promises: a sequence of at most Capacity items    *)
(* that grows and shrinks at its front and grows at its back, where what   *)
(* does not fit is refused and an empty queue gives nothing.               *)
(***************************************************************************)
EXTENDS Naturals, Sequences

CONSTANTS Items, Nothing, Capacity

VARIABLES
    contents,   \* the items held, the front one first
    result      \* what the last operation returned

vars == <<contents, result>>

Init == contents = <<>> /\ result = TRUE

Room == Len(contents) < Capacity

PushBack(x) == Room /\ contents' = Append(contents, x) /\ result' = TRUE
PushFront(x) == Room /\ contents' = <<x>> \o contents /\ result' = TRUE
Refuse == ~Room /\ result' = FALSE /\ UNCHANGED contents

PopFront ==
    /\ contents # <<>>
    /\ contents' = Tail(contents) /\ result' = Head(contents)
PopNothing == contents = <<>> /\ result' = Nothing /\ UNCHANGED contents

Next ==
    \/ \E x \in Items : PushBack(x) \/ PushFront(x)
    \/ Refuse \/ PopFront \/ PopNothing

Spec == Init /\ [][Next]_vars
=============================================================================
