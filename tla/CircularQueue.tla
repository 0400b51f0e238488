---------------------------- MODULE CircularQueue ----------------------------
(***************************************************************************)
(* SC::CircularQueue (Libraries/AsyncStreams/Internal/CircularQueue.h): a  *)
(* deque in a ring of Size slots of which at most Size - 1 are in use, so  *)
(* that readIndex = writeIndex always means empty.                         *)
(***************************************************************************)
EXTENDS Integers, Sequences

CONSTANTS Items, Nothing, Size

CircularQueueAssumption == Size \in Nat \ {0} /\ Nothing \notin Items

VARIABLES
    buffer, readIndex, writeIndex,
    result      \* what the last operation returned, or the item that it gave

vars == <<buffer, readIndex, writeIndex, result>>

Slots == 0 .. Size - 1

TypeOK ==
    /\ buffer \in [Slots -> Items \cup {Nothing}]
    /\ readIndex \in Slots /\ writeIndex \in Slots
    /\ result \in Items \cup {Nothing} \cup BOOLEAN

Init ==
    /\ buffer = [i \in Slots |-> Nothing]
    /\ readIndex = 0 /\ writeIndex = 0
    /\ result = TRUE

After(i) == (i + 1) % Size
\* A slip: the wrap of pushFront leaves out the last slot.
BeforeSkipsLast(i) == IF i = 0 THEN (IF Size > 1 THEN Size - 2 ELSE 0) ELSE i - 1
Before(i) == IF i = 0 THEN Size - 1 ELSE i - 1

PushBack(x) ==
    IF After(writeIndex) = readIndex
    THEN result' = FALSE /\ UNCHANGED <<buffer, readIndex, writeIndex>>
    ELSE /\ buffer' = [buffer EXCEPT ![writeIndex] = x]
         /\ writeIndex' = After(writeIndex)
         /\ result' = TRUE
         /\ UNCHANGED readIndex

PushFront(x) ==
    IF Before(readIndex) = writeIndex
    THEN result' = FALSE /\ UNCHANGED <<buffer, readIndex, writeIndex>>
    ELSE /\ buffer' = [buffer EXCEPT ![Before(readIndex)] = x]
         /\ readIndex' = Before(readIndex)
         /\ result' = TRUE
         /\ UNCHANGED writeIndex

\* A read buffer's identifier is copied out; what is left in the slot is never read.
PopFront ==
    IF readIndex = writeIndex
    THEN result' = Nothing /\ UNCHANGED <<buffer, readIndex, writeIndex>>
    ELSE /\ result' = buffer[readIndex]
         /\ readIndex' = After(readIndex)
         /\ UNCHANGED <<buffer, writeIndex>>

Next == PopFront \/ \E x \in Items : PushBack(x) \/ PushFront(x)

Spec == Init /\ [][Next]_vars

-----------------------------------------------------------------------------
Count == IF readIndex <= writeIndex THEN writeIndex - readIndex
                                    ELSE writeIndex - readIndex + Size

\* The slot of the item number i from the front.
SlotOf(i) == IF readIndex + i - 1 < Size THEN readIndex + i - 1 ELSE readIndex + i - 1 - Size

Contents == [i \in 1 .. Count |-> buffer[SlotOf(i)]]

Deque == INSTANCE BoundedDeque WITH contents <- Contents, Capacity <- Size - 1

\* Every item pushed comes out, in the order of a deque, however the two indices have
\* wrapped around the ring, and a push is refused exactly when Size - 1 items are held.
ImplementsDeque == Deque!Spec
=============================================================================
