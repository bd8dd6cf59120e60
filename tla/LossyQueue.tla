----------------------------- MODULE LossyQueue -----------------------------
(***************************************************************************)
(* A queue of bounded length that forgets its oldest element when one more *)
(* arrives than it can hold.                                               *)
(***************************************************************************)
EXTENDS Sequences, Naturals

CONSTANTS
  Elem,      \* what the queue holds
  Capacity   \* how many it holds

VARIABLES
  items,     \* the queue, oldest first
  taken      \* the elements the last Pop returned

vars == <<items, taken>>

Push(x) ==
  /\ items' = Append(IF Len(items) = Capacity THEN Tail(items) ELSE items, x)
  /\ UNCHANGED taken

Pop(n) ==
  /\ n <= Len(items)
  /\ taken' = SubSeq(items, 1, n)
  /\ items' = SubSeq(items, n + 1, Len(items))

\* Only Clear empties the queue without handing out what it held; taken tells it
\* from a Push.
Clear ==
  /\ items' = <<>>
  /\ taken' = <<>>

Init == items = <<>> /\ taken = <<>>

Next ==
  \/ \E x \in Elem : Push(x)
  \/ \E n \in 0 .. Capacity : Pop(n)
  \/ Clear

Spec == Init /\ [][Next]_vars
=============================================================================
