------------------------------ MODULE Ps2Queue ------------------------------
(***************************************************************************)
(* The ring buffers of Ps2MultDxe: the keyboard input data (Ps2MultIo.c),  *)
(* the scan codes (Ps2KbdCtrller.c) and the two EFI key queues             *)
(* (Ps2KbdTextIn.c).  One slot always stays free, so that an empty ring    *)
(* and a full one differ; the first two kinds detect a full ring by        *)
(* counting, the last by comparing indices.                                *)
(***************************************************************************)
EXTENDS Integers, Sequences

CONSTANTS
  Elem,      \* bytes or key data
  MaxCount   \* slots of the ring (PS2MULT_INPUT_DATA_MAX_COUNT and the like)

ASSUME MaxCountAssumption == MaxCount \in Nat \ {0, 1}

VARIABLES
  buffer,    \* [Slot -> Elem]
  head,      \* slot of the oldest element
  tail,      \* slot of the next element
  popped     \* what the last Pop copied out, until InitKeyboard clears

ringVars == <<buffer, head, tail, popped>>

Slot == 0 .. MaxCount - 1

\* Mutant: the index runs over the end.
NextUnwrapped(i) == i + 1

Next1(i) == (i + 1) % MaxCount

\* GetInputDataCount, GetScancodeBufCount
Count == IF head <= tail THEN tail - head ELSE tail + MaxCount - head

IsEmpty == head = tail

\* Mutants: the ring may fill up completely; the last slot is left out.
FullAtMax     == Count = MaxCount
FullTooSoon   == tail = MaxCount - 1
FullByCount   == Count = MaxCount - 1
FullByIndices == Next1(tail) = head

\* The Count oldest elements (GetScancodeBufHead).
Oldest(n) == [k \in 1 .. n |-> buffer[(head + k - 1) % MaxCount]]

Store(x) ==
  /\ buffer' = [buffer EXCEPT ![tail] = x]
  /\ tail' = Next1(tail)
  /\ UNCHANGED popped

\* PushInputDataTail, PushScancodeBufTail
Push(x) ==
  /\ head' = IF FullByCount THEN Next1(head) ELSE head
  /\ Store(x)

\* PushEfikeyBufTail
PushKey(x) ==
  /\ head' = IF FullByIndices THEN Next1(head) ELSE head
  /\ Store(x)

\* PopInputDataHead, PopScancodeBufHead
Pop(n) ==
  /\ n <= Count
  /\ popped' = Oldest(n)
  /\ head' = (head + n) % MaxCount
  /\ UNCHANGED <<buffer, tail>>

\* PopEfikeyBufHead
PopKey ==
  /\ ~IsEmpty
  /\ popped' = Oldest(1)
  /\ head' = Next1(head)
  /\ UNCHANGED <<buffer, tail>>

\* InitKeyboard
Clear ==
  /\ head' = 0 /\ tail' = 0
  /\ popped' = <<>>
  /\ UNCHANGED buffer

RingInit ==
  /\ buffer \in [Slot -> Elem]
  /\ head = 0 /\ tail = 0
  /\ popped = <<>>

RingNext ==
  \/ \E x \in Elem : Push(x) \/ PushKey(x)
  \/ \E n \in 0 .. MaxCount - 1 : Pop(n)
  \/ PopKey
  \/ Clear

RingSpec == RingInit /\ [][RingNext]_ringVars

----------------------------------------------------------------------------
RingTypeOK ==
  /\ buffer \in [Slot -> Elem]
  /\ head \in Slot /\ tail \in Slot
  /\ popped \in Seq(Elem)

\* The two ways of seeing that the ring is full say the same
\* (PushInputDataTail and PushScancodeBufTail against PushEfikeyBufTail).
FullTestsAgree == FullByCount <=> FullByIndices

\* The ring is a queue of MaxCount - 1 elements that drops the oldest one.
Queue == INSTANCE LossyQueue WITH
  Capacity <- MaxCount - 1, items <- Oldest(Count), taken <- popped

QueueSpec == Queue!Spec
=============================================================================
