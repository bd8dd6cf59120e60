--------------------------- MODULE Ps2Mult_proofs ----------------------------
(***************************************************************************)
(* What Ps2MultDxe keeps and what it sends, for every size and content.    *)
(*                                                                         *)
(* The ring buffers are queues that forget their oldest element: they      *)
(* implement LossyQueue.  The lemmas are about one ring, given by its      *)
(* slots b, the slot h of the oldest element and the slot t of the next    *)
(* one, so that they can be used for the ring before a step and after it.  *)
(*                                                                         *)
(* The line to the multiplexer keeps keyboard and mouse apart.  Here the   *)
(* lemmas are about one direction: the bytes s on the line, the receiver   *)
(* that still has to decode them and the text they come from.              *)
(*                                                                         *)
(* The keyboard: what its bytes decode to from where they are, in the scan *)
(* code queue, the hand of a reader, the input queue or on the line, is    *)
(* what the user typed and the application has not received.  The lemmas   *)
(* are about the relation DecodesTo between bytes and strokes.             *)
(*                                                                         *)
(* The functions for a key: every key that is queued for notification is   *)
(* one that its function still has to be called for.                       *)
(***************************************************************************)
EXTENDS Ps2Queue, Ps2MultLink, Ps2Keyboard, Ps2Driver,
        SequenceTheorems, FiniteSetTheorems, WellFoundedInduction, TLAPS

----------------------------------------------------------------------------
(* The rings. *)

CountOf(h, t) == IF h <= t THEN t - h ELSE t + MaxCount - h
Held(b, h, n) == [k \in 1 .. n |-> b[(h + k - 1) % MaxCount]]

----------------------------------------------------------------------------
\* The remainder the ring takes of an index that ran over its end at most once.
LEMMA Wrap ==
  ASSUME NEW a \in 0 .. 2 * MaxCount - 1
  PROVE  a % MaxCount = IF a < MaxCount THEN a ELSE a - MaxCount
  BY MaxCountAssumption, SMT

\* Where an index of the ring lies: the slot after one and the k-th from one.
LEMMA SlotArithmetic ==
  ASSUME NEW i \in Slot, NEW k \in 0 .. MaxCount - 1
  PROVE  /\ Next1(i) = IF i = MaxCount - 1 THEN 0 ELSE i + 1
         /\ Next1(i) \in Slot
         /\ (i + k) % MaxCount = IF i + k < MaxCount THEN i + k
                                                     ELSE i + k - MaxCount
         /\ (i + k) % MaxCount \in Slot
<1>1. i + 1 \in 0 .. 2 * MaxCount - 1 /\ i + k \in 0 .. 2 * MaxCount - 1
  BY MaxCountAssumption DEF Slot
<1>2. Next1(i) = IF i + 1 < MaxCount THEN i + 1 ELSE i + 1 - MaxCount
  BY <1>1, Wrap, MaxCountAssumption DEF Next1, Slot
<1>3. (i + k) % MaxCount = IF i + k < MaxCount THEN i + k ELSE i + k - MaxCount
  BY <1>1, Wrap, MaxCountAssumption DEF Slot
<1> QED BY <1>2, <1>3, MaxCountAssumption DEF Slot

\* The count of a ring, and what it is once an element came or some went.
LEMMA CountFacts ==
  ASSUME NEW h \in Slot, NEW t \in Slot
  PROVE  /\ CountOf(h, t) \in 0 .. MaxCount - 1
         /\ (h + CountOf(h, t)) % MaxCount = t
         /\ CountOf(h, t) = MaxCount - 1 <=> Next1(t) = h
         /\ h = t <=> CountOf(h, t) = 0
         /\ Next1(t) # h => CountOf(h, Next1(t)) = CountOf(h, t) + 1
         /\ CountOf(Next1(h), Next1(t)) = CountOf(h, t)
<1> DEFINE c == CountOf(h, t)
<1>1. c \in 0 .. MaxCount - 1
  BY MaxCountAssumption DEF Slot, CountOf
<1>2. (h + c) % MaxCount = t
  BY <1>1, SlotArithmetic, MaxCountAssumption DEF Slot, CountOf
<1>3. /\ Next1(t) = IF t = MaxCount - 1 THEN 0 ELSE t + 1
      /\ Next1(h) = IF h = MaxCount - 1 THEN 0 ELSE h + 1
  BY SlotArithmetic, <1>1
<1>4. /\ c = MaxCount - 1 <=> Next1(t) = h
      /\ h = t <=> c = 0
      /\ Next1(t) # h => CountOf(h, Next1(t)) = c + 1
  BY <1>3, MaxCountAssumption DEF Slot, CountOf
<1>5. CountOf(Next1(h), Next1(t)) = c
  BY <1>3, MaxCountAssumption DEF Slot, CountOf
<1> QED BY <1>1, <1>2, <1>4, <1>5

\* The count once the n oldest elements are gone.
LEMMA CountAfterPop ==
  ASSUME NEW h \in Slot, NEW t \in Slot, NEW n \in 0 .. CountOf(h, t)
  PROVE  /\ (h + n) % MaxCount \in Slot
         /\ CountOf((h + n) % MaxCount, t) = CountOf(h, t) - n
<1>1. CountOf(h, t) \in 0 .. MaxCount - 1 /\ n \in 0 .. MaxCount - 1
  BY CountFacts, MaxCountAssumption
<1>2. /\ (h + n) % MaxCount = IF h + n < MaxCount THEN h + n
                                                  ELSE h + n - MaxCount
      /\ (h + n) % MaxCount \in Slot
  BY <1>1, SlotArithmetic
<1>3. CountOf((h + n) % MaxCount, t) = CountOf(h, t) - n
  BY <1>1, <1>2, MaxCountAssumption DEF Slot, CountOf
<1> QED BY <1>2, <1>3

----------------------------------------------------------------------------
\* Held is a sequence of elements, read slot by slot.
LEMMA HeldFacts ==
  ASSUME NEW b \in [Slot -> Elem], NEW h \in Slot, NEW n \in 0 .. MaxCount - 1
  PROVE  /\ Held(b, h, n) \in Seq(Elem)
         /\ Len(Held(b, h, n)) = n
         /\ \A k \in 1 .. n : /\ (h + k - 1) % MaxCount \in Slot
                              /\ Held(b, h, n)[k] = b[(h + k - 1) % MaxCount]
<1>1. ASSUME NEW k \in 1 .. n
      PROVE  (h + k - 1) % MaxCount \in Slot
  <2>1. k - 1 \in 0 .. MaxCount - 1 /\ h + k - 1 = h + (k - 1)
    BY MaxCountAssumption DEF Slot
  <2> QED BY <2>1, SlotArithmetic
<1>2. Held(b, h, n) \in [1 .. n -> Elem]
  BY <1>1 DEF Held
<1>3. n \in Nat
  BY MaxCountAssumption
<1>4. Held(b, h, n) \in Seq(Elem)
  BY <1>2, <1>3, SeqDef
<1>5. Len(Held(b, h, n)) = n
  BY <1>2, <1>3, <1>4, LenProperties
<1> QED BY <1>1, <1>4, <1>5 DEF Held

\* The slot the next element goes to holds none of the elements of the ring.
LEMMA HeldSlots ==
  ASSUME NEW h \in Slot, NEW t \in Slot, NEW k \in 1 .. CountOf(h, t)
  PROVE  (h + k - 1) % MaxCount \in Slot \ {t}
<1>1. CountOf(h, t) \in 0 .. MaxCount - 1
  BY CountFacts
<1>2. k - 1 \in 0 .. MaxCount - 1 /\ h + k - 1 = h + (k - 1)
  BY <1>1, MaxCountAssumption DEF Slot
<1>3. (h + (k - 1)) % MaxCount
        = IF h + (k - 1) < MaxCount THEN h + (k - 1)
                                    ELSE h + (k - 1) - MaxCount
  BY <1>2, SlotArithmetic
<1> QED BY <1>1, <1>2, <1>3, MaxCountAssumption DEF Slot, CountOf

----------------------------------------------------------------------------
\* Storing an element while the ring has room appends it.
LEMMA HeldPush ==
  ASSUME NEW b \in [Slot -> Elem], NEW h \in Slot, NEW t \in Slot, NEW x \in Elem,
         CountOf(h, t) # MaxCount - 1
  PROVE  Held([b EXCEPT ![t] = x], h, CountOf(h, t) + 1)
           = Append(Held(b, h, CountOf(h, t)), x)
<1> DEFINE c  == CountOf(h, t)
           bx == [b EXCEPT ![t] = x]
           s  == Held(b, h, c)
           u  == Held(bx, h, c + 1)
<1>1. /\ c \in 0 .. MaxCount - 1 /\ c + 1 \in 0 .. MaxCount - 1
      /\ (h + c) % MaxCount = t
  <2>1. c \in 0 .. MaxCount - 1 /\ c # MaxCount - 1
    BY CountFacts
  <2> QED BY <2>1, CountFacts, MaxCountAssumption
<1>2. bx \in [Slot -> Elem]
  OBVIOUS
<1>3. /\ s \in Seq(Elem) /\ Len(s) = c
      /\ \A k \in 1 .. c : s[k] = b[(h + k - 1) % MaxCount]
  BY <1>1, HeldFacts
<1>4. /\ u \in Seq(Elem) /\ Len(u) = c + 1
      /\ \A k \in 1 .. c + 1 : u[k] = bx[(h + k - 1) % MaxCount]
  <2> HIDE DEF bx, c
  <2> QED BY <1>1, <1>2, HeldFacts
<1>5. ASSUME NEW k \in 1 .. c
      PROVE  bx[(h + k - 1) % MaxCount] = b[(h + k - 1) % MaxCount]
  BY HeldSlots
<1>6. h + (c + 1) - 1 = h + c /\ bx[t] = x
  BY <1>1, MaxCountAssumption DEF Slot
<1>7. /\ Append(s, x) \in Seq(Elem) /\ Len(Append(s, x)) = c + 1
      /\ \A k \in 1 .. c : Append(s, x)[k] = s[k]
      /\ Append(s, x)[c + 1] = x
  BY <1>1, <1>3, AppendProperties
<1> HIDE DEF c, bx, s, u
<1>8. ASSUME NEW k \in 1 .. c + 1
      PROVE  u[k] = Append(s, x)[k]
  <2>1. CASE k \in 1 .. c
    BY <2>1, <1>1, <1>3, <1>4, <1>5, <1>7
  <2>2. CASE k = c + 1
    BY <2>2, <1>1, <1>4, <1>6, <1>7
  <2>3. k \in 1 .. c \/ k = c + 1
    BY <1>1, MaxCountAssumption
  <2> QED BY <2>1, <2>2, <2>3
<1>9. u = Append(s, x)
  BY <1>4, <1>7, <1>8, SeqEqual
<1> QED BY <1>9 DEF c, bx, s, u

\* Taking the n oldest elements leaves the others in their order.
LEMMA HeldPop ==
  ASSUME NEW b \in [Slot -> Elem], NEW h \in Slot, NEW t \in Slot,
         NEW n \in 0 .. CountOf(h, t)
  PROVE  LET s == Held(b, h, CountOf(h, t)) IN
         /\ Held(b, h, n) = SubSeq(s, 1, n)
         /\ Held(b, (h + n) % MaxCount, CountOf(h, t) - n)
              = SubSeq(s, n + 1, CountOf(h, t))
<1> DEFINE c == CountOf(h, t)
           s == Held(b, h, c)
           f == Held(b, h, n)
           g == (h + n) % MaxCount
           r == Held(b, g, c - n)
<1>1. c \in 0 .. MaxCount - 1 /\ n \in 0 .. MaxCount - 1 /\ c - n \in 0 .. MaxCount - 1
  BY CountFacts, MaxCountAssumption
<1>2. g \in Slot /\ g = IF h + n < MaxCount THEN h + n ELSE h + n - MaxCount
  BY <1>1, SlotArithmetic
<1>3. /\ s \in Seq(Elem) /\ Len(s) = c
      /\ \A k \in 1 .. c : s[k] = b[(h + k - 1) % MaxCount]
      /\ \A k \in 1 .. c : s[k] \in Elem
  <2>1. /\ s \in Seq(Elem) /\ Len(s) = c
        /\ \A k \in 1 .. c : s[k] = b[(h + k - 1) % MaxCount]
    BY <1>1, HeldFacts
  <2> HIDE DEF c, s
  <2> QED BY <2>1, ElementOfSeq
<1>4. /\ f \in Seq(Elem) /\ Len(f) = n
      /\ \A k \in 1 .. n : f[k] = b[(h + k - 1) % MaxCount]
  BY <1>1, HeldFacts
<1>5. /\ r \in Seq(Elem) /\ Len(r) = c - n
      /\ \A k \in 1 .. c - n : r[k] = b[(g + k - 1) % MaxCount]
  BY <1>1, <1>2, HeldFacts
<1>6. ASSUME NEW k \in 1 .. c - n
      PROVE  (g + k - 1) % MaxCount = (h + (n + k) - 1) % MaxCount
  <2>1. /\ k - 1 \in 0 .. MaxCount - 1 /\ n + k - 1 \in 0 .. MaxCount - 1
        /\ g + k - 1 = g + (k - 1) /\ h + (n + k) - 1 = h + (n + k - 1)
    BY <1>1, <1>2, MaxCountAssumption DEF Slot
  <2>2. (g + (k - 1)) % MaxCount = IF g + (k - 1) < MaxCount
                                   THEN g + (k - 1) ELSE g + (k - 1) - MaxCount
    BY <2>1, <1>2, SlotArithmetic
  <2>3. (h + (n + k - 1)) % MaxCount
          = IF h + (n + k - 1) < MaxCount THEN h + (n + k - 1)
                                          ELSE h + (n + k - 1) - MaxCount
    BY <2>1, SlotArithmetic
  <2> HIDE DEF c, g
  <2> QED BY <2>1, <2>2, <2>3, <1>1, <1>2, MaxCountAssumption DEF Slot
<1> HIDE DEF c, s, f, g, r
<1>7. /\ SubSeq(s, 1, n) \in Seq(Elem) /\ Len(SubSeq(s, 1, n)) = n
      /\ \A k \in 1 .. n : SubSeq(s, 1, n)[k] = s[k]
  <2>1. \A k \in 1 .. n : s[k] \in Elem
    BY <1>1, <1>3 DEF c
  <2>2. /\ SubSeq(s, 1, n) \in Seq(Elem)
        /\ Len(SubSeq(s, 1, n)) = IF 1 <= n THEN n - 1 + 1 ELSE 0
        /\ \A k \in 1 .. n - 1 + 1 : SubSeq(s, 1, n)[k] = s[1 + k - 1]
    BY <2>1, <1>1, SubSeqProperties
  <2> QED BY <2>2, <1>1
<1>8. /\ SubSeq(s, n + 1, c) \in Seq(Elem) /\ Len(SubSeq(s, n + 1, c)) = c - n
      /\ \A k \in 1 .. c - n : SubSeq(s, n + 1, c)[k] = s[n + k]
  <2>1. \A k \in n + 1 .. c : s[k] \in Elem
    BY <1>1, <1>3
  <2>2. /\ SubSeq(s, n + 1, c) \in Seq(Elem)
        /\ Len(SubSeq(s, n + 1, c)) = IF n + 1 <= c THEN c - (n + 1) + 1 ELSE 0
        /\ \A k \in 1 .. c - (n + 1) + 1 : SubSeq(s, n + 1, c)[k] = s[n + 1 + k - 1]
    BY <2>1, <1>1, SubSeqProperties
  <2> QED BY <2>2, <1>1
<1>9. \A k \in 1 .. n : f[k] = SubSeq(s, 1, n)[k]
  <2>1. \A k \in 1 .. n : k \in 1 .. c
    BY <1>1, MaxCountAssumption
  <2> QED BY <2>1, <1>3, <1>4, <1>7
<1>10. \A k \in 1 .. c - n : r[k] = SubSeq(s, n + 1, c)[k]
  <2>1. \A k \in 1 .. c - n : n + k \in 1 .. c
    BY <1>1
  <2> QED BY <2>1, <1>3, <1>5, <1>6, <1>8
<1>11. f = SubSeq(s, 1, n) /\ r = SubSeq(s, n + 1, c)
  BY <1>4, <1>5, <1>7, <1>8, <1>9, <1>10, SeqEqual
<1> QED BY <1>11 DEF c, s, f, g, r

\* Pushing into a full ring forgets the oldest element and appends the new one.
LEMMA HeldPushFull ==
  ASSUME NEW b \in [Slot -> Elem], NEW h \in Slot, NEW t \in Slot, NEW x \in Elem,
         CountOf(h, t) = MaxCount - 1
  PROVE  LET s == Held(b, h, MaxCount - 1) IN
         /\ s \in Seq(Elem) /\ Len(s) = MaxCount - 1
         /\ Held([b EXCEPT ![t] = x], Next1(h), MaxCount - 1) = Append(Tail(s), x)
<1> DEFINE s == Held(b, h, MaxCount - 1)
           g == (h + 1) % MaxCount
<1>1. 1 \in 0 .. CountOf(h, t) /\ MaxCount - 1 \in 0 .. MaxCount - 1
  BY MaxCountAssumption
<1>2. g \in Slot /\ CountOf(g, t) = MaxCount - 1 - 1
  BY <1>1, CountAfterPop
<1>3. s \in Seq(Elem) /\ Len(s) = MaxCount - 1
  BY <1>1, HeldFacts
<1>4. Held(b, g, MaxCount - 1 - 1) = SubSeq(s, 1 + 1, MaxCount - 1)
  BY <1>1, HeldPop
<1>5. Tail(s) = SubSeq(s, 2, MaxCount - 1)
  <2>1. s # << >>
    BY <1>3, MaxCountAssumption, EmptySeq
  <2> QED BY <1>3, <2>1, TailIsSubSeq
<1>6. Held([b EXCEPT ![t] = x], g, CountOf(g, t) + 1)
        = Append(Held(b, g, CountOf(g, t)), x)
  <2>1. CountOf(g, t) # MaxCount - 1
    BY <1>2, MaxCountAssumption
  <2> HIDE DEF g
  <2> QED BY <1>2, <2>1, HeldPush
<1>7. MaxCount - 1 - 1 + 1 = MaxCount - 1 /\ 1 + 1 = 2 /\ g = Next1(h)
  BY MaxCountAssumption DEF Next1
<1> HIDE DEF s, g
<1> QED BY <1>2, <1>3, <1>4, <1>5, <1>6, <1>7 DEF s

----------------------------------------------------------------------------
\* The ring of a state, in the terms of the lemmas.
LEMMA RingTerms ==
  /\ Count = CountOf(head, tail)
  /\ Oldest(Count) = Held(buffer, head, CountOf(head, tail))
  /\ \A n \in Nat : Oldest(n) = Held(buffer, head, n)
  BY DEF Count, CountOf, Oldest, Held

\* One step of the ring keeps its indices and slots well formed.
LEMMA RingStep == RingTypeOK /\ [RingNext]_ringVars => RingTypeOK'
<1> SUFFICES ASSUME RingTypeOK, [RingNext]_ringVars PROVE RingTypeOK'
  OBVIOUS
<1>1. /\ buffer \in [Slot -> Elem] /\ head \in Slot /\ tail \in Slot
      /\ popped \in Seq(Elem)
  BY DEF RingTypeOK
<1>2. /\ Next1(head) \in Slot /\ Next1(tail) \in Slot /\ 0 \in Slot
  <2>1. 0 \in 0 .. MaxCount - 1
    BY MaxCountAssumption
  <2> QED BY <1>1, <2>1, SlotArithmetic DEF Slot
<1>3. ASSUME NEW x \in Elem, Push(x) \/ PushKey(x) PROVE RingTypeOK'
  BY <1>1, <1>2, <1>3 DEF Push, PushKey, Store, RingTypeOK
<1>4. ASSUME NEW n \in 0 .. MaxCount - 1, Pop(n) PROVE RingTypeOK'
  <2>1. Held(buffer, head, n) \in Seq(Elem)
    BY <1>1, HeldFacts
  <2>2. (head + n) % MaxCount \in Slot
    BY <1>1, SlotArithmetic
  <2>3. popped' = Held(buffer, head, n)
    BY <1>4 DEF Pop, Oldest, Held
  <2> QED BY <1>1, <1>4, <2>1, <2>2, <2>3 DEF Pop, RingTypeOK
<1>5. ASSUME PopKey PROVE RingTypeOK'
  <2>1. Held(buffer, head, 1) \in Seq(Elem)
    <3>1. 1 \in 0 .. MaxCount - 1
      BY MaxCountAssumption
    <3> QED BY <1>1, <3>1, HeldFacts
  <2>2. popped' = Held(buffer, head, 1)
    BY <1>5 DEF PopKey, Oldest, Held
  <2> QED BY <1>1, <1>2, <1>5, <2>1, <2>2 DEF PopKey, RingTypeOK
<1>6. ASSUME Clear PROVE RingTypeOK'
  BY <1>1, <1>2, <1>6 DEF Clear, RingTypeOK
<1>7. ASSUME UNCHANGED ringVars PROVE RingTypeOK'
  BY <1>1, <1>7 DEF ringVars, RingTypeOK
<1> QED BY <1>3, <1>4, <1>5, <1>6, <1>7 DEF RingNext

\* Every ring is well formed: its indices stay in the buffer and what was
\* taken out of it are elements (PushInputDataTail, PopInputDataHead and their
\* counterparts for scan codes and EFI keys).
THEOREM RingTypeCorrect == RingSpec => []RingTypeOK
<1>1. RingInit => RingTypeOK
  <2>1. 0 \in 0 .. MaxCount - 1 /\ << >> \in Seq(Elem)
    BY MaxCountAssumption, EmptySeq
  <2> QED BY <2>1 DEF RingInit, RingTypeOK, Slot
<1> QED BY <1>1, RingStep, PTL DEF RingSpec

\* The test by count of the byte rings (PushInputDataTail, PushScancodeBufTail)
\* and the test by index of the key rings (PushEfikeyBufTail) call the same
\* rings full.
THEOREM FullTestsSame == RingSpec => []FullTestsAgree
<1>1. RingTypeOK => FullTestsAgree
  BY CountFacts, RingTerms DEF RingTypeOK, FullTestsAgree, FullByCount, FullByIndices
<1> QED BY <1>1, RingTypeCorrect, PTL

----------------------------------------------------------------------------
\* Each operation of the ring does to the queue what it is to do.
LEMMA PushRefines ==
  ASSUME RingTypeOK, NEW x \in Elem, Push(x) \/ PushKey(x)
  PROVE  Queue!Push(x)
<1> DEFINE c == CountOf(head, tail)
           s == Held(buffer, head, c)
<1>1. /\ buffer \in [Slot -> Elem] /\ head \in Slot /\ tail \in Slot
  BY DEF RingTypeOK
<1>2. /\ Count = c /\ Oldest(Count) = s
      /\ Oldest(Count)' = Held(buffer', head', CountOf(head', tail'))
  BY RingTerms DEF Count, CountOf, Oldest, Held
<1>3. FullByCount <=> c = MaxCount - 1
  BY <1>2 DEF FullByCount
<1>4. FullByIndices <=> c = MaxCount - 1
  BY <1>1, CountFacts DEF FullByIndices
<1>5. /\ buffer' = [buffer EXCEPT ![tail] = x] /\ tail' = Next1(tail)
      /\ head' = IF c = MaxCount - 1 THEN Next1(head) ELSE head
      /\ popped' = popped
  <2>1. CASE Push(x)
    BY <2>1, <1>3 DEF Push, Store
  <2>2. CASE PushKey(x)
    BY <2>2, <1>4 DEF PushKey, Store
  <2> QED BY <2>1, <2>2
<1>6. s \in Seq(Elem) /\ Len(s) = c
  BY <1>1, CountFacts, HeldFacts
<1>7. CASE c # MaxCount - 1
  <2>1. CountOf(head', tail') = c + 1
    BY <1>1, <1>5, <1>7, CountFacts
  <2>2. Oldest(Count)' = Append(s, x)
    <3>1. Held([buffer EXCEPT ![tail] = x], head, c + 1) = Append(s, x)
      BY <1>1, <1>7, HeldPush
    <3> HIDE DEF s, c
    <3> QED BY <1>2, <1>5, <1>7, <2>1, <3>1
  <2> HIDE DEF s, c
  <2> QED BY <1>2, <1>5, <1>6, <1>7, <2>2 DEF Queue!Push
<1>8. CASE c = MaxCount - 1
  <2>1. CountOf(head', tail') = MaxCount - 1
    BY <1>1, <1>5, <1>8, CountFacts
  <2>2. Oldest(Count)' = Append(Tail(s), x)
    <3>1. Held([buffer EXCEPT ![tail] = x], Next1(head), MaxCount - 1)
            = Append(Tail(Held(buffer, head, MaxCount - 1)), x)
      BY <1>1, <1>8, HeldPushFull
    <3> QED BY <1>2, <1>5, <1>8, <2>1, <3>1
  <2> HIDE DEF s, c
  <2> QED BY <1>2, <1>5, <1>6, <1>8, <2>2 DEF Queue!Push
<1> QED BY <1>7, <1>8

LEMMA PopRefines ==
  ASSUME RingTypeOK, NEW n \in 0 .. MaxCount - 1, n <= Count,
         popped' = Oldest(n), head' = (head + n) % MaxCount,
         UNCHANGED <<buffer, tail>>
  PROVE  Queue!Pop(n)
<1> DEFINE c == CountOf(head, tail)
           s == Held(buffer, head, c)
<1>1. /\ buffer \in [Slot -> Elem] /\ head \in Slot /\ tail \in Slot
  BY DEF RingTypeOK
<1>2. /\ Count = c /\ Oldest(Count) = s /\ popped' = Held(buffer, head, n)
      /\ Oldest(Count)' = Held(buffer, head', CountOf(head', tail))
  BY RingTerms DEF Count, CountOf, Oldest, Held
<1>3. n \in 0 .. c
  BY <1>1, <1>2, CountFacts, MaxCountAssumption
<1>4. CountOf(head', tail) = c - n
  BY <1>1, <1>3, CountAfterPop
<1>5. /\ popped' = SubSeq(s, 1, n)
      /\ Oldest(Count)' = SubSeq(s, n + 1, c)
  BY <1>1, <1>2, <1>3, <1>4, HeldPop
<1>6. Len(s) = c
  BY <1>1, CountFacts, HeldFacts
<1> HIDE DEF s, c
<1> QED BY <1>2, <1>5, <1>6 DEF Queue!Pop

LEMMA ClearRefines ==
  ASSUME RingTypeOK, Clear
  PROVE  Queue!Clear
<1>1. (Count = 0)' /\ popped' = <<>>
  BY DEF Clear, Count
<1>2. Oldest(Count)' \in [1 .. 0 -> {}]
  BY <1>1 DEF Oldest
<1>3. Oldest(Count)' = << >>
  <2>1. Oldest(Count)' \in Seq({})
    BY <1>2, SeqDef
  <2>2. Len(Oldest(Count)') = 0
    BY <1>2, <2>1, LenProperties
  <2> QED BY <2>1, <2>2, EmptySeq
<1> QED BY <1>1, <1>3 DEF Queue!Clear

\* The rings implement the queue that forgets its oldest element: whatever the
\* order of pushes, pops and clears, what is taken out is what was pushed, in
\* order, less the oldest elements of a full ring.
THEOREM RingIsLossyQueue == RingSpec => QueueSpec
<1>1. RingInit => Queue!Init
  <2> SUFFICES ASSUME RingInit PROVE Queue!Init
    OBVIOUS
  <2>1. Count = 0 /\ popped = << >>
    BY DEF RingInit, Count
  <2>2. Oldest(Count) \in [1 .. 0 -> {}]
    BY <2>1 DEF Oldest
  <2>3. Oldest(Count) = << >>
    <3>1. Oldest(Count) \in Seq({})
      BY <2>2, SeqDef
    <3>2. Len(Oldest(Count)) = 0
      BY <2>2, <3>1, LenProperties
    <3> QED BY <3>1, <3>2, EmptySeq
  <2> QED BY <2>1, <2>3 DEF Queue!Init
<1>2. RingTypeOK /\ [RingNext]_ringVars => [Queue!Next]_(Queue!vars)
  <2> SUFFICES ASSUME RingTypeOK, [RingNext]_ringVars
               PROVE  Queue!Next \/ UNCHANGED Queue!vars
    OBVIOUS
  <2>1. ASSUME NEW x \in Elem, Push(x) \/ PushKey(x) PROVE Queue!Next
    BY <2>1, PushRefines DEF Queue!Next
  <2>2. ASSUME NEW n \in 0 .. MaxCount - 1, Pop(n) PROVE Queue!Next
    <3>1. Queue!Pop(n)
      BY <2>2, PopRefines DEF Pop
    <3> QED BY <3>1 DEF Queue!Next
  <2>3. ASSUME PopKey PROVE Queue!Next
    <3>1. 1 \in 0 .. MaxCount - 1 /\ Count \in 0 .. MaxCount - 1 /\ Count # 0
      BY <2>3, CountFacts, RingTerms, MaxCountAssumption
      DEF RingTypeOK, PopKey, IsEmpty
    <3>2. Queue!Pop(1)
      BY <2>3, <3>1, PopRefines, MaxCountAssumption DEF PopKey, Next1
    <3> QED BY <3>1, <3>2 DEF Queue!Next
  <2>4. ASSUME Clear PROVE Queue!Next
    BY <2>4, ClearRefines DEF Queue!Next
  <2>5. ASSUME UNCHANGED ringVars PROVE UNCHANGED Queue!vars
    BY <2>5 DEF ringVars, Queue!vars, Oldest, Count
  <2> QED BY <2>1, <2>2, <2>3, <2>4, <2>5 DEF RingNext
<1> QED BY <1>1, <1>2, RingTypeCorrect, PTL DEF RingSpec, QueueSpec, Queue!Spec

----------------------------------------------------------------------------
(* The line. *)

Port == {"kbd", "mouse"}
OnLine == Data \cup Controls

\* What one byte b on the line does to a decoder: it is at port p, behind an escape if e, and has
\* passed on the first n bytes of the text t; then at q, f and m.  Only the host's direction has starts.
Delivers(p, n, b, m, t) == IF p = "kbd" THEN m = n + 1 /\ m \in DOMAIN t /\ t[m] = b ELSE m = n

Decodes(p, e, n, b, q, f, m, t, starts) ==
  IF e THEN q = p /\ ~f /\ Delivers(p, n, b, m, t)
  ELSE /\ b = "ESC" => q = p /\ f /\ m = n
       /\ b = "KB" => q = "kbd" /\ ~f /\ m = n
       /\ b = "MS" => q = "mouse" /\ ~f /\ m = n
       /\ b = "START" => starts /\ q = "kbd" /\ ~f /\ m = n
       /\ b \notin {"BSYNC", "END"}
       /\ b \notin Controls => q = p /\ ~f /\ Delivers(p, n, b, m, t)

\* The bytes s on the line take a decoder from p, e, n to q, f, m: at each of them there is a port P[i],
\* an escape open (i \in X) or not, and a number of bytes N[i].
Leads(s, p, e, n, q, f, m, t, starts) ==
  \E P \in [0 .. Len(s) -> Port], X \in SUBSET (0 .. Len(s)), N \in [0 .. Len(s) -> Nat] :
    /\ P[0] = p /\ (0 \in X <=> e) /\ N[0] = n
    /\ P[Len(s)] = q /\ (Len(s) \in X <=> f) /\ N[Len(s)] = m
    /\ \A i \in 1 .. Len(s) : Decodes(P[i - 1], i - 1 \in X, N[i - 1], s[i], P[i], i \in X, N[i], t, starts)

\* Both directions: what was passed on is the beginning of the text, and what is on the line leads
\* the decoder to where the sender stands.
Follows(got, text) == Len(got) <= Len(text) /\ \A i \in 1 .. Len(got) : got[i] = text[i]

UpOK == Follows(received, typed) /\ Leads(up, inPort, escape, Len(received), muxOut, FALSE, Len(typed), typed, FALSE)
DownOK == Follows(obeyed, sent) /\ Leads(toMux, muxIn, muxEsc, Len(obeyed), outPort, FALSE, Len(sent), sent, TRUE)

LinkTypes ==
  /\ {outPort, inPort, muxOut, muxIn} \subseteq Port /\ escape \in BOOLEAN /\ muxEsc \in BOOLEAN
  /\ {up, toMux, typed, received, sent, obeyed} \subseteq Seq(OnLine)

LinkInv == LinkTypes /\ DownOK /\ (~Restart => UpOK)

LEMMA Emptied ==
  ASSUME NEW p \in Port, NEW e, NEW n \in Nat, NEW q, NEW f, NEW m, NEW t, NEW starts,
         Leads(<<>>, p, e, n, q, f, m, t, starts)
  PROVE  p = q /\ n = m /\ (e <=> f)
  BY DEF Leads

LEMMA Standing ==
  ASSUME NEW p \in Port, NEW n \in Nat, NEW t, NEW starts
  PROVE  Leads(<<>>, p, FALSE, n, p, FALSE, n, t, starts)
<1> DEFINE P == [i \in 0 .. 0 |-> p]
           N == [i \in 0 .. 0 |-> n]
<1>1. P \in [0 .. Len(<<>>) -> Port] /\ N \in [0 .. Len(<<>>) -> Nat] /\ {} \in SUBSET (0 .. Len(<<>>))
  OBVIOUS
<1>2. P[0] = p /\ N[0] = n /\ Len(<<>>) = 0 /\ 1 .. 0 = {}
  OBVIOUS
<1> QED BY <1>1, <1>2, Zenon DEF Leads

\* The sender appends a byte.
LEMMA Sent ==
  ASSUME NEW B, NEW s \in Seq(B), NEW b \in B, NEW p, NEW e, NEW n, NEW q \in Port, NEW f, NEW m \in Nat,
         NEW t, NEW starts, Leads(s, p, e, n, q, f, m, t, starts),
         NEW r \in Port, NEW g \in BOOLEAN, NEW k \in Nat, Decodes(q, f, m, b, r, g, k, t, starts)
  PROVE  Leads(Append(s, b), p, e, n, r, g, k, t, starts)
<1> DEFINE L == Len(s)
           u == Append(s, b)
<1>1. L \in Nat /\ Len(u) = L + 1 /\ u[L + 1] = b /\ \A i \in 1 .. L : u[i] = s[i]
  OBVIOUS
<1>2. PICK P \in [0 .. L -> Port], X \in SUBSET (0 .. L), N \in [0 .. L -> Nat] :
        /\ P[0] = p /\ (0 \in X <=> e) /\ N[0] = n
        /\ P[L] = q /\ (L \in X <=> f) /\ N[L] = m
        /\ \A i \in 1 .. L : Decodes(P[i - 1], i - 1 \in X, N[i - 1], s[i], P[i], i \in X, N[i], t, starts)
  BY Zenon DEF Leads
<1> DEFINE P2 == [i \in 0 .. L + 1 |-> IF i = L + 1 THEN r ELSE P[i]]
           X2 == X \cup (IF g THEN {L + 1} ELSE {})
           N2 == [i \in 0 .. L + 1 |-> IF i = L + 1 THEN k ELSE N[i]]
<1> HIDE DEF L, u
<1>3. P2 \in [0 .. L + 1 -> Port] /\ N2 \in [0 .. L + 1 -> Nat] /\ X2 \in SUBSET (0 .. L + 1)
  BY <1>1
<1>4. /\ P2[0] = P[0] /\ N2[0] = N[0] /\ P2[L + 1] = r /\ N2[L + 1] = k
      /\ (L + 1 \in X2 <=> g) /\ \A i \in 0 .. L : i \in X2 <=> i \in X
  BY <1>1
<1>5. ASSUME NEW i \in 1 .. L + 1
      PROVE  Decodes(P2[i - 1], i - 1 \in X2, N2[i - 1], u[i], P2[i], i \in X2, N2[i], t, starts)
  <2>1. CASE i = L + 1
    <3>1. /\ P2[i - 1] = q /\ N2[i - 1] = m /\ P2[i] = r /\ N2[i] = k /\ u[i] = b
          /\ (i - 1 \in X2 <=> f) /\ (i \in X2 <=> g)
      BY <1>1, <1>2, <1>4, <2>1
    <3> HIDE DEF P2, N2, X2
    <3> QED BY <3>1 DEF Decodes, Delivers
  <2>2. CASE i # L + 1
    <3>1. i \in 1 .. L
      BY <1>1, <2>2
    <3>2. /\ P2[i - 1] = P[i - 1] /\ N2[i - 1] = N[i - 1] /\ P2[i] = P[i] /\ N2[i] = N[i] /\ u[i] = s[i]
          /\ (i - 1 \in X2 <=> i - 1 \in X) /\ (i \in X2 <=> i \in X)
      BY <1>1, <1>4, <3>1
    <3>3. Decodes(P[i - 1], i - 1 \in X, N[i - 1], s[i], P[i], i \in X, N[i], t, starts)
      BY <1>2, <3>1
    <3> HIDE DEF P2, N2, X2
    <3> QED BY <3>2, <3>3 DEF Decodes
  <2> QED BY <2>1, <2>2
<1> HIDE DEF P2, N2, X2
<1>6. Len(u) \in Nat /\ Len(u) = L + 1
  BY <1>1
<1>7. 0 \in X2 <=> e
  BY <1>1, <1>2, <1>4
<1>8. /\ P2 \in [0 .. Len(u) -> Port] /\ X2 \in SUBSET (0 .. Len(u)) /\ N2 \in [0 .. Len(u) -> Nat]
      /\ P2[0] = p /\ (0 \in X2 <=> e) /\ N2[0] = n
      /\ P2[Len(u)] = r /\ (Len(u) \in X2 <=> g) /\ N2[Len(u)] = k
      /\ \A i \in 1 .. Len(u) : Decodes(P2[i - 1], i - 1 \in X2, N2[i - 1], u[i], P2[i], i \in X2, N2[i], t, starts)
  BY <1>2, <1>3, <1>4, <1>5, <1>6, <1>7, Zenon
<1>9. Leads(u, p, e, n, r, g, k, t, starts)
  BY <1>8, Zenon DEF Leads
<1> QED BY <1>9 DEF u

\* The receiver takes the first one.
Takes(s, p, e, n, q, f, m, t, starts) ==
  \E r \in Port, g \in BOOLEAN, k \in Nat :
    /\ Decodes(p, e, n, Head(s), r, g, k, t, starts)
    /\ Leads(Tail(s), r, g, k, q, f, m, t, starts)

LEMMA Taken ==
  ASSUME NEW B, NEW s \in Seq(B), s # <<>>, NEW p, NEW e, NEW n, NEW q, NEW f, NEW m, NEW t, NEW starts,
         Leads(s, p, e, n, q, f, m, t, starts)
  PROVE  Takes(s, p, e, n, q, f, m, t, starts)
<1> DEFINE L == Len(s)
           u == Tail(s)
<1>1. L \in Nat /\ L # 0 /\ Len(u) = L - 1 /\ Head(s) = s[1] /\ \A i \in 1 .. L - 1 : u[i] = s[i + 1]
  OBVIOUS
<1>2. PICK P \in [0 .. L -> Port], X \in SUBSET (0 .. L), N \in [0 .. L -> Nat] :
        /\ P[0] = p /\ (0 \in X <=> e) /\ N[0] = n
        /\ P[L] = q /\ (L \in X <=> f) /\ N[L] = m
        /\ \A i \in 1 .. L : Decodes(P[i - 1], i - 1 \in X, N[i - 1], s[i], P[i], i \in X, N[i], t, starts)
  BY Zenon DEF Leads
<1> DEFINE g == 1 \in X
           P2 == [i \in 0 .. L - 1 |-> P[i + 1]]
           X2 == {i \in 0 .. L - 1 : i + 1 \in X}
           N2 == [i \in 0 .. L - 1 |-> N[i + 1]]
<1> HIDE DEF L, u
<1>3. P2 \in [0 .. L - 1 -> Port] /\ N2 \in [0 .. L - 1 -> Nat] /\ X2 \in SUBSET (0 .. L - 1)
  BY <1>1
<1>4. /\ \A i \in 0 .. L - 1 : P2[i] = P[i + 1] /\ N2[i] = N[i + 1] /\ (i \in X2 <=> i + 1 \in X)
      /\ 0 \in 0 .. L - 1 /\ L - 1 \in 0 .. L - 1 /\ 1 \in 1 .. L
      /\ (L - 1) + 1 = L /\ 0 + 1 = 1 /\ 1 - 1 = 0
  BY <1>1
<1>5. /\ P2[0] = P[1] /\ N2[0] = N[1] /\ (0 \in X2 <=> g)
      /\ P2[L - 1] = q /\ N2[L - 1] = m /\ (L - 1 \in X2 <=> f)
  BY <1>2, <1>4
<1> HIDE DEF P2, N2, X2
<1>6. ASSUME NEW i \in 1 .. L - 1
      PROVE  Decodes(P2[i - 1], i - 1 \in X2, N2[i - 1], u[i], P2[i], i \in X2, N2[i], t, starts)
  <2>1. i \in 0 .. L - 1 /\ i - 1 \in 0 .. L - 1 /\ i + 1 \in 1 .. L /\ (i - 1) + 1 = i /\ (i + 1) - 1 = i
    BY <1>1
  <2>2. /\ P2[i - 1] = P[i] /\ N2[i - 1] = N[i] /\ P2[i] = P[i + 1] /\ N2[i] = N[i + 1] /\ u[i] = s[i + 1]
        /\ (i - 1 \in X2 <=> i \in X) /\ (i \in X2 <=> i + 1 \in X)
    BY <1>1, <1>4, <2>1
  <2>3. Decodes(P[i], i \in X, N[i], s[i + 1], P[i + 1], i + 1 \in X, N[i + 1], t, starts)
    BY <1>2, <2>1
  <2> QED BY <2>2, <2>3 DEF Decodes
<1>7. Len(u) = L - 1
  BY <1>1
<1>8. Leads(u, P[1], g, N[1], q, f, m, t, starts)
  <2>1. /\ P2 \in [0 .. Len(u) -> Port] /\ X2 \in SUBSET (0 .. Len(u)) /\ N2 \in [0 .. Len(u) -> Nat]
        /\ P2[0] = P[1] /\ (0 \in X2 <=> g) /\ N2[0] = N[1]
        /\ P2[Len(u)] = q /\ (Len(u) \in X2 <=> f) /\ N2[Len(u)] = m
        /\ \A i \in 1 .. Len(u) : Decodes(P2[i - 1], i - 1 \in X2, N2[i - 1], u[i], P2[i], i \in X2, N2[i], t, starts)
    BY <1>3, <1>5, <1>6, <1>7, Zenon
  <2> HIDE DEF g
  <2> QED BY <2>1, Zenon DEF Leads
<1>9. Decodes(p, e, n, s[1], P[1], g, N[1], t, starts)
  <2>1. Decodes(P[0], 0 \in X, N[0], s[1], P[1], 1 \in X, N[1], t, starts)
    BY <1>2, <1>4
  <2> QED BY <2>1, <1>2 DEF Decodes
<1>10. P[1] \in Port /\ N[1] \in Nat /\ g \in BOOLEAN
  BY <1>1, <1>2, <1>4
<1> QED BY <1>1, <1>8, <1>9, <1>10, Zenon DEF u, Takes

\* The text grows.
LEMMA Longer ==
  ASSUME NEW B, NEW t \in Seq(B), NEW b \in B, NEW s \in Seq(B),
         NEW p, NEW e, NEW n, NEW q, NEW f, NEW m, NEW starts, Leads(s, p, e, n, q, f, m, t, starts)
  PROVE  Leads(s, p, e, n, q, f, m, Append(t, b), starts)
<1> DEFINE L == Len(s)
           v == Append(t, b)
<1>1. \A i \in DOMAIN t : i \in DOMAIN v /\ v[i] = t[i]
  OBVIOUS
<1>2. PICK P \in [0 .. L -> Port], X \in SUBSET (0 .. L), N \in [0 .. L -> Nat] :
        /\ P[0] = p /\ (0 \in X <=> e) /\ N[0] = n
        /\ P[L] = q /\ (L \in X <=> f) /\ N[L] = m
        /\ \A i \in 1 .. L : Decodes(P[i - 1], i - 1 \in X, N[i - 1], s[i], P[i], i \in X, N[i], t, starts)
  BY Zenon DEF Leads
<1> HIDE DEF v
<1>3. ASSUME NEW i \in 1 .. L
      PROVE  Decodes(P[i - 1], i - 1 \in X, N[i - 1], s[i], P[i], i \in X, N[i], v, starts)
  BY <1>1, <1>2 DEF Decodes, Delivers
<1>4. Leads(s, p, e, n, q, f, m, v, starts)
  BY <1>2, <1>3, Zenon DEF Leads
<1> QED BY <1>4 DEF v

\* Selector and escape take the receiver where the sender wants it: what Frame puts on the line behind s
\* delivers b to the port, and the text of the keyboard has grown by it if that is the port.
LEMMA Framed ==
  ASSUME NEW s \in Seq(OnLine), NEW p, NEW e, NEW n, NEW q \in Port, NEW t \in Seq(OnLine), NEW starts,
         Leads(s, p, e, n, q, FALSE, Len(t), t, starts), NEW port \in Port, NEW b \in Data,
         NEW v \in Seq(OnLine), v = IF port = "kbd" THEN Append(t, b) ELSE t
  PROVE  /\ s \o Frame(q, port, b) \in Seq(OnLine)
         /\ Leads(s \o Frame(q, port, b), p, e, n, port, FALSE, Len(v), v, starts)
<1>1. Len(t) \in Nat /\ Len(v) \in Nat /\ b \in OnLine /\ {"KB", "MS", "ESC"} \subseteq OnLine
  BY DEF OnLine, Controls
<1>2. Leads(s, p, e, n, q, FALSE, Len(t), v, starts)
  BY <1>1, Longer
<1>3. Delivers(port, Len(t), b, Len(v), v)
  BY <1>1 DEF Delivers, Port
<1> DEFINE s1 == IF q # port THEN Append(s, Selector[port]) ELSE s
           s2 == IF b \in Controls THEN Append(s1, "ESC") ELSE s1
           s3 == Append(s2, b)
<1>4. s1 \in Seq(OnLine) /\ Leads(s1, p, e, n, port, FALSE, Len(t), v, starts)
  <2>1. CASE q = port
    BY <1>2, <2>1
  <2>2. CASE q # port
    <3>1. Selector[port] \in OnLine /\ Selector[port] = (IF port = "kbd" THEN "KB" ELSE "MS")
      BY <1>1 DEF Selector, Port
    <3>2. Decodes(q, FALSE, Len(t), Selector[port], port, FALSE, Len(t), v, starts)
      BY <3>1 DEF Decodes, Port, Controls
    <3>3. Append(s, Selector[port]) \in Seq(OnLine)
      BY <3>1
    <3>4. Leads(Append(s, Selector[port]), p, e, n, port, FALSE, Len(t), v, starts)
      BY <1>1, <1>2, <3>1, <3>2, Sent
    <3> QED BY <2>2, <3>3, <3>4
  <2> QED BY <2>1, <2>2
<1> HIDE DEF s1
<1>5. s3 \in Seq(OnLine) /\ Leads(s3, p, e, n, port, FALSE, Len(v), v, starts)
  <2>1. CASE b \in Controls
    <3>1. Decodes(port, FALSE, Len(t), "ESC", port, TRUE, Len(t), v, starts)
      BY DEF Decodes, Controls
    <3>2. Append(s1, "ESC") \in Seq(OnLine)
      BY <1>1, <1>4
    <3>3. Leads(Append(s1, "ESC"), p, e, n, port, TRUE, Len(t), v, starts)
      BY <1>1, <1>4, <3>1, Sent
    <3>4. Decodes(port, TRUE, Len(t), b, port, FALSE, Len(v), v, starts)
      BY <1>3 DEF Decodes
    <3>5. Leads(Append(Append(s1, "ESC"), b), p, e, n, port, FALSE, Len(v), v, starts)
      BY <1>1, <3>2, <3>3, <3>4, Sent
    <3>6. s2 = Append(s1, "ESC")
      BY <2>1
    <3> HIDE DEF s2
    <3>7. s3 \in Seq(OnLine)
      BY <1>1, <3>2, <3>6
    <3> QED BY <3>5, <3>6, <3>7
  <2>2. CASE b \notin Controls
    <3>1. Decodes(port, FALSE, Len(t), b, port, FALSE, Len(v), v, starts)
      BY <1>3, <2>2 DEF Decodes, Controls
    <3>2. Leads(Append(s1, b), p, e, n, port, FALSE, Len(v), v, starts)
      BY <1>1, <1>4, <3>1, Sent
    <3>3. s2 = s1
      BY <2>2
    <3> HIDE DEF s2
    <3>4. s3 \in Seq(OnLine)
      BY <1>1, <1>4, <3>3
    <3> QED BY <3>2, <3>3, <3>4
  <2> QED BY <2>1, <2>2
<1>6. s \o Frame(q, port, b) = s3
  <2>1. Selector[port] \in OnLine
    BY <1>1 DEF Selector, Port
  <2>2. CASE q # port /\ b \in Controls
    BY <1>1, <2>1, <2>2 DEF Frame, Coded, s1
  <2>3. CASE q # port /\ b \notin Controls
    BY <1>1, <2>1, <2>3 DEF Frame, Coded, s1
  <2>4. CASE q = port /\ b \in Controls
    BY <1>1, <2>1, <2>4 DEF Frame, Coded, s1
  <2>5. CASE q = port /\ b \notin Controls
    BY <1>1, <2>1, <2>5 DEF Frame, Coded, s1
  <2> QED BY <2>2, <2>3, <2>4, <2>5
<1> HIDE DEF s3
<1> QED BY <1>5, <1>6

LEMMA Fields ==
  ASSUME NEW x, NEW y, NEW z, NEW r, r = [esc |-> x, port |-> y, data |-> z]
  PROVE  r.esc = x /\ r.port = y /\ r.data = z
  OBVIOUS

LEMMA DecodedTypes ==
  ASSUME NEW b \in OnLine, NEW e \in BOOLEAN, NEW p \in Port, NEW other \in Port, NEW old \in Seq(OnLine),
         NEW d, d = Decoded(b, e, p, other, old)
  PROVE  d.esc \in BOOLEAN /\ d.port \in Port /\ d.data \in Seq(OnLine)
<1> DEFINE new == IF p = "kbd" THEN Append(old, b) ELSE old
           side == CASE b = "BSYNC" -> other [] b = "KB" -> "kbd" [] b = "MS" -> "mouse" [] OTHER -> p
<1>1. new \in Seq(OnLine) /\ side \in Port
  BY DEF Port
<1>2. \/ d = [esc |-> FALSE, port |-> p, data |-> new]
      \/ d = [esc |-> (b = "ESC"), port |-> side, data |-> old]
  BY Zenon DEF Decoded
<1>3. \/ d.esc = FALSE /\ d.port = p /\ d.data = new
      \/ d.esc = (b = "ESC") /\ d.port = side /\ d.data = old
  <2> HIDE DEF new, side
  <2> QED BY <1>2, Fields
<1> HIDE DEF new, side
<1> QED BY <1>1, <1>3

\* Decoded does what Decodes says, and keeps to the text.  A start it leaves to its caller.
Agrees(d, b, e, q, f, m, t, starts) ==
  /\ d.esc = f /\ d.data \in Seq(OnLine) /\ Len(d.data) = m /\ Follows(d.data, t)
  /\ IF b = "START" /\ ~e THEN starts /\ q = "kbd" ELSE d.port = q

LEMMA DecodedRight ==
  ASSUME NEW p \in Port, NEW e \in BOOLEAN, NEW b \in OnLine, NEW old \in Seq(OnLine), NEW t \in Seq(OnLine), NEW other,
         NEW q \in Port, NEW f \in BOOLEAN, NEW m \in Nat, NEW starts,
         Decodes(p, e, Len(old), b, q, f, m, t, starts), Follows(old, t),
         NEW d, d = Decoded(b, e, p, other, old)
  PROVE  Agrees(d, b, e, q, f, m, t, starts)
<1> USE DEF Agrees
<1> DEFINE new == IF p = "kbd" THEN Append(old, b) ELSE old
<1>1. new \in Seq(OnLine)
  OBVIOUS
<1>2. ASSUME Delivers(p, Len(old), b, m, t)
      PROVE  Len(new) = m /\ Follows(new, t)
  <2>1. CASE p = "kbd"
    <3>1. /\ new = Append(old, b) /\ m = Len(old) + 1 /\ m \in 1 .. Len(t) /\ t[m] = b
          /\ Len(new) = m /\ new[m] = b /\ \A i \in 1 .. Len(old) : new[i] = old[i]
      BY <1>2, <2>1 DEF Delivers
    <3> HIDE DEF new
    <3> QED BY <3>1 DEF Follows
  <2>2. CASE p # "kbd"
    BY <1>2, <2>2 DEF Delivers
  <2> QED BY <2>1, <2>2
<1> HIDE DEF new
<1>3. CASE e \/ b \notin Controls
  <2>1. d = [esc |-> FALSE, port |-> p, data |-> new]
    BY <1>3, Zenon DEF Decoded, new
  <2>2. d.esc = FALSE /\ d.port = p /\ d.data = new
    BY <2>1, Fields
  <2>3. q = p /\ f = FALSE /\ Delivers(p, Len(old), b, m, t) /\ ~(b = "START" /\ ~e)
    BY <1>3 DEF Decodes, Controls
  <2> QED BY <1>1, <1>2, <2>2, <2>3
<1>4. CASE ~e /\ b \in Controls
  <2> DEFINE side == CASE b = "BSYNC" -> other [] b = "KB" -> "kbd" [] b = "MS" -> "mouse" [] OTHER -> p
  <2>1. d = [esc |-> (b = "ESC"), port |-> side, data |-> old]
    BY <1>4, Zenon DEF Decoded
  <2>2. d.esc = (b = "ESC") /\ d.port = side /\ d.data = old
    BY <2>1, Fields
  <2>3. b \in {"ESC", "KB", "MS", "START"} /\ m = Len(old) /\ f = (b = "ESC") /\ (b = "START" => starts)
    BY <1>4 DEF Decodes, Controls
  <2>4. IF b = "START" THEN q = "kbd" ELSE q = side
    BY <1>4, <2>3 DEF Decodes
  <2> HIDE DEF side
  <2> QED BY <1>4, <2>2, <2>3, <2>4
<1> QED BY <1>3, <1>4

----------------------------------------------------------------------------
LEMMA InitLink == LinkInit => LinkInv
<1> SUFFICES ASSUME LinkInit PROVE LinkInv
  OBVIOUS
<1>1. LinkTypes
  <2>1. <<>> \in Seq(OnLine) /\ "kbd" \in Port /\ FALSE \in BOOLEAN
    BY DEF Port
  <2> QED BY <2>1, Zenon DEF LinkInit, LinkTypes
<1>2. \A starts : Leads(<<>>, "kbd", FALSE, 0, "kbd", FALSE, 0, <<>>, starts)
  BY Standing DEF Port
<1>3. Follows(<<>>, <<>>) /\ Len(<<>>) = 0
  BY DEF Follows
<1> QED BY <1>1, <1>2, <1>3, Zenon DEF LinkInv, LinkInit, UpOK, DownOK

LEMMA MuxSendsKeeps ==
  ASSUME LinkInv, NEW b \in Data, NEW port \in Port, MuxSends(port, b)
  PROVE  LinkInv'
<1> USE DEF LinkInv
<1>1. b \in OnLine /\ {up, typed, received} \subseteq Seq(OnLine) /\ muxOut \in Port
  BY DEF LinkTypes, OnLine
<1>2. /\ typed' \in Seq(OnLine) /\ typed' = IF port = "kbd" THEN Append(typed, b) ELSE typed
      /\ up' = up \o Frame(muxOut, port, b)
  BY <1>1 DEF MuxSends
<1>3. ASSUME ~Restart
      PROVE  UpOK' /\ up' \in Seq(OnLine)
  <2>1. Leads(up', inPort, escape, Len(received), port, FALSE, Len(typed'), typed', FALSE)
    BY <1>1, <1>2, <1>3, Framed DEF UpOK
  <2>2. Follows(received, typed')
    BY <1>1, <1>2, <1>3 DEF UpOK, Follows
  <2>3. up' \in Seq(OnLine)
    BY <1>1, <1>2, <1>3, Framed DEF UpOK
  <2>4. inPort' = inPort /\ escape' = escape /\ received' = received /\ muxOut' = port
    BY DEF MuxSends
  <2> QED BY <2>1, <2>2, <2>3, <2>4, Zenon DEF UpOK
<1>4. up' \in Seq(OnLine)
  <2>1. {"KB", "MS", "ESC"} \subseteq OnLine
    BY DEF OnLine, Controls
  <2>2. Selector[port] \in OnLine
    BY <2>1 DEF Selector, Port
  <2>3. Coded(b) \in Seq(OnLine)
    BY <1>1, <2>1 DEF Coded
  <2>4. Frame(muxOut, port, b) \in Seq(OnLine)
    BY <2>2, <2>3 DEF Frame
  <2> QED BY <1>1, <1>2, <2>4
<1>5. LinkTypes'
  BY <1>1, <1>2, <1>4 DEF LinkTypes, MuxSends
<1>6. DownOK'
  BY DEF DownOK, MuxSends
<1> QED BY <1>3, <1>5, <1>6

LEMMA KeyWriteDataKeeps ==
  ASSUME LinkInv, NEW b \in Data, KeyWriteData(b)
  PROVE  LinkInv'
<1> USE DEF LinkInv
<1>1. b \in OnLine /\ {toMux, sent, obeyed} \subseteq Seq(OnLine) /\ outPort \in Port /\ "kbd" \in Port
  BY DEF LinkTypes, OnLine, Port
<1>2. sent' \in Seq(OnLine) /\ sent' = Append(sent, b) /\ toMux' = toMux \o Frame(outPort, "kbd", b)
  BY <1>1 DEF KeyWriteData
<1>3. /\ toMux' \in Seq(OnLine)
      /\ Leads(toMux', muxIn, muxEsc, Len(obeyed), "kbd", FALSE, Len(sent'), sent', TRUE)
  BY <1>1, <1>2, Framed DEF DownOK
<1>4. Follows(obeyed, sent')
  BY <1>1, <1>2 DEF DownOK, Follows
<1>5. DownOK'
  BY <1>3, <1>4 DEF DownOK, KeyWriteData
<1>6. LinkTypes'
  BY <1>1, <1>2, <1>3 DEF LinkTypes, KeyWriteData
<1>7. ~Restart => UpOK'
  BY DEF UpOK, KeyWriteData
<1> QED BY <1>5, <1>6, <1>7

LEMMA FillKeeps ==
  ASSUME LinkInv, Ps2MultFillDataQueue
  PROVE  LinkInv'
<1> USE DEF LinkInv
<1> DEFINE b == Head(up)
<1>1. /\ up # <<>> /\ up' = Tail(up) /\ b \in OnLine
      /\ up \in Seq(OnLine) /\ typed \in Seq(OnLine) /\ received \in Seq(OnLine) /\ inPort \in Port /\ escape \in BOOLEAN
  BY DEF LinkTypes, Ps2MultFillDataQueue
<1>2. PICK d : d = Decoded(b, escape, inPort, outPort, received)
  OBVIOUS
<1>3. /\ escape' = d.esc /\ inPort' = d.port /\ received' = d.data
      /\ UNCHANGED <<outPort, toMux, muxOut, muxIn, muxEsc, typed, sent, obeyed>>
  BY <1>2 DEF Ps2MultFillDataQueue, Turn
<1>4. ASSUME ~Restart
      PROVE  UpOK'
  <2>1. PICK q \in Port, f \in BOOLEAN, m \in Nat :
          /\ Decodes(inPort, escape, Len(received), b, q, f, m, typed, FALSE)
          /\ Leads(Tail(up), q, f, m, muxOut, FALSE, Len(typed), typed, FALSE)
    <3>1. Leads(up, inPort, escape, Len(received), muxOut, FALSE, Len(typed), typed, FALSE)
      BY <1>4 DEF UpOK
    <3>2. up \in Seq(OnLine) /\ up # <<>>
      BY <1>1
    <3>3. Takes(up, inPort, escape, Len(received), muxOut, FALSE, Len(typed), typed, FALSE)
      BY <3>1, <3>2, Taken
    <3> QED BY <3>3, Zenon DEF Takes
  <2>2. Follows(received, typed)
    BY <1>4 DEF UpOK
  <2>3. d.esc = f /\ Len(d.data) = m /\ Follows(d.data, typed) /\ d.port = q
    <3> HIDE DEF b
    <3>1. inPort \in Port /\ escape \in BOOLEAN /\ b \in OnLine /\ received \in Seq(OnLine) /\ typed \in Seq(OnLine)
      BY <1>1
    <3>2. Decodes(inPort, escape, Len(received), b, q, f, m, typed, FALSE)
      BY <2>1
    <3>3. Agrees(d, b, escape, q, f, m, typed, FALSE)
      BY <1>2, <2>2, <3>1, <3>2, DecodedRight
    <3> QED BY <3>3, Zenon DEF Agrees
  <2> QED BY <1>1, <1>3, <2>1, <2>3 DEF UpOK
<1>5. DownOK'
  BY <1>3 DEF DownOK
<1>6. d.esc \in BOOLEAN /\ d.port \in Port /\ d.data \in Seq(OnLine)
  BY <1>1, <1>2, DecodedTypes DEF LinkTypes
<1>7. LinkTypes'
  BY <1>1, <1>3, <1>6 DEF LinkTypes
<1> QED BY <1>4, <1>5, <1>7

LEMMA MuxReceivesKeeps ==
  ASSUME LinkInv, MuxReceives
  PROVE  LinkInv'
<1> USE DEF LinkInv
<1> DEFINE b == Head(toMux)
<1>1. /\ toMux # <<>> /\ toMux' = Tail(toMux) /\ b \in OnLine
      /\ toMux \in Seq(OnLine) /\ sent \in Seq(OnLine) /\ obeyed \in Seq(OnLine) /\ muxIn \in Port /\ muxEsc \in BOOLEAN
  BY DEF LinkTypes, MuxReceives
<1>2. PICK d : d = Decoded(b, muxEsc, muxIn, muxOut, obeyed)
  OBVIOUS
<1>3. /\ muxEsc' = d.esc /\ obeyed' = d.data
      /\ muxIn' = (IF b = "START" /\ ~muxEsc THEN "kbd" ELSE d.port)
      /\ UNCHANGED <<outPort, inPort, escape, up, muxOut, typed, received, sent>>
  BY <1>2 DEF MuxReceives
<1>4. DownOK'
  <2>1. PICK q \in Port, f \in BOOLEAN, m \in Nat :
          /\ Decodes(muxIn, muxEsc, Len(obeyed), b, q, f, m, sent, TRUE)
          /\ Leads(Tail(toMux), q, f, m, outPort, FALSE, Len(sent), sent, TRUE)
    <3>1. Leads(toMux, muxIn, muxEsc, Len(obeyed), outPort, FALSE, Len(sent), sent, TRUE)
      BY DEF DownOK
    <3>2. toMux \in Seq(OnLine) /\ toMux # <<>>
      BY <1>1
    <3>3. Takes(toMux, muxIn, muxEsc, Len(obeyed), outPort, FALSE, Len(sent), sent, TRUE)
      BY <3>1, <3>2, Taken
    <3> QED BY <3>3, Zenon DEF Takes
  <2>2. Follows(obeyed, sent)
    BY DEF DownOK
  <2>3. /\ d.esc = f /\ Len(d.data) = m /\ Follows(d.data, sent)
        /\ IF b = "START" /\ ~muxEsc THEN q = "kbd" ELSE d.port = q
    <3> HIDE DEF b
    <3>1. muxIn \in Port /\ muxEsc \in BOOLEAN /\ b \in OnLine /\ obeyed \in Seq(OnLine) /\ sent \in Seq(OnLine)
      BY <1>1
    <3>2. Decodes(muxIn, muxEsc, Len(obeyed), b, q, f, m, sent, TRUE)
      BY <2>1
    <3>3. Agrees(d, b, muxEsc, q, f, m, sent, TRUE)
      BY <1>2, <2>2, <3>1, <3>2, DecodedRight
    <3> QED BY <3>3, Zenon DEF Agrees
  <2>4. muxIn' = q
    BY <1>3, <2>3
  <2> QED BY <1>1, <1>3, <2>1, <2>3, <2>4 DEF DownOK
<1>5. ~Restart => UpOK'
  BY <1>3 DEF UpOK
<1>6. d.esc \in BOOLEAN /\ d.port \in Port /\ d.data \in Seq(OnLine)
  BY <1>1, <1>2, DecodedTypes DEF LinkTypes
<1>7. muxIn' \in Port
  BY <1>3, <1>6 DEF Port
<1>8. LinkTypes'
  BY <1>1, <1>3, <1>6, <1>7 DEF LinkTypes
<1> QED BY <1>4, <1>5, <1>8

LEMMA StartKeeps ==
  ASSUME LinkInv, Ps2MultStart
  PROVE  LinkInv'
<1> USE DEF LinkInv
<1>1. /\ toMux \in Seq(OnLine) /\ sent \in Seq(OnLine) /\ received \in Seq(OnLine)
      /\ "START" \in OnLine /\ outPort \in Port /\ inPort \in Port /\ "kbd" \in Port
  BY DEF LinkTypes, OnLine, Controls, Port
<1>2. Decodes(outPort, FALSE, Len(sent), "START", "kbd", FALSE, Len(sent), sent, TRUE)
  BY DEF Decodes, Controls
<1>3. Leads(Append(toMux, "START"), muxIn, muxEsc, Len(obeyed), "kbd", FALSE, Len(sent), sent, TRUE)
  <2>1. Leads(toMux, muxIn, muxEsc, Len(obeyed), outPort, FALSE, Len(sent), sent, TRUE)
    BY DEF DownOK
  <2>2. Len(sent) \in Nat /\ FALSE \in BOOLEAN
    BY <1>1
  <2> QED BY <1>1, <1>2, <2>1, <2>2, Sent, Zenon
<1>4. DownOK'
  BY <1>3 DEF DownOK, Ps2MultStart
<1>5. LinkTypes'
  BY <1>1 DEF LinkTypes, Ps2MultStart
<1>6. ASSUME ~Restart
      PROVE  UpOK'
  <2>1. up = <<>> /\ muxOut = "kbd" /\ inPort' = "kbd"
    BY <1>6 DEF Ps2MultStart
  <2>2. inPort = "kbd"
    <3>1. Leads(up, inPort, escape, Len(received), muxOut, FALSE, Len(typed), typed, FALSE)
      BY <1>6 DEF UpOK
    <3>2. Len(received) \in Nat
      BY <1>1
    <3> QED BY <1>1, <2>1, <3>1, <3>2, Emptied, Zenon
  <2> QED BY <1>6, <2>1, <2>2 DEF UpOK, Ps2MultStart
<1> QED BY <1>4, <1>5, <1>6

LEMMA LinkStep == LinkInv /\ [LinkNext]_linkVars => LinkInv'
<1> SUFFICES ASSUME LinkInv, [LinkNext]_linkVars PROVE LinkInv'
  OBVIOUS
<1>1. CASE Ps2MultFillDataQueue
  BY <1>1, FillKeeps
<1>2. CASE MuxReceives
  BY <1>2, MuxReceivesKeeps
<1>3. CASE Ps2MultStart
  BY <1>3, StartKeeps
<1>4. ASSUME NEW b \in Data, KeyWriteData(b) PROVE LinkInv'
  BY <1>4, KeyWriteDataKeeps
<1>5. ASSUME NEW b \in Data, NEW port \in {"kbd", "mouse"}, MuxSends(port, b) PROVE LinkInv'
  BY <1>5, MuxSendsKeeps DEF Port
<1>6. CASE UNCHANGED linkVars
  BY <1>6 DEF linkVars, LinkInv, LinkTypes, UpOK, DownOK
<1> QED BY <1>1, <1>2, <1>3, <1>4, <1>5, <1>6 DEF LinkNext

LEMMA FollowsIsPrefix ==
  ASSUME NEW B, NEW got \in Seq(B), NEW text \in Seq(B), Follows(got, text)
  PROVE  IsPrefix(got, text)
  BY DEF Follows, IsPrefix

\* Selectors and escapes are lossless and keep the ports apart on the way down, whenever sessions start:
\* the keyboard obeys the bytes the host sent it, unescaped and in order (Ps2MultKeyWriteData).
THEOREM CommandsReachKeyboard == LinkSpec => []IsPrefix(obeyed, sent)
<1>1. LinkInv => IsPrefix(obeyed, sent)
  BY FollowsIsPrefix DEF LinkInv, LinkTypes, DownOK
<1> QED BY <1>1, InitLink, LinkStep, PTL DEF LinkSpec

\* And in both directions, if no session starts while bytes of the mouse are on the line.
THEOREM PortsStayApart ==
  ASSUME ~Restart
  PROVE  LinkSpec => []PortsKeptApart
<1>1. LinkInv => PortsKeptApart
  BY FollowsIsPrefix DEF LinkInv, LinkTypes, DownOK, UpOK, PortsKeptApart
<1> QED BY <1>1, InitLink, LinkStep, PTL DEF LinkSpec

----------------------------------------------------------------------------
(* The keyboard. *)

\* A set of naturals that is not empty has a least element.
LEMMA NatMin ==
  ASSUME NEW T, T \subseteq Nat, T # {}
  PROVE  \E x \in T : \A y \in T : x <= y
<1> DEFINE R == {ss \in Nat \X Nat : ss[1] < ss[2]}
<1>1. IsWellFoundedOn(R, Nat)
  BY NatLessThanWellFounded DEF OpToRel
<1> HIDE DEF R
<1>2. PICK x \in T : \A y \in T : ~(<<y, x>> \in R)
  BY <1>1, WFMin
<1>3. ASSUME NEW y \in T PROVE x <= y
  <2> DEFINE ss == <<y, x>>
  <2>1. ~(ss \in R)
    BY <1>2
  <2>2. ss \in Nat \X Nat /\ ss[1] = y /\ ss[2] = x
    OBVIOUS
  <2>3. ~(ss[1] < ss[2])
    BY <2>1, <2>2 DEF R
  <2> QED BY <2>2, <2>3
<1> QED BY <1>3

\* Both parts of a sequence that is cut in two.
LEMMA Cut ==
  ASSUME NEW S, NEW s \in Seq(S), NEW n \in 0 .. Len(s)
  PROVE  /\ SubSeq(s, 1, n) \in Seq(S) /\ Len(SubSeq(s, 1, n)) = n
         /\ SubSeq(s, n + 1, Len(s)) \in Seq(S)
         /\ Len(SubSeq(s, n + 1, Len(s))) = Len(s) - n
         /\ SubSeq(s, 1, n) \o SubSeq(s, n + 1, Len(s)) = s
<1>1. Len(s) \in Nat /\ \A i \in 1 .. Len(s) : s[i] \in S
  BY LenProperties, ElementOfSeq
<1>2. /\ SubSeq(s, 1, n) \in Seq(S)
      /\ Len(SubSeq(s, 1, n)) = IF 1 <= n THEN n - 1 + 1 ELSE 0
  BY <1>1, SubSeqProperties
<1>3. /\ SubSeq(s, n + 1, Len(s)) \in Seq(S)
      /\ Len(SubSeq(s, n + 1, Len(s))) = IF n + 1 <= Len(s) THEN Len(s) - (n + 1) + 1 ELSE 0
  BY <1>1, SubSeqProperties
<1>4. SubSeq(s, 1, n) \o SubSeq(s, n + 1, Len(s)) = SubSeq(s, 1, Len(s))
  <2>1. 1 \in 1 .. Len(s) + 1 /\ n \in 1 - 1 .. Len(s) /\ Len(s) \in n .. Len(s)
    BY <1>1
  <2> QED BY <2>1, ConcatAdjacentSubSeq
<1>5. SubSeq(s, 1, Len(s)) = s
  BY SubSeqFull
<1>6. Len(SubSeq(s, 1, n)) = n
  <2> DEFINE x == Len(SubSeq(s, 1, n))
  <2>1. x = IF 1 <= n THEN n - 1 + 1 ELSE 0
    BY <1>2
  <2> HIDE DEF x
  <2>2. x = n
    BY <2>1, <1>1
  <2> QED BY <2>2 DEF x
<1>7. Len(SubSeq(s, n + 1, Len(s))) = Len(s) - n
  <2> DEFINE x == Len(SubSeq(s, n + 1, Len(s)))
             l == Len(s)
  <2>1. x = (IF n + 1 <= l THEN l - (n + 1) + 1 ELSE 0) /\ l \in Nat /\ n \in 0 .. l
    BY <1>3, <1>1
  <2> HIDE DEF x, l
  <2>2. x = l - n
    BY <2>1
  <2> QED BY <2>2 DEF x, l
<1>8. SubSeq(s, 1, n) \o SubSeq(s, n + 1, Len(s)) = s
  BY <1>4, <1>5, Zenon
<1> QED BY <1>2, <1>3, <1>6, <1>7, <1>8, Zenon

\* What a full queue keeps of what is pushed into it.
LEMMA NewestFacts ==
  ASSUME NEW S, NEW s \in Seq(S), NEW max \in Nat \ {0}
  PROVE  /\ Newest(s, max) \in Seq(S)
         /\ Len(Newest(s, max)) <= max
         /\ Len(s) <= max => Newest(s, max) = s
<1> DEFINE n == IF Len(s) > max THEN Len(s) - max ELSE 0
<1>1. Len(s) \in Nat
  BY LenProperties
<1>2. n \in 0 .. Len(s) /\ Len(s) - n <= max
  BY <1>1
<1>3. Newest(s, max) = SubSeq(s, n + 1, Len(s))
  BY <1>1 DEF Newest
<1>4. SubSeq(s, n + 1, Len(s)) \in Seq(S) /\ Len(SubSeq(s, n + 1, Len(s))) = Len(s) - n
  BY <1>2, Cut
<1>5. Len(s) <= max => n = 0
  BY <1>1
<1>6. SubSeq(s, 0 + 1, Len(s)) = s
  BY SubSeqFull
<1> QED BY <1>2, <1>3, <1>4, <1>5, <1>6

\* The key KeyGetchar finds at the head of its queue.
LEMMA HeadKeyFacts ==
  ASSUME NEW q \in Seq(Byte), Complete(q), NEW k, k = HeadKey(q)
  PROVE  /\ k.len \in 1 .. Len(q)
         /\ ModOf(k) \in SUBSET {"shift", "ctrl"}
         /\ LockOf(k) \in SUBSET {"caps", "num"}
         /\ Converted(k) \in SUBSET AllKeys
<1>1. Len(q) \in Nat \ {0} /\ \A i \in 1 .. Len(q) : q[i] \in Byte
  BY LenProperties, EmptySeq, ElementOfSeq DEF Complete
<1>2. Start(q) \in 1 .. Len(q)
  BY <1>1 DEF Start, Complete
<1>3. k.len = IF q[Start(q)] = "F0" THEN Start(q) + 1 ELSE Start(q)
  BY DEF HeadKey
<1>4. k.len \in 1 .. Len(q)
  BY <1>1, <1>2, <1>3 DEF Complete
<1>5. ModOf(k) \in SUBSET {"shift", "ctrl"}
  BY DEF ModOf
<1>6. LockOf(k) \in SUBSET {"caps", "num"}
  BY DEF LockOf
<1>7. Converted(k) \in SUBSET AllKeys
  BY DEF Converted, AllKeys
<1> QED BY <1>4, <1>5, <1>6, <1>7

----------------------------------------------------------------------------
(* The types. *)

\* The parts of the type invariant, to be cited one by one.
UserTypes == held \subseteq AllKeys /\ awaited \in Seq(KeyStroke) /\ events \in Nat
LineTypes == wire \in Seq(Byte) /\ down \in Seq(Command) /\ leds \in SUBSET {"caps", "num"}
QueueTypes == /\ inq \in Seq(Byte) /\ Len(inq) <= InMax
              /\ scanq \in Seq(Byte) /\ Len(scanq) <= ScanMax
              /\ keyq \in Seq(KeyStroke) /\ Len(keyq) <= KeyMax
StateTypes == /\ mods \in SUBSET {"shift", "ctrl"} /\ locks \in SUBSET {"caps", "num"}
              /\ enabled \in BOOLEAN
HistoryTypes == lost \in BOOLEAN /\ phantom \in BOOLEAN
Stage == {"idle", "take", "push", "getchar", "lights", "ack1", "command", "ack2", "read"}
ContextTypes == /\ pc \in [Context -> Stage]
                /\ hand \in [Context -> Byte \cup {"none"}]
                /\ \A c \in Context : pc[c] = "push" => hand[c] \in Byte

LEMMA TypeParts ==
  KbdTypeOK <=> UserTypes /\ LineTypes /\ QueueTypes /\ StateTypes /\ HistoryTypes /\ ContextTypes
  BY DEF KbdTypeOK, UserTypes, LineTypes, QueueTypes, StateTypes, HistoryTypes, ContextTypes, Stage

LEMMA TypePartsNext ==
  ASSUME UserTypes', LineTypes', QueueTypes', StateTypes', HistoryTypes', ContextTypes'
  PROVE  KbdTypeOK'
  BY DEF KbdTypeOK, UserTypes, LineTypes, QueueTypes, StateTypes, HistoryTypes, ContextTypes, Stage

\* What the keys send.
LEMMA KeyBytes ==
  ASSUME NEW k \in AllKeys
  PROVE  MakeOf[k] \in Seq(Byte) /\ BreakOf[k] \in Seq(Byte)
<1>1. CASE k = "slash"
  BY <1>1 DEF MakeOf, BreakOf, Byte
<1>2. CASE k = "kpslash"
  BY <1>2 DEF MakeOf, BreakOf, Byte
<1>3. CASE k = "shift"
  BY <1>3 DEF MakeOf, BreakOf, Byte
<1>4. CASE k = "caps"
  BY <1>4 DEF MakeOf, BreakOf, Byte
<1>5. CASE k = "pause"
  BY <1>5 DEF MakeOf, BreakOf, Byte
<1> QED BY <1>1, <1>2, <1>3, <1>4, <1>5 DEF AllKeys

\* A context moves on, to a stage other than that of a byte in its hand.
LEMMA GotoTypes ==
  ASSUME ContextTypes, NEW c \in Context, NEW l \in Stage \ {"push"}, Goto(c, l),
         hand' = hand \/ hand' = [hand EXCEPT ![c] = "none"]
  PROVE  ContextTypes'
  BY DEF ContextTypes, Goto, Stage

LEMMA AfterPacketStage ==
  ASSUME NEW c \in Context
  PROVE  AfterPacket(c) \in Stage \ {"push"}
  BY DEF AfterPacket, Stage

LEMMA PressTypes ==
  ASSUME KbdTypeOK, KeyboardAssumption, NEW k \in Keys, KbdPress(k)
  PROVE  KbdTypeOK'
<1>1. k \in AllKeys
  BY DEF KeyboardAssumption
<1>2. MakeOf[k] \in Seq(Byte)
  BY <1>1, KeyBytes
<1>3. wire' \in Seq(Byte)
  BY <1>2, ConcatProperties DEF KbdPress, KbdTypeOK
<1>4. [key |-> k, mods |-> held \cap {"shift"}] \in KeyStroke
  BY <1>1 DEF KeyStroke
<1>5. awaited' \in Seq(KeyStroke)
  BY <1>4, AppendProperties DEF KbdPress, KbdTypeOK
<1>6. UserTypes' /\ LineTypes'
  BY <1>1, <1>3, <1>5, TypeParts DEF UserTypes, LineTypes, KbdPress
<1>7. QueueTypes' /\ StateTypes' /\ HistoryTypes' /\ ContextTypes'
  BY TypeParts DEF KbdPress, QueueTypes, StateTypes, HistoryTypes, ContextTypes, queueVars, stateVars, ctxVars
<1> QED BY <1>6, <1>7, TypePartsNext

LEMMA ReleaseTypes ==
  ASSUME KbdTypeOK, KeyboardAssumption, NEW k \in Keys, KbdRelease(k)
  PROVE  KbdTypeOK'
<1>1. k \in AllKeys
  BY DEF KeyboardAssumption
<1>2. BreakOf[k] \in Seq(Byte)
  BY <1>1, KeyBytes
<1>3. wire' \in Seq(Byte)
  BY <1>2, ConcatProperties DEF KbdRelease, KbdTypeOK
<1>6. UserTypes' /\ LineTypes'
  BY <1>1, <1>3, TypeParts DEF UserTypes, LineTypes, KbdRelease
<1>7. QueueTypes' /\ StateTypes' /\ HistoryTypes' /\ ContextTypes'
  BY TypeParts DEF KbdRelease, QueueTypes, StateTypes, HistoryTypes, ContextTypes, queueVars, stateVars, ctxVars
<1> QED BY <1>6, <1>7, TypePartsNext

LEMMA AnswerTypes ==
  ASSUME KbdTypeOK, KbdAnswer
  PROVE  KbdTypeOK'
<1>1. Head(down) \in Command /\ Tail(down) \in Seq(Command)
  BY HeadTailProperties DEF KbdAnswer, KbdTypeOK
<1>2. Head(down).cmd = "lights" => Head(down).arg \in SUBSET {"caps", "num"}
  BY <1>1 DEF Command
<1>3. wire' \in Seq(Byte)
  BY AppendProperties DEF KbdAnswer, KbdTypeOK, Byte
<1>4. LineTypes'
  BY <1>1, <1>2, <1>3, TypeParts DEF LineTypes, KbdAnswer
<1>5. UserTypes' /\ QueueTypes' /\ StateTypes' /\ HistoryTypes' /\ ContextTypes'
  BY TypeParts DEF KbdAnswer, UserTypes, QueueTypes, StateTypes, HistoryTypes, ContextTypes, userVars, queueVars, stateVars, ctxVars
<1> QED BY <1>4, <1>5, TypePartsNext

LEMMA TimerTypes ==
  ASSUME KbdTypeOK, TimerFires \/ ReadKeyStroke
  PROVE  KbdTypeOK'
<1>1. PICK c \in Context, l \in {"take", "read"} : Goto(c, l)
  BY DEF TimerFires, ReadKeyStroke, Context
<1>2. UserTypes' /\ LineTypes' /\ QueueTypes' /\ StateTypes' /\ HistoryTypes' /\ hand' = hand
  BY TypeParts DEF TimerFires, ReadKeyStroke, UserTypes, LineTypes, QueueTypes, StateTypes, HistoryTypes,
                   userVars, queueVars, stateVars
<1>3. ContextTypes'
  BY <1>1, <1>2, TypeParts, GotoTypes DEF Stage
<1> QED BY <1>2, <1>3, TypePartsNext

\* The stroke that is taken for the one returned.
LEMMA MadeFacts ==
  ASSUME NEW T, NEW s \in Seq(T), NEW P \in SUBSET DOMAIN s, P # {}
  PROVE  /\ Min(P) \in P
         /\ RemoveAt(s, Min(P)) \in Seq(T)
         /\ \A y \in P : Min(P) <= y
<1>1. DOMAIN s = 1 .. Len(s) /\ Len(s) \in Nat /\ \A i \in 1 .. Len(s) : s[i] \in T
  BY LenProperties, ElementOfSeq
<1>2. P \subseteq Nat
  BY <1>1
<1>3. \E x \in P : \A y \in P : x <= y
  BY <1>2, NatMin
<1>4. Min(P) \in P /\ \A y \in P : Min(P) <= y
  BY <1>3 DEF Min
<1>5. SubSeq(s, 1, Min(P) - 1) \in Seq(T) /\ SubSeq(s, Min(P) + 1, Len(s)) \in Seq(T)
  <2>1. Min(P) \in 1 .. Len(s)
    BY <1>4, <1>1
  <2>2. Min(P) - 1 \in 0 .. Len(s) /\ Min(P) \in 0 .. Len(s)
    BY <2>1, <1>1
  <2> QED BY <2>2, Cut
<1>6. RemoveAt(s, Min(P)) \in Seq(T)
  BY <1>5, ConcatProperties DEF RemoveAt
<1> QED BY <1>4, <1>6

LEMMA ReadKeyTypes ==
  ASSUME KbdTypeOK, ReadKey
  PROVE  KbdTypeOK'
<1>1. ContextTypes'
  BY TypeParts, GotoTypes DEF ReadKey, Context, Stage
<1>2. LineTypes' /\ StateTypes'
  BY TypeParts DEF ReadKey, LineTypes, StateTypes, stateVars
<1>3. CASE keyq = <<>>
  <2>1. UserTypes' /\ QueueTypes' /\ HistoryTypes'
    BY <1>3, TypeParts DEF ReadKey, UserTypes, QueueTypes, HistoryTypes
  <2> QED BY <1>1, <1>2, <2>1, TypePartsNext
<1>4. CASE keyq # <<>>
  <2> DEFINE made == {i \in DOMAIN awaited : awaited[i].key = Head(keyq).key}
  <2>1. keyq' = Tail(keyq) /\ Tail(keyq) \in Seq(KeyStroke) /\ Len(Tail(keyq)) = Len(keyq) - 1 /\ Len(keyq) \in Nat
    BY <1>4, HeadTailProperties, LenProperties DEF ReadKey, KbdTypeOK
  <2>2. awaited' \in Seq(KeyStroke) /\ phantom' \in BOOLEAN
    <3>1. CASE made = {}
      BY <3>1, <1>4 DEF ReadKey, KbdTypeOK
    <3>2. CASE made # {}
      <4>1. made \in SUBSET DOMAIN awaited /\ awaited \in Seq(KeyStroke)
        BY DEF KbdTypeOK
      <4>2. awaited' = RemoveAt(awaited, Min(made)) /\ phantom' = phantom
        BY <3>2, <1>4 DEF ReadKey
      <4> HIDE DEF made
      <4>3. RemoveAt(awaited, Min(made)) \in Seq(KeyStroke)
        BY <4>1, <3>2, MadeFacts
      <4> QED BY <4>2, <4>3 DEF KbdTypeOK
    <3> QED BY <3>1, <3>2
  <2>3. held' = held /\ events' = events /\ inq' = inq /\ scanq' = scanq /\ lost' = lost
    BY DEF ReadKey
  <2>4. KeyMax \in Nat /\ Len(Tail(keyq)) <= KeyMax
    BY <2>1, KeyboardAssumption DEF KeyboardAssumption, KbdTypeOK
  <2>5. UserTypes' /\ QueueTypes' /\ HistoryTypes'
    BY <2>1, <2>2, <2>3, <2>4, TypeParts DEF UserTypes, QueueTypes, HistoryTypes
  <2> QED BY <1>1, <1>2, <2>5, TypePartsNext
<1> QED BY <1>3, <1>4

LEMMA SetStateTypes ==
  ASSUME KbdTypeOK, NEW v \in Toggles, SetState(v)
  PROVE  KbdTypeOK'
<1>1. ContextTypes'
  BY TypeParts, GotoTypes DEF SetState, Context, Stage
<1>2. v \in SUBSET {"caps", "num"}
  BY KeyboardAssumption DEF KeyboardAssumption
<1>3. UserTypes' /\ LineTypes' /\ QueueTypes' /\ StateTypes' /\ HistoryTypes'
  BY <1>2, TypeParts DEF SetState, UserTypes, LineTypes, QueueTypes, StateTypes, HistoryTypes, userVars, queueVars
<1> QED BY <1>1, <1>3, TypePartsNext

\* What is left when the first n bytes of the line are taken.
LEMMA FillTypes ==
  ASSUME KbdTypeOK, NEW n \in 1 .. Len(wire), Fill(n)
  PROVE  /\ wire' \in Seq(Byte) /\ inq' \in Seq(Byte) /\ Len(inq') <= InMax /\ lost' \in BOOLEAN
         /\ ~lost' => ~lost /\ inq' \o wire' = wire
<1>1. wire \in Seq(Byte) /\ Len(wire) \in Nat /\ InMax \in Nat \ {0} /\ lost \in BOOLEAN
  BY LenProperties, KeyboardAssumption DEF KbdTypeOK, KeyboardAssumption
<1>2. n \in 0 .. Len(wire)
  BY <1>1
<1> DEFINE front == SubSeq(wire, 1, n)
           back  == SubSeq(wire, n + 1, Len(wire))
<1>3. front \in Seq(Byte) /\ Len(front) = n /\ back \in Seq(Byte) /\ front \o back = wire
  BY <1>1, <1>2, Cut
<1>4. inq' = Newest(front, InMax) /\ wire' = back /\ lost' = (lost \/ n > InMax)
  BY DEF Fill
<1> HIDE DEF front, back
<1>5. /\ Newest(front, InMax) \in Seq(Byte) /\ Len(Newest(front, InMax)) <= InMax
      /\ Len(front) <= InMax => Newest(front, InMax) = front
  BY <1>1, <1>3, NewestFacts
<1>6. lost' \in BOOLEAN
  BY <1>4
<1>7. ~lost' => ~lost /\ inq' \o wire' = wire
  <2> SUFFICES ASSUME ~lost' PROVE ~lost /\ inq' \o wire' = wire
    OBVIOUS
  <2>a. ~(lost \/ n > InMax)
    BY <1>4, Zenon
  <2>1. ~lost /\ n <= InMax
    BY <2>a, <1>1, <1>2
  <2>2. inq' = front
    BY <2>1, <1>3, <1>4, <1>5
  <2> QED BY <2>1, <2>2, <1>3, <1>4
<1> QED BY <1>3, <1>4, <1>5, <1>6, <1>7

LEMMA TakeFillTypes ==
  ASSUME KbdTypeOK, NEW c \in Context, TakeFill(c) \/ AckFill(c)
  PROVE  KbdTypeOK'
<1>1. PICK n \in 1 .. Len(wire) : Fill(n)
  BY DEF TakeFill, AckFill
<1>2. wire' \in Seq(Byte) /\ inq' \in Seq(Byte) /\ Len(inq') <= InMax /\ lost' \in BOOLEAN
  BY <1>1, FillTypes
<1>3. LineTypes' /\ QueueTypes' /\ HistoryTypes'
  BY <1>2, TypeParts DEF TakeFill, AckFill, LineTypes, QueueTypes, HistoryTypes, ctxVars
<1>4. UserTypes' /\ StateTypes' /\ ContextTypes'
  BY TypeParts DEF TakeFill, AckFill, UserTypes, StateTypes, ContextTypes, userVars, stateVars, ctxVars
<1> QED BY <1>3, <1>4, TypePartsNext

\* The first byte of the input data queue.
LEMMA InputTypes ==
  ASSUME KbdTypeOK, inq # <<>>
  PROVE  /\ Head(inq) \in Byte /\ Tail(inq) \in Seq(Byte) /\ Len(Tail(inq)) <= InMax
         /\ <<Head(inq)>> \o Tail(inq) = inq
<1>1. inq \in Seq(Byte) /\ Len(inq) \in Nat /\ InMax \in Nat /\ Len(inq) <= InMax
  BY LenProperties, KeyboardAssumption DEF KbdTypeOK, KeyboardAssumption
<1>2. Head(inq) \in Byte /\ Tail(inq) \in Seq(Byte) /\ Len(Tail(inq)) = Len(inq) - 1
  BY <1>1, HeadTailProperties
<1>3. Len(Tail(inq)) <= InMax
  BY <1>1, <1>2
<1>4. <<Head(inq)>> \o Tail(inq) = inq
  <2>1. Len(inq) \in Nat \ {0} /\ 1 \in 1 .. Len(inq) /\ Len(inq) \in 1 .. Len(inq)
    BY <1>1, EmptySeq
  <2>2. SubSeq(inq, 1, Len(inq)) = <<inq[1]>> \o SubSeq(inq, 1 + 1, Len(inq))
    BY <1>1, <2>1, SubSeqRecursiveFirst
  <2>3. SubSeq(inq, 1, Len(inq)) = inq
    BY <1>1, SubSeqFull
  <2>4. Tail(inq) = SubSeq(inq, 2, Len(inq))
    BY <1>1, TailIsSubSeq
  <2>5. Head(inq) = inq[1] /\ 1 + 1 = 2
    BY <1>1
  <2> QED BY <2>2, <2>3, <2>4, <2>5
<1> QED BY <1>2, <1>3, <1>4

LEMMA TakeByteTypes ==
  ASSUME KbdTypeOK, NEW c \in Context, TakeByte(c)
  PROVE  KbdTypeOK'
<1>1. Head(inq) \in Byte /\ Tail(inq) \in Seq(Byte) /\ Len(Tail(inq)) <= InMax
  BY InputTypes DEF TakeByte
<1>2. ContextTypes'
  BY <1>1, TypeParts DEF ContextTypes, TakeByte, Goto, Stage
<1>3. LineTypes' /\ QueueTypes' /\ HistoryTypes'
  BY <1>1, TypeParts DEF TakeByte, LineTypes, QueueTypes, HistoryTypes
<1>4. UserTypes' /\ StateTypes'
  BY TypeParts DEF TakeByte, UserTypes, StateTypes, userVars, stateVars
<1> QED BY <1>2, <1>3, <1>4, TypePartsNext

\* A byte more in the scan code queue.
LEMMA ScanPushTypes ==
  ASSUME KbdTypeOK, NEW b \in Byte
  PROVE  /\ Newest(Append(scanq, b), ScanMax) \in Seq(Byte)
         /\ Len(Newest(Append(scanq, b), ScanMax)) <= ScanMax
         /\ Len(scanq) # ScanMax => Newest(Append(scanq, b), ScanMax) = scanq \o <<b>>
<1>1. scanq \in Seq(Byte) /\ Len(scanq) \in Nat /\ ScanMax \in Nat \ {0} /\ Len(scanq) <= ScanMax
  BY LenProperties, KeyboardAssumption DEF KbdTypeOK, KeyboardAssumption
<1> DEFINE more == Append(scanq, b)
<1>2. more \in Seq(Byte) /\ Len(more) = Len(scanq) + 1 /\ more = scanq \o <<b>>
  BY <1>1, AppendProperties, AppendIsConcat
<1> HIDE DEF more
<1>3. Len(scanq) # ScanMax => Len(more) <= ScanMax
  BY <1>1, <1>2
<1>4. /\ Newest(more, ScanMax) \in Seq(Byte) /\ Len(Newest(more, ScanMax)) <= ScanMax
      /\ Len(more) <= ScanMax => Newest(more, ScanMax) = more
  BY <1>1, <1>2, NewestFacts
<1> QED BY <1>2, <1>3, <1>4 DEF more

LEMMA PushScancodeTypes ==
  ASSUME KbdTypeOK, NEW c \in Context, PushScancode(c)
  PROVE  KbdTypeOK'
<1>1. hand[c] \in Byte
  BY DEF KbdTypeOK, PushScancode
<1>2. scanq' \in Seq(Byte) /\ Len(scanq') <= ScanMax
  BY <1>1, ScanPushTypes DEF PushScancode
<1>3. ContextTypes'
  BY TypeParts, GotoTypes DEF PushScancode, Stage
<1>4. QueueTypes' /\ HistoryTypes'
  BY <1>2, TypeParts DEF PushScancode, QueueTypes, HistoryTypes
<1>5. UserTypes' /\ LineTypes' /\ StateTypes'
  BY TypeParts DEF PushScancode, UserTypes, LineTypes, StateTypes, userVars, stateVars
<1> QED BY <1>3, <1>4, <1>5, TypePartsNext

LEMMA NothingTypes ==
  ASSUME KbdTypeOK, NEW c \in Context, TakeNothing(c) \/ GetcharNothing(c)
  PROVE  KbdTypeOK'
<1>1. PICK l \in Stage \ {"push"} : Goto(c, l)
  BY AfterPacketStage DEF TakeNothing, GetcharNothing, GetcharReturn, Stage
<1>2. ContextTypes'
  BY <1>1, TypeParts, GotoTypes DEF TakeNothing, GetcharNothing
<1>3. UserTypes' /\ LineTypes' /\ QueueTypes' /\ StateTypes' /\ HistoryTypes'
  BY TypeParts DEF TakeNothing, GetcharNothing, UserTypes, LineTypes, QueueTypes, StateTypes, HistoryTypes,
                   userVars, queueVars, stateVars
<1> QED BY <1>2, <1>3, TypePartsNext

\* A key leaves the scan code queue.
LEMMA PopTypes ==
  ASSUME KbdTypeOK, Complete(scanq), NEW k, k = HeadKey(scanq), PopKeyCode(k)
  PROVE  /\ scanq' \in Seq(Byte) /\ Len(scanq') <= ScanMax
         /\ mods' \in SUBSET {"shift", "ctrl"} /\ locks' \in SUBSET {"caps", "num"}
<1>1. scanq \in Seq(Byte) /\ Len(scanq) \in Nat /\ ScanMax \in Nat /\ Len(scanq) <= ScanMax
  BY LenProperties, KeyboardAssumption DEF KbdTypeOK, KeyboardAssumption
<1>2. /\ k.len \in 1 .. Len(scanq) /\ ModOf(k) \in SUBSET {"shift", "ctrl"}
      /\ LockOf(k) \in SUBSET {"caps", "num"}
  BY <1>1, HeadKeyFacts
<1>3. scanq' = SubSeq(scanq, k.len + 1, Len(scanq))
  BY DEF PopKeyCode
<1>4. k.len \in 0 .. Len(scanq)
  BY <1>1, <1>2
<1>5. scanq' \in Seq(Byte) /\ Len(scanq') = Len(scanq) - k.len
  BY <1>1, <1>3, <1>4, Cut
<1>6. Len(scanq') <= ScanMax
  BY <1>1, <1>4, <1>5
<1>7. mods' \in SUBSET {"shift", "ctrl"} /\ locks' \in SUBSET {"caps", "num"}
  BY <1>2 DEF PopKeyCode, KbdTypeOK, SymDiff
<1> QED BY <1>5, <1>6, <1>7

LEMMA GetcharSkipTypes ==
  ASSUME KbdTypeOK, NEW c \in Context, GetcharSkip(c)
  PROVE  KbdTypeOK'
<1>1. PICK k : k = HeadKey(scanq) /\ PopKeyCode(k)
  BY DEF GetcharSkip
<1>2. /\ scanq' \in Seq(Byte) /\ Len(scanq') <= ScanMax
      /\ mods' \in SUBSET {"shift", "ctrl"} /\ locks' \in SUBSET {"caps", "num"}
  BY <1>1, PopTypes DEF GetcharSkip
<1>3. QueueTypes' /\ StateTypes'
  BY <1>2, TypeParts DEF GetcharSkip, QueueTypes, StateTypes
<1>4. UserTypes' /\ LineTypes' /\ HistoryTypes' /\ ContextTypes'
  BY TypeParts DEF GetcharSkip, UserTypes, LineTypes, HistoryTypes, ContextTypes, userVars, ctxVars
<1> QED BY <1>3, <1>4, TypePartsNext

\* A key more in the EFI key queue.
LEMMA KeyPushTypes ==
  ASSUME KbdTypeOK, NEW x \in KeyStroke
  PROVE  /\ Newest(Append(keyq, x), KeyMax) \in Seq(KeyStroke)
         /\ Len(Newest(Append(keyq, x), KeyMax)) <= KeyMax
         /\ Len(keyq) # KeyMax => Newest(Append(keyq, x), KeyMax) = Append(keyq, x)
<1>1. keyq \in Seq(KeyStroke) /\ Len(keyq) \in Nat /\ KeyMax \in Nat \ {0} /\ Len(keyq) <= KeyMax
  BY LenProperties, KeyboardAssumption DEF KbdTypeOK, KeyboardAssumption
<1> DEFINE more == Append(keyq, x)
<1>2. more \in Seq(KeyStroke) /\ Len(more) = Len(keyq) + 1
  BY <1>1, AppendProperties
<1> HIDE DEF more
<1>3. Len(keyq) # KeyMax => Len(more) <= KeyMax
  BY <1>1, <1>2
<1>4. /\ Newest(more, KeyMax) \in Seq(KeyStroke) /\ Len(Newest(more, KeyMax)) <= KeyMax
      /\ Len(more) <= KeyMax => Newest(more, KeyMax) = more
  BY <1>1, <1>2, NewestFacts
<1> QED BY <1>3, <1>4 DEF more

LEMMA GetcharKeyTypes ==
  ASSUME KbdTypeOK, NEW c \in Context, GetcharKey(c)
  PROVE  KbdTypeOK'
<1> DEFINE k == HeadKey(scanq)
<1>1. /\ Complete(scanq) /\ PopKeyCode(k) /\ GetcharReturn(c, LockOf(k) # {})
      /\ IF Converted(k) = {} THEN UNCHANGED <<keyq, lost>>
         ELSE \E key \in Converted(k) :
              /\ keyq' = Newest(Append(keyq, [key |-> key, mods |-> mods]), KeyMax)
              /\ lost' = (lost \/ Len(keyq) = KeyMax)
      /\ UNCHANGED <<userVars, wire, down, leds, inq, enabled, hand, sets, phantom>>
  BY DEF GetcharKey
<1>2. Converted(k) \in SUBSET AllKeys
  BY <1>1, HeadKeyFacts DEF KbdTypeOK
<1>3. /\ scanq' \in Seq(Byte) /\ Len(scanq') <= ScanMax
      /\ mods' \in SUBSET {"shift", "ctrl"} /\ locks' \in SUBSET {"caps", "num"}
  BY <1>1, PopTypes
<1> HIDE DEF k
<1>4. PICK l \in Stage \ {"push"} : Goto(c, l)
  BY <1>1, AfterPacketStage DEF GetcharReturn, Stage
<1>5. ContextTypes'
  BY <1>1, <1>4, TypeParts, GotoTypes
<1>6. keyq' \in Seq(KeyStroke) /\ Len(keyq') <= KeyMax /\ lost' \in BOOLEAN
  <2>1. CASE Converted(k) = {}
    BY <2>1, <1>1 DEF KbdTypeOK
  <2>2. CASE Converted(k) # {}
    <3>1. PICK key \in Converted(k) :
            /\ keyq' = Newest(Append(keyq, [key |-> key, mods |-> mods]), KeyMax)
            /\ lost' = (lost \/ Len(keyq) = KeyMax)
      BY <2>2, <1>1
    <3>2. [key |-> key, mods |-> mods] \in KeyStroke
      BY <1>2 DEF KeyStroke, KbdTypeOK
    <3> QED BY <3>1, <3>2, KeyPushTypes
  <2> QED BY <2>1, <2>2
<1>7. QueueTypes' /\ StateTypes' /\ HistoryTypes'
  BY <1>1, <1>3, <1>6, TypeParts DEF QueueTypes, StateTypes, HistoryTypes
<1>8. UserTypes' /\ LineTypes'
  BY <1>1, TypeParts DEF UserTypes, LineTypes, userVars
<1> QED BY <1>5, <1>7, <1>8, TypePartsNext

\* A command goes to the keyboard and the input is empty.
LEMMA WriteTypes ==
  ASSUME KbdTypeOK, NEW x \in Command, KeyboardWrite(x)
  PROVE  /\ wire' \in Seq(Byte) /\ inq' = <<>> /\ lost' \in BOOLEAN
         /\ down' = Append(down, x) /\ down' \in Seq(Command)
<1>1. PICK n \in 0 .. Len(wire) : /\ wire' = SubSeq(wire, n + 1, Len(wire))
                                  /\ lost' = (lost \/ Codes(inq \o SubSeq(wire, 1, n)) # {})
  BY DEF KeyboardWrite
<1>2. wire' \in Seq(Byte)
  BY <1>1, Cut DEF KbdTypeOK
<1>3. lost' \in BOOLEAN
  BY <1>1
<1>4. inq' = <<>> /\ down' = Append(down, x)
  BY DEF KeyboardWrite
<1>5. down' \in Seq(Command)
  BY <1>4, AppendProperties DEF KbdTypeOK
<1> QED BY <1>2, <1>3, <1>4, <1>5

LEMMA LightsTypes ==
  ASSUME KbdTypeOK, NEW c \in Context, LightsSetup(c) \/ LightsCommand(c)
  PROVE  KbdTypeOK'
<1>1. [cmd |-> "setup"] \in Command /\ [cmd |-> "lights", arg |-> locks] \in Command
  BY DEF Command, KbdTypeOK
<1>2. PICK x \in Command : KeyboardWrite(x)
  BY <1>1 DEF LightsSetup, LightsCommand
<1>3. wire' \in Seq(Byte) /\ inq' = <<>> /\ lost' \in BOOLEAN /\ down' \in Seq(Command)
  BY <1>2, WriteTypes
<1>4. <<>> \in Seq(Byte) /\ Len(<<>>) = 0 /\ InMax \in Nat
  BY EmptySeq, KeyboardAssumption DEF KeyboardAssumption
<1>5. LineTypes' /\ QueueTypes' /\ HistoryTypes'
  BY <1>3, <1>4, TypeParts DEF LightsSetup, LightsCommand, LineTypes, QueueTypes, HistoryTypes
<1>6. ContextTypes'
  BY TypeParts, GotoTypes DEF LightsSetup, LightsCommand, Stage
<1>7. UserTypes' /\ StateTypes'
  BY TypeParts DEF LightsSetup, LightsCommand, UserTypes, StateTypes, userVars, stateVars
<1> QED BY <1>5, <1>6, <1>7, TypePartsNext

\* The end of a wait.
LEMMA WaitedTypes ==
  ASSUME KbdTypeOK, NEW c \in Context, Waited(c), hand' = hand
  PROVE  ContextTypes' /\ enabled' \in BOOLEAN
<1>1. PICK l \in Stage \ {"push"} : Goto(c, l)
  BY AfterPacketStage DEF Waited, Stage
<1>2. enabled' \in BOOLEAN
  BY DEF Waited, KbdTypeOK
<1> QED BY <1>1, <1>2, TypeParts, GotoTypes

LEMMA AckTypes ==
  ASSUME KbdTypeOK, NEW c \in Context, AckByte(c) \/ AckTimeout(c)
  PROVE  KbdTypeOK'
<1>1. CASE AckTimeout(c)
  <2>1. ContextTypes' /\ enabled' \in BOOLEAN
    BY <1>1, WaitedTypes DEF AckTimeout
  <2>2. UserTypes' /\ LineTypes' /\ QueueTypes' /\ StateTypes' /\ HistoryTypes'
    BY <1>1, <2>1, TypeParts DEF AckTimeout, UserTypes, LineTypes, QueueTypes, StateTypes, HistoryTypes, userVars, queueVars
  <2> QED BY <2>1, <2>2, TypePartsNext
<1>2. CASE AckByte(c)
  <2>1. inq' \in Seq(Byte) /\ Len(inq') <= InMax
    BY <1>2, InputTypes DEF AckByte
  <2>2. ContextTypes' /\ enabled' \in BOOLEAN /\ lost' \in BOOLEAN
    <3>1. CASE Head(inq) = "ACK"
      BY <1>2, <3>1, WaitedTypes DEF AckByte, KbdTypeOK
    <3>2. CASE Head(inq) # "ACK"
      BY <1>2, <3>2, TypeParts DEF AckByte, ContextTypes, StateTypes
    <3> QED BY <3>1, <3>2
  <2>3. UserTypes' /\ LineTypes' /\ QueueTypes' /\ StateTypes' /\ HistoryTypes'
    BY <1>2, <2>1, <2>2, TypeParts DEF AckByte, UserTypes, LineTypes, QueueTypes, StateTypes, HistoryTypes, userVars
  <2> QED BY <2>2, <2>3, TypePartsNext
<1> QED BY <1>1, <1>2

LEMMA InitTypes == Init => KbdTypeOK
<1>1. ASSUME NEW S PROVE <<>> \in Seq(S) /\ Len(<<>>) = 0
  BY EmptySeq
<1>2. InMax \in Nat /\ ScanMax \in Nat /\ KeyMax \in Nat
  BY KeyboardAssumption DEF KeyboardAssumption
<1> SUFFICES ASSUME Init PROVE KbdTypeOK
  OBVIOUS
<1>3. UserTypes /\ LineTypes
  BY <1>1 DEF Init, UserTypes, LineTypes
<1>4. inq = <<>> /\ scanq = <<>> /\ keyq = <<>>
  BY DEF Init
<1>5. QueueTypes
  BY <1>1, <1>2, <1>4 DEF QueueTypes
<1>6. StateTypes /\ HistoryTypes
  BY DEF Init, StateTypes, HistoryTypes
<1>7. ContextTypes
  BY DEF Init, ContextTypes, Context, Stage
<1> QED BY <1>3, <1>5, <1>6, <1>7, TypeParts

LEMMA TypeStep == KbdTypeOK /\ [Next]_vars => KbdTypeOK'
<1> SUFFICES ASSUME KbdTypeOK, [Next]_vars PROVE KbdTypeOK'
  OBVIOUS
<1>1. ASSUME User PROVE KbdTypeOK'
  BY <1>1, KeyboardAssumption, PressTypes, ReleaseTypes DEF User
<1>2. ASSUME KbdAnswer \/ TimerFires \/ ReadKeyStroke \/ ReadKey PROVE KbdTypeOK'
  BY <1>2, AnswerTypes, TimerTypes, ReadKeyTypes
<1>3. ASSUME NEW v \in Toggles, SetState(v) PROVE KbdTypeOK'
  BY <1>3, SetStateTypes
<1>4. ASSUME NEW c \in Context, Packet(c) PROVE KbdTypeOK'
  BY <1>4, TakeFillTypes, TakeByteTypes, PushScancodeTypes, NothingTypes, GetcharSkipTypes, GetcharKeyTypes,
     LightsTypes, AckTypes DEF Packet
<1>5. ASSUME UNCHANGED vars PROVE KbdTypeOK'
  BY <1>5 DEF vars, userVars, queueVars, stateVars, ctxVars, KbdTypeOK
<1> QED BY <1>1, <1>2, <1>3, <1>4, <1>5 DEF Next

\* Whatever the keyboard sends and whenever the timer comes, no queue grows over its size and every state of the
\* driver is one it can be in (KeyboardGetPacket, KeyGetchar, ReadKeyStroke, SetState).
THEOREM KeyboardTypes == Spec => []KbdTypeOK
  BY InitTypes, TypeStep, PTL DEF Spec

----------------------------------------------------------------------------
(* The lights. *)

\* Nobody is about to send the locks to the keyboard.
Settled == \A c \in Context : pc[c] \notin {"lights", "ack1", "command"}

\* What the lights show once all commands on their way have arrived.
WillShow(d, on, v) ==
  /\ (\A i \in 1 .. Len(d) : d[i].cmd # "lights") => on = v
  /\ \A i \in 1 .. Len(d) :
       (d[i].cmd = "lights" /\ \A j \in i + 1 .. Len(d) : d[j].cmd # "lights") => d[i].arg = v

LightsInv == Settled => WillShow(down, leds, locks)

\* The keyboard carries out its oldest command.
LEMMA ShowAnswered ==
  ASSUME NEW d \in Seq(Command), d # <<>>, NEW on, NEW v, WillShow(d, on, v)
  PROVE  WillShow(Tail(d), IF Head(d).cmd = "lights" THEN Head(d).arg ELSE on, v)
<1> DEFINE t == Tail(d)
           l == Len(t)
           now == IF Head(d).cmd = "lights" THEN Head(d).arg ELSE on
<1>1. /\ Len(d) \in Nat \ {0} /\ l = Len(d) - 1 /\ Head(d) = d[1]
      /\ \A i \in 1 .. l : t[i] = d[i + 1]
  BY EmptySeq, LenProperties, HeadTailProperties
<1> HIDE DEF t, l
<1>2. Len(d) = l + 1 /\ l \in Nat
  BY <1>1
<1>3. ASSUME \A i \in 1 .. l : t[i].cmd # "lights" PROVE now = v
  <2>1. \A j \in 2 .. l + 1 : d[j].cmd # "lights"
    <3> SUFFICES ASSUME NEW j \in 2 .. l + 1 PROVE d[j].cmd # "lights"
      OBVIOUS
    <3>1. j - 1 \in 1 .. l /\ j - 1 + 1 = j
      BY <1>2
    <3>2. t[j - 1] = d[j]
      BY <1>1, <3>1
    <3> QED BY <1>3, <3>1, <3>2
  <2>2. CASE d[1].cmd = "lights"
    <3>1. 1 \in 1 .. Len(d) /\ \A j \in 1 + 1 .. Len(d) : d[j].cmd # "lights"
      BY <2>1, <1>2
    <3>2. d[1].arg = v
      BY <2>2, <3>1 DEF WillShow
    <3> QED BY <2>2, <3>2, <1>1
  <2>3. CASE d[1].cmd # "lights"
    <3>1. \A j \in 1 .. Len(d) : d[j].cmd # "lights"
      BY <2>1, <2>3, <1>2
    <3> QED BY <2>3, <3>1, <1>1 DEF WillShow
  <2> QED BY <2>2, <2>3
<1>4. ASSUME NEW i \in 1 .. l, t[i].cmd = "lights", \A j \in i + 1 .. l : t[j].cmd # "lights"
      PROVE  t[i].arg = v
  <2>1. i + 1 \in 1 .. Len(d) /\ t[i] = d[i + 1]
    BY <1>1, <1>2
  <2>2. ASSUME NEW j \in i + 1 + 1 .. Len(d) PROVE d[j].cmd # "lights"
    <3>1. j - 1 \in i + 1 .. l /\ j - 1 \in 1 .. l /\ j - 1 + 1 = j
      BY <1>2
    <3>2. t[j - 1] = d[j]
      BY <1>1, <3>1
    <3> QED BY <1>4, <3>1, <3>2
  <2> QED BY <1>4, <2>1, <2>2 DEF WillShow
<1> QED BY <1>3, <1>4 DEF WillShow, t, l

\* The lights to come are those of the command sent last.
LEMMA ShowSent ==
  ASSUME NEW d \in Seq(Command), NEW on, NEW v, NEW x, x = [cmd |-> "lights", arg |-> v], x \in Command
  PROVE  WillShow(Append(d, x), on, v)
<1> DEFINE e == Append(d, x)
           l == Len(d)
<1>1. l \in Nat /\ Len(e) = l + 1 /\ e[l + 1] = x
  BY LenProperties, AppendProperties
<1> HIDE DEF e, l
<1>2. x.cmd = "lights" /\ x.arg = v
  OBVIOUS
<1>3. l + 1 \in 1 .. Len(e) /\ e[l + 1].cmd = "lights"
  BY <1>1, <1>2
<1>4. ASSUME NEW i \in 1 .. Len(e), e[i].cmd = "lights", \A j \in i + 1 .. Len(e) : e[j].cmd # "lights"
      PROVE  e[i].arg = v
  <2>1. i = l + 1
    BY <1>1, <1>3, <1>4
  <2> QED BY <2>1, <1>1, <1>2
<1> QED BY <1>3, <1>4 DEF WillShow, e

LEMMA LightsStep ==
  ASSUME KbdTypeOK, LightsInv, [Next]_vars
  PROVE  LightsInv'
<1>1. ASSUME UNCHANGED <<down, leds, locks>>, Settled' => Settled PROVE LightsInv'
  BY <1>1 DEF LightsInv, WillShow
<1>2. pc \in [Context -> Stage]
  BY TypeParts DEF ContextTypes
<1>3. ASSUME NEW c \in Context, NEW l, Goto(c, l), pc[c] \notin {"lights", "ack1", "command"} \/ l \in {"ack1", "command"}
      PROVE  Settled' => Settled
  BY <1>2, <1>3 DEF Settled, Goto
<1>4. ASSUME NEW c \in Context, NEW l \in {"lights", "ack1", "command"}, Goto(c, l) PROVE ~Settled'
  BY <1>2, <1>4 DEF Settled, Goto
<1>5. ASSUME UNCHANGED pc PROVE Settled' => Settled
  BY <1>5 DEF Settled
<1>6. ASSUME User PROVE LightsInv'
  BY <1>1, <1>5, <1>6 DEF User, KbdPress, KbdRelease, stateVars, ctxVars
<1>7. ASSUME KbdAnswer PROVE LightsInv'
  <2>1. down \in Seq(Command) /\ down # <<>> /\ down' = Tail(down) /\ locks' = locks
    BY <1>7 DEF KbdAnswer, KbdTypeOK, stateVars
  <2>2. leds' = IF Head(down).cmd = "lights" THEN Head(down).arg ELSE leds
    BY <1>7 DEF KbdAnswer
  <2>3. Settled' => Settled
    BY <1>5, <1>7 DEF KbdAnswer, ctxVars
  <2>4. WillShow(down, leds, locks) => WillShow(down', leds', locks')
    BY <2>1, <2>2, ShowAnswered
  <2> QED BY <2>3, <2>4 DEF LightsInv
<1>8. ASSUME TimerFires \/ ReadKeyStroke \/ ReadKey PROVE LightsInv'
  <2>1. UNCHANGED <<down, leds, locks>>
    BY <1>8 DEF TimerFires, ReadKeyStroke, ReadKey, stateVars
  <2>2. PICK c, l : c \in Context /\ Goto(c, l) /\ pc[c] \in {"idle", "read"}
    BY <1>8 DEF TimerFires, ReadKeyStroke, ReadKey, Context
  <2> QED BY <2>1, <2>2, <1>1, <1>3
<1>9. ASSUME NEW v \in Toggles, SetState(v) PROVE LightsInv'
  BY <1>4, <1>9 DEF SetState, Context, LightsInv
<1>10. ASSUME NEW c \in Context, TakeFill(c) \/ GetcharSkip(c) \/ AckFill(c) PROVE LightsInv'
  <2>1. UNCHANGED <<down, leds, pc>>
    BY <1>10 DEF TakeFill, GetcharSkip, AckFill, ctxVars
  <2>2. locks' = locks
    <3>1. ASSUME GetcharSkip(c) PROVE locks' = locks
      <4>1. PICK k : PopKeyCode(k) /\ (k.break \/ FakeShift(k))
        BY <3>1 DEF GetcharSkip
      <4>2. LockOf(k) = {}
        BY <4>1 DEF LockOf, FakeShift
      <4> QED BY <4>1, <4>2 DEF PopKeyCode, SymDiff
    <3> QED BY <1>10, <3>1 DEF TakeFill, AckFill, stateVars
  <2> QED BY <2>1, <2>2, <1>1, <1>5
<1>11. ASSUME NEW c \in Context, TakeByte(c) \/ PushScancode(c) \/ TakeNothing(c) \/ GetcharNothing(c) PROVE LightsInv'
  <2>1. UNCHANGED <<down, leds, locks>>
    BY <1>11 DEF TakeByte, PushScancode, TakeNothing, GetcharNothing, stateVars
  <2>2. PICK l : Goto(c, l) /\ pc[c] \in {"take", "push", "getchar"}
    BY <1>11 DEF TakeByte, PushScancode, TakeNothing, GetcharNothing, GetcharReturn
  <2> QED BY <2>1, <2>2, <1>1, <1>3
<1>12. ASSUME NEW c \in Context, GetcharKey(c) PROVE LightsInv'
  <2>1. PICK k : PopKeyCode(k) /\ GetcharReturn(c, LockOf(k) # {})
    BY <1>12 DEF GetcharKey
  <2>2. CASE LockOf(k) # {}
    BY <2>1, <2>2, <1>4 DEF GetcharReturn, LightsInv
  <2>3. CASE LockOf(k) = {}
    <3>1. UNCHANGED <<down, leds, locks>>
      BY <1>12, <2>1, <2>3 DEF GetcharKey, PopKeyCode, SymDiff
    <3>2. Goto(c, AfterPacket(c)) /\ pc[c] = "getchar"
      BY <1>12, <2>1, <2>3 DEF GetcharReturn, GetcharKey
    <3> QED BY <3>1, <3>2, <1>1, <1>3
  <2> QED BY <2>2, <2>3
<1>13. ASSUME NEW c \in Context, LightsSetup(c) PROVE LightsInv'
  BY <1>4, <1>13 DEF LightsSetup, LightsInv
<1>14. ASSUME NEW c \in Context, LightsCommand(c) PROVE LightsInv'
  <2> DEFINE x == [cmd |-> "lights", arg |-> locks]
  <2>1. x \in Command /\ down \in Seq(Command)
    BY DEF Command, KbdTypeOK
  <2>2. down' = Append(down, x) /\ locks' = locks
    BY <1>14 DEF LightsCommand, KeyboardWrite, stateVars
  <2>3. WillShow(down', leds', locks)
    BY <2>1, <2>2, ShowSent
  <2> QED BY <2>2, <2>3 DEF LightsInv
<1>15. ASSUME NEW c \in Context, AckByte(c) \/ AckTimeout(c) PROVE LightsInv'
  <2>1. UNCHANGED <<down, leds, locks>>
    BY <1>15 DEF AckByte, AckTimeout
  <2>2. UNCHANGED pc \/ Waited(c)
    BY <1>15 DEF AckByte, AckTimeout
  <2>3. ASSUME Waited(c) PROVE Settled' => Settled
    <3>1. CASE pc[c] = "ack1" /\ Goto(c, "command")
      BY <3>1, <1>3
    <3>2. CASE pc[c] = "ack2" /\ Goto(c, IF enabled THEN AfterPacket(c) ELSE "idle")
      BY <3>2, <1>3
    <3> QED BY <2>3, <3>1, <3>2 DEF Waited
  <2> QED BY <2>1, <2>2, <2>3, <1>1, <1>5
<1>16. ASSUME UNCHANGED vars PROVE LightsInv'
  BY <1>1, <1>5, <1>16 DEF vars, stateVars, ctxVars
<1> QED BY <1>6, <1>7, <1>8, <1>9, <1>10, <1>11, <1>12, <1>13, <1>14, <1>15, <1>16 DEF Next, Packet

\* Whenever nobody is about to change them, the lights show the locks, however the timer comes between the steps of
\* SetState and of a caller of ReadKeyStroke, whatever the keyboard answers and whether it does (UpdateStatusLights).
THEOREM LightsAreLocks == Spec => []LightsFollowLocks
<1>1. Init => LightsInv
  <2>1. Len(<<>>) = 0
    BY EmptySeq
  <2> QED BY <2>1 DEF Init, LightsInv, WillShow
<1>2. KbdTypeOK /\ LightsInv /\ [Next]_vars => LightsInv'
  BY LightsStep
<1>3. LightsInv => LightsFollowLocks
  <2> SUFFICES ASSUME LightsInv, down = <<>>, \A c \in Context : pc[c] \notin {"lights", "ack1", "command", "ack2"}
               PROVE  leds = locks
    BY DEF LightsFollowLocks
  <2>1. Settled
    BY DEF Settled
  <2>2. Len(down) = 0
    BY EmptySeq
  <2> QED BY <2>1, <2>2 DEF LightsInv, WillShow
<1> QED BY <1>1, <1>2, <1>3, KeyboardTypes, PTL DEF Spec

----------------------------------------------------------------------------
(***************************************************************************)
(* The strokes.  The bytes between the keyboard and KeyGetchar are decoded *)
(* one by one: in front of byte i + 1 the decoder is in state f[i], the    *)
(* modifiers are g[i] and the next stroke of the user is number h[i] + 1.  *)
(***************************************************************************)
Decoder == {"start", "F0", "E0", "E0F0", "E1", "E114", "E1F0"}

\* The bytes that change neither the modifiers nor the strokes made.
Silent == {<<"start", "58", "start">>, <<"start", "ACK", "start">>,
           <<"start", "F0", "F0">>, <<"F0", "4A", "start">>, <<"F0", "58", "start">>, <<"F0", "77", "start">>,
           <<"start", "E0", "E0">>, <<"E0", "F0", "E0F0">>, <<"E0F0", "4A", "start">>,
           <<"start", "E1", "E1">>, <<"E1", "14", "E114">>, <<"E1", "F0", "E1F0">>, <<"E1F0", "14", "start">>}

\* The bytes that end the code of a stroke.
Typed == {<<"start", "4A", "slash">>, <<"E0", "4A", "kpslash">>, <<"E114", "77", "pause">>}

\* One byte, with the strokes w the user made.
Reads(w, st, m, n, b, st2, m2, n2) ==
  \/ <<st, b, st2>> \in Silent /\ m2 = m /\ n2 = n
  \/ st = "start" /\ b = "12" /\ st2 = "start" /\ m2 = m \cup {"shift"} /\ n2 = n
  \/ st = "F0" /\ b = "12" /\ st2 = "start" /\ m2 = m \ {"shift"} /\ n2 = n
  \/ /\ n + 1 \in 1 .. Len(w) /\ <<st, b, w[n + 1].key>> \in Typed /\ w[n + 1].mods = m
     /\ st2 = "start" /\ m2 = m /\ n2 = n + 1

Modifiers == SUBSET {"shift", "ctrl"}

Path(f, g, h, s, w) ==
  \A i \in 1 .. Len(s) : Reads(w, f[i - 1], g[i - 1], h[i - 1], s[i], f[i], g[i], h[i])

\* The bytes s lead from the modifiers m0 and n0 strokes to the state st, m and n.
DecodesTo(s, w, m0, n0, st, m, n) ==
  \E f \in [Nat -> Decoder], g \in [Nat -> Modifiers], h \in [Nat -> Int] :
    /\ f[0] = "start" /\ g[0] = m0 /\ h[0] = n0
    /\ f[Len(s)] = st /\ g[Len(s)] = m /\ h[Len(s)] = n
    /\ Path(f, g, h, s, w)

LEMMA DecodesNothing ==
  ASSUME NEW w, NEW m0 \in Modifiers, NEW n0 \in Int
  PROVE  DecodesTo(<<>>, w, m0, n0, "start", m0, n0)
<1> DEFINE f == [i \in Nat |-> "start"]
           g == [i \in Nat |-> m0]
           h == [i \in Nat |-> n0]
<1>1. f \in [Nat -> Decoder] /\ g \in [Nat -> Modifiers] /\ h \in [Nat -> Int]
  BY DEF Decoder
<1>2. f[0] = "start" /\ g[0] = m0 /\ h[0] = n0 /\ Len(<<>>) = 0
  BY EmptySeq
<1>3. Path(f, g, h, <<>>, w)
  BY <1>2 DEF Path
<1> HIDE DEF f, g, h
<1> QED BY <1>1, <1>2, <1>3 DEF DecodesTo

\* One byte more.
LEMMA DecodesByte ==
  ASSUME NEW s \in Seq(Byte), NEW b \in Byte, NEW w, NEW m0, NEW n0, NEW st, NEW m, NEW n,
         DecodesTo(s, w, m0, n0, st, m, n),
         NEW st2 \in Decoder, NEW m2 \in Modifiers, NEW n2 \in Int, Reads(w, st, m, n, b, st2, m2, n2)
  PROVE  DecodesTo(Append(s, b), w, m0, n0, st2, m2, n2)
<1> DEFINE l == Len(s)
           t == Append(s, b)
<1>1. PICK f \in [Nat -> Decoder], g \in [Nat -> Modifiers], h \in [Nat -> Int] :
        /\ f[0] = "start" /\ g[0] = m0 /\ h[0] = n0
        /\ f[l] = st /\ g[l] = m /\ h[l] = n
        /\ Path(f, g, h, s, w)
  BY DEF DecodesTo
<1>2. l \in Nat /\ Len(t) = l + 1 /\ t[l + 1] = b /\ \A i \in 1 .. l : t[i] = s[i]
  BY LenProperties, AppendProperties
<1>3. \A i \in 1 .. l : Reads(w, f[i - 1], g[i - 1], h[i - 1], s[i], f[i], g[i], h[i])
  BY <1>1 DEF Path
<1> HIDE DEF l, t
<1> DEFINE f2 == [f EXCEPT ![l + 1] = st2]
           g2 == [g EXCEPT ![l + 1] = m2]
           h2 == [h EXCEPT ![l + 1] = n2]
<1>4. f2 \in [Nat -> Decoder] /\ g2 \in [Nat -> Modifiers] /\ h2 \in [Nat -> Int]
  OBVIOUS
<1>5. \A i \in 0 .. l : f2[i] = f[i] /\ g2[i] = g[i] /\ h2[i] = h[i]
  BY <1>2
<1>6. f2[l + 1] = st2 /\ g2[l + 1] = m2 /\ h2[l + 1] = n2
  BY <1>2
<1> HIDE DEF f2, g2, h2
<1>7. ASSUME NEW i \in 1 .. l + 1
      PROVE  Reads(w, f2[i - 1], g2[i - 1], h2[i - 1], t[i], f2[i], g2[i], h2[i])
  <2>1. CASE i \in 1 .. l
    <3>1. i - 1 \in 0 .. l /\ i \in 0 .. l
      BY <2>1, <1>2
    <3> QED BY <2>1, <3>1, <1>2, <1>3, <1>5
  <2>2. CASE i = l + 1
    <3>1. i - 1 = l /\ l \in 0 .. l
      BY <2>2, <1>2
    <3> QED BY <2>2, <3>1, <1>1, <1>2, <1>5, <1>6
  <2> QED BY <2>1, <2>2, <1>2
<1>8. Path(f2, g2, h2, t, w)
  BY <1>7, <1>2 DEF Path
<1>9. f2[0] = "start" /\ g2[0] = m0 /\ h2[0] = n0
  <2>1. 0 \in 0 .. l
    BY <1>2
  <2> QED BY <2>1, <1>1, <1>5
<1> QED BY <1>2, <1>4, <1>6, <1>8, <1>9 DEF DecodesTo, t

\* The acknowledgment of a command is no part of a code.
LEMMA ReadsAck ==
  ASSUME NEW w, NEW st, NEW m, NEW n, NEW st2, NEW m2, NEW n2, Reads(w, st, m, n, "ACK", st2, m2, n2)
  PROVE  st2 = st /\ m2 = m /\ n2 = n
  BY DEF Reads, Silent, Typed

\* Strokes are counted upwards.
LEMMA ReadsCounts ==
  ASSUME NEW w, NEW st, NEW m, NEW n \in Int, NEW b, NEW st2, NEW m2, NEW n2, Reads(w, st, m, n, b, st2, m2, n2)
  PROVE  n2 >= n
  BY DEF Reads

LEMMA PathCounts ==
  ASSUME NEW s \in Seq(Byte), NEW w, NEW f, NEW g, NEW h \in [Nat -> Int], Path(f, g, h, s, w)
  PROVE  \A i \in 0 .. Len(s) : h[i] >= h[0]
<1> DEFINE l == Len(s)
           T == {i \in 0 .. l : ~(h[i] >= h[0])}
<1>1. l \in Nat
  BY LenProperties
<1>2. \A i \in 1 .. l : h[i] >= h[i - 1]
  <2> SUFFICES ASSUME NEW i \in 1 .. l PROVE h[i] >= h[i - 1]
    OBVIOUS
  <2>1. h[i - 1] \in Int /\ Reads(w, f[i - 1], g[i - 1], h[i - 1], s[i], f[i], g[i], h[i])
    BY <1>1 DEF Path
  <2> QED BY <2>1, ReadsCounts
<1> HIDE DEF l
<1>3. SUFFICES ASSUME T # {} PROVE FALSE
  BY DEF l
<1>4. T \subseteq Nat
  BY <1>1
<1> HIDE DEF T
<1>5. PICK x \in T : \A y \in T : x <= y
  BY <1>3, <1>4, NatMin
<1>6. x \in 0 .. l /\ ~(h[x] >= h[0])
  BY DEF T
<1>7. x # 0 /\ x \in 1 .. l /\ x - 1 \in 0 .. l /\ ~(x <= x - 1) /\ h[0] \in Int /\ h[x] \in Int /\ h[x - 1] \in Int
  BY <1>1, <1>6
<1>8. x - 1 \notin T
  BY <1>5, <1>7
<1>9. h[x - 1] >= h[0]
  BY <1>7, <1>8 DEF T
<1> QED BY <1>2, <1>6, <1>7, <1>9

\* Acknowledgments in a row change nothing.
LEMMA PathAcks ==
  ASSUME NEW s \in Seq(Byte), NEW w, NEW f, NEW g, NEW h, Path(f, g, h, s, w),
         NEW a \in 0 .. Len(s), NEW b \in a .. Len(s), \A i \in a + 1 .. b : s[i] = "ACK"
  PROVE  f[b] = f[a] /\ g[b] = g[a] /\ h[b] = h[a]
<1> DEFINE l == Len(s)
           T == {i \in a .. b : ~(f[i] = f[a] /\ g[i] = g[a] /\ h[i] = h[a])}
<1>1. l \in Nat /\ a \in 0 .. l /\ b \in a .. l
  BY LenProperties
<1>2. ASSUME NEW i \in a + 1 .. b PROVE f[i] = f[i - 1] /\ g[i] = g[i - 1] /\ h[i] = h[i - 1]
  <2>1. i \in 1 .. l
    BY <1>1
  <2>2. Reads(w, f[i - 1], g[i - 1], h[i - 1], "ACK", f[i], g[i], h[i])
    BY <2>1 DEF Path
  <2> QED BY <2>2, ReadsAck
<1> HIDE DEF l
<1>3. SUFFICES ASSUME T # {} PROVE FALSE
  BY <1>1
<1>4. T \subseteq Nat
  BY <1>1
<1> HIDE DEF T
<1>5. PICK x \in T : \A y \in T : x <= y
  BY <1>3, <1>4, NatMin
<1>6. x \in a .. b /\ ~(f[x] = f[a] /\ g[x] = g[a] /\ h[x] = h[a])
  BY DEF T
<1>7. x # a /\ x \in a + 1 .. b /\ x - 1 \in a .. b /\ ~(x <= x - 1)
  BY <1>1, <1>6
<1>8. x - 1 \notin T
  BY <1>5, <1>7
<1>9. f[x - 1] = f[a] /\ g[x - 1] = g[a] /\ h[x - 1] = h[a]
  BY <1>7, <1>8 DEF T
<1> QED BY <1>2, <1>6, <1>7, <1>9

\* The strokes decoded are not more than there are at the end.
LEMMA DecodesCounts ==
  ASSUME NEW s \in Seq(Byte), NEW w, NEW m0, NEW n0, NEW st, NEW m, NEW n, DecodesTo(s, w, m0, n0, st, m, n)
  PROVE  n0 \in Int /\ n \in Int /\ n0 <= n
<1>1. PICK f \in [Nat -> Decoder], g \in [Nat -> Modifiers], h \in [Nat -> Int] :
        h[0] = n0 /\ h[Len(s)] = n /\ Path(f, g, h, s, w)
  BY DEF DecodesTo
<1>2. Len(s) \in 0 .. Len(s) /\ Len(s) \in Nat
  BY LenProperties
<1>3. h[Len(s)] >= h[0] /\ h[Len(s)] \in Int /\ h[0] \in Int
  BY <1>1, <1>2, PathCounts
<1> QED BY <1>1, <1>3

\* Another list of strokes, in which those to come are found again, d places further on.
LEMMA DecodesText ==
  ASSUME NEW s \in Seq(Byte), NEW w, NEW v, NEW d \in Int, NEW m0, NEW n0 \in Int, NEW st, NEW m, NEW n \in Int,
         DecodesTo(s, w, m0, n0, st, m, n),
         \A k \in Int : k >= n0 /\ k + 1 \in 1 .. Len(w) => k + d + 1 \in 1 .. Len(v) /\ v[k + d + 1] = w[k + 1]
  PROVE  DecodesTo(s, v, m0, n0 + d, st, m, n + d)
<1>1. PICK f \in [Nat -> Decoder], g \in [Nat -> Modifiers], h \in [Nat -> Int] :
        /\ f[0] = "start" /\ g[0] = m0 /\ h[0] = n0
        /\ f[Len(s)] = st /\ g[Len(s)] = m /\ h[Len(s)] = n
        /\ Path(f, g, h, s, w)
  BY DEF DecodesTo
<1>2. Len(s) \in Nat /\ \A i \in 0 .. Len(s) : h[i] >= n0
  BY <1>1, PathCounts, LenProperties
<1> DEFINE h2 == [i \in Nat |-> h[i] + d]
<1>3. h2 \in [Nat -> Int] /\ \A i \in Nat : h2[i] = h[i] + d
  OBVIOUS
<1> HIDE DEF h2
<1>4. ASSUME NEW i \in 1 .. Len(s) PROVE Reads(v, f[i - 1], g[i - 1], h2[i - 1], s[i], f[i], g[i], h2[i])
  <2>1. i - 1 \in 0 .. Len(s) /\ i - 1 \in Nat /\ i \in Nat
    BY <1>2
  <2> DEFINE x == h[i - 1]
  <2>2. /\ x \in Int /\ x >= n0 /\ h[i] \in Int /\ h2[i - 1] = x + d /\ h2[i] = h[i] + d
        /\ Reads(w, f[i - 1], g[i - 1], x, s[i], f[i], g[i], h[i])
    BY <2>1, <1>1, <1>2, <1>3 DEF Path
  <2> HIDE DEF x
  <2>3. CASE h[i] = x /\ Reads(v, f[i - 1], g[i - 1], x + d, s[i], f[i], g[i], x + d)
    BY <2>2, <2>3
  <2>4. CASE /\ x + 1 \in 1 .. Len(w) /\ <<f[i - 1], s[i], w[x + 1].key>> \in Typed /\ w[x + 1].mods = g[i - 1]
             /\ f[i] = "start" /\ g[i] = g[i - 1] /\ h[i] = x + 1
    <3>a. x \in Int /\ x >= n0 /\ x + 1 \in 1 .. Len(w)
      BY <2>2, <2>4
    <3>b. h2[i] = x + d + 1
      BY <2>2, <2>4
    <3>c. x + d + 1 \in 1 .. Len(v) /\ v[x + d + 1] = w[x + 1]
      BY <3>a
    <3>1. x + d + 1 \in 1 .. Len(v) /\ v[x + d + 1] = w[x + 1] /\ h2[i] = x + d + 1
      BY <3>b, <3>c
    <3> QED BY <2>2, <2>4, <3>1 DEF Reads
  <2> QED BY <2>2, <2>3, <2>4 DEF Reads
<1>5. Path(f, g, h2, s, v)
  BY <1>4 DEF Path
<1>6. h2[0] = n0 + d /\ h2[Len(s)] = n + d
  BY <1>1, <1>2, <1>3
<1> QED BY <1>1, <1>3, <1>5, <1>6 DEF DecodesTo

\* The elements of two sequences, one behind the other.
LEMMA ConcatAt ==
  ASSUME NEW S, NEW s \in Seq(S), NEW t \in Seq(S)
  PROVE  /\ \A i \in 1 .. Len(s) : (s \o t)[i] = s[i]
         /\ \A i \in Len(s) + 1 .. Len(s) + Len(t) : (s \o t)[i] = t[i - Len(s)]
<1> DEFINE p == Len(s)
           q == Len(t)
           u == s \o t
<1>1. p \in Nat /\ q \in Nat
  BY LenProperties
<1>2. \A i \in 1 .. p + q : u[i] = IF i <= p THEN s[i] ELSE t[i - p]
  BY ConcatProperties
<1> HIDE DEF p, q, u
<1>3. \A i \in 1 .. p : i \in 1 .. p + q /\ i <= p
  BY <1>1
<1>4. \A i \in p + 1 .. p + q : i \in 1 .. p + q /\ ~(i <= p)
  BY <1>1
<1> QED BY <1>2, <1>3, <1>4 DEF p, q, u

\* Acknowledgments that are taken out of the bytes are not missed.
LEMMA DecodesWithoutAcks ==
  ASSUME NEW s \in Seq(Byte), NEW a \in Seq(Byte), NEW t \in Seq(Byte), \A i \in 1 .. Len(a) : a[i] = "ACK",
         NEW w, NEW m0, NEW n0, NEW st, NEW m, NEW n,
         DecodesTo((s \o a) \o t, w, m0, n0, st, m, n)
  PROVE  DecodesTo(s \o t, w, m0, n0, st, m, n)
<1> DEFINE u == (s \o a) \o t
           v == s \o t
           p == Len(s)
           d == Len(a)
           q == Len(t)
<1>1. PICK f, g, h :
        /\ f \in [Nat -> Decoder] /\ g \in [Nat -> Modifiers] /\ h \in [Nat -> Int]
        /\ f[0] = "start" /\ g[0] = m0 /\ h[0] = n0
        /\ f[Len(u)] = st /\ g[Len(u)] = m /\ h[Len(u)] = n
        /\ Path(f, g, h, u, w)
  BY DEF DecodesTo
<1>2. p \in Nat /\ d \in Nat /\ q \in Nat /\ s \o a \in Seq(Byte) /\ u \in Seq(Byte) /\ v \in Seq(Byte)
  BY LenProperties, ConcatProperties
<1>3. Len(s \o a) = p + d
  BY ConcatProperties
<1>4. /\ \A i \in 1 .. p : (s \o a)[i] = s[i]
      /\ \A i \in p + 1 .. p + d : (s \o a)[i] = a[i - p]
  BY <1>2, ConcatAt
<1> DEFINE lu == Len(u)
           lv == Len(v)
<1>5. lu = p + d + q /\ lv = p + q
  <2>1. lu = (p + d) + q
    BY <1>2, <1>3, ConcatProperties
  <2> QED BY <2>1, <1>2, ConcatProperties
<1>6. /\ \A i \in 1 .. p + d : u[i] = (s \o a)[i]
      /\ \A i \in p + d + 1 .. p + d + q : u[i] = t[i - (p + d)]
  <2>1. /\ \A i \in 1 .. Len(s \o a) : u[i] = (s \o a)[i]
        /\ \A i \in Len(s \o a) + 1 .. Len(s \o a) + q : u[i] = t[i - Len(s \o a)]
    BY <1>2, ConcatAt
  <2> HIDE DEF u, p, d, q
  <2> QED BY <2>1, <1>3, Zenon
<1>7. /\ \A i \in 1 .. p : v[i] = s[i]
      /\ \A i \in p + 1 .. p + q : v[i] = t[i - p]
  BY <1>2, ConcatAt
<1>8. \A i \in 1 .. d : a[i] = "ACK"
  OBVIOUS
<1>9. \A i \in 1 .. lu : Reads(w, f[i - 1], g[i - 1], h[i - 1], u[i], f[i], g[i], h[i])
  BY <1>1 DEF Path
<1>10. \A i \in p + 1 .. p + d : u[i] = "ACK"
  <2> SUFFICES ASSUME NEW i \in p + 1 .. p + d PROVE u[i] = "ACK"
    OBVIOUS
  <2>1. i \in 1 .. p + d /\ i - p \in 1 .. d
    BY <1>2
  <2> QED BY <2>1, <1>4, <1>6, <1>8
<1>11. f[p + d] = f[p] /\ g[p + d] = g[p] /\ h[p + d] = h[p]
  <2> HIDE DEF u, v, p, d, q
  <2>1. p \in 0 .. lu /\ p + d \in p .. lu
    <3> HIDE DEF lu
    <3> QED BY <1>2, <1>5
  <2>2. Path(f, g, h, u, w) /\ u \in Seq(Byte) /\ \A i \in p + 1 .. p + d : u[i] = "ACK"
    BY <1>1, <1>2, <1>10
  <2> HIDE DEF lu
  <2>3. p \in 0 .. Len(u) /\ p + d \in p .. Len(u)
    BY <2>1 DEF lu
  <2> DEFINE e == p + d
  <2>4. /\ Path(f, g, h, u, w) /\ u \in Seq(Byte) /\ p \in 0 .. Len(u) /\ e \in p .. Len(u)
        /\ \A i \in p + 1 .. e : u[i] = "ACK"
    BY <2>2, <2>3
  <2> HIDE DEF e, lv
  <2>5. f[e] = f[p] /\ g[e] = g[p] /\ h[e] = h[p]
    BY <2>4, PathAcks
  <2> QED BY <2>5 DEF e
<1> HIDE DEF u, v, p, d, q, lu, lv
<1>12. \A i \in 1 .. p : v[i] = u[i]
  <2> SUFFICES ASSUME NEW i \in 1 .. p PROVE v[i] = u[i]
    OBVIOUS
  <2>1. i \in 1 .. p + d
    BY <1>2
  <2> QED BY <2>1, <1>4, <1>6, <1>7
<1>13. \A i \in p + 1 .. p + q : v[i] = u[i + d]
  <2> SUFFICES ASSUME NEW i \in p + 1 .. p + q PROVE v[i] = u[i + d]
    OBVIOUS
  <2> DEFINE j == i + d
  <2>1. j \in p + d + 1 .. p + d + q /\ j - (p + d) = i - p
    BY <1>2
  <2> HIDE DEF j
  <2>2. u[j] = t[j - (p + d)]
    BY <2>1, <1>6
  <2>3. v[i] = t[i - p]
    BY <1>7
  <2> QED BY <2>1, <2>2, <2>3 DEF j
<1> DEFINE f2 == [i \in Nat |-> IF i <= p THEN f[i] ELSE f[i + d]]
           g2 == [i \in Nat |-> IF i <= p THEN g[i] ELSE g[i + d]]
           h2 == [i \in Nat |-> IF i <= p THEN h[i] ELSE h[i + d]]
<1>14. f2 \in [Nat -> Decoder] /\ g2 \in [Nat -> Modifiers] /\ h2 \in [Nat -> Int]
  <2>1. \A i \in Nat : i + d \in Nat
    BY <1>2
  <2> QED BY <2>1, <1>1
<1>15. \A i \in Nat : i <= p => f2[i] = f[i] /\ g2[i] = g[i] /\ h2[i] = h[i]
  OBVIOUS
<1>16. \A i \in Nat : i >= p => f2[i] = f[i + d] /\ g2[i] = g[i + d] /\ h2[i] = h[i + d]
  <2> SUFFICES ASSUME NEW i \in Nat, i >= p PROVE f2[i] = f[i + d] /\ g2[i] = g[i + d] /\ h2[i] = h[i + d]
    OBVIOUS
  <2>1. CASE i = p
    <3>1. f2[p] = f[p] /\ g2[p] = g[p] /\ h2[p] = h[p]
      BY <1>2
    <3> QED BY <2>1, <3>1, <1>11
  <2>2. CASE i # p
    <3>1. ~(i <= p)
      BY <2>2, <1>2
    <3> QED BY <3>1
  <2> QED BY <2>1, <2>2
<1> HIDE DEF f2, g2, h2
<1>17. ASSUME NEW i \in 1 .. p + q PROVE Reads(w, f2[i - 1], g2[i - 1], h2[i - 1], v[i], f2[i], g2[i], h2[i])
  <2>1. CASE i <= p
    <3>1. i \in 1 .. p /\ i \in 1 .. lu /\ i - 1 \in Nat /\ i \in Nat /\ i - 1 <= p
      BY <2>1, <1>2, <1>5
    <3>2. Reads(w, f[i - 1], g[i - 1], h[i - 1], u[i], f[i], g[i], h[i])
      BY <3>1, <1>9
    <3> QED BY <2>1, <3>1, <3>2, <1>12, <1>15
  <2>2. CASE i > p
    <3> DEFINE j == i + d
    <3>1. /\ i \in p + 1 .. p + q /\ j \in 1 .. lu /\ i - 1 \in Nat /\ i \in Nat /\ i - 1 >= p /\ i >= p
          /\ i - 1 + d = j - 1 /\ i + d = j
      BY <2>2, <1>2, <1>5
    <3> HIDE DEF j
    <3>2. Reads(w, f[j - 1], g[j - 1], h[j - 1], u[j], f[j], g[j], h[j])
      BY <3>1, <1>9
    <3>3. /\ f2[i - 1] = f[j - 1] /\ g2[i - 1] = g[j - 1] /\ h2[i - 1] = h[j - 1]
          /\ f2[i] = f[j] /\ g2[i] = g[j] /\ h2[i] = h[j]
      BY <3>1, <1>16
    <3>4. v[i] = u[j]
      BY <3>1, <1>13
    <3> QED BY <3>2, <3>3, <3>4
  <2> QED BY <2>1, <2>2, <1>2
<1>18. Path(f2, g2, h2, v, w)
  BY <1>17, <1>5 DEF Path, lv
<1>19. f2[0] = "start" /\ g2[0] = m0 /\ h2[0] = n0
  BY <1>1, <1>2, <1>15
<1>20. f2[lv] = st /\ g2[lv] = m /\ h2[lv] = n
  <2>1. p + q \in Nat /\ p + q >= p /\ p + q + d = p + d + q
    BY <1>2
  <2> QED BY <2>1, <1>1, <1>5, <1>16 DEF lu
<1> QED BY <1>14, <1>18, <1>19, <1>20 DEF DecodesTo, v, lv

\* KeyGetchar takes from the queue what the decoder reads.
Popped(k, w, m0, n0, m1, n1) ==
  /\ ~FakeShift(k)
  /\ m1 = IF k.break THEN m0 \ ModOf(k) ELSE m0 \cup ModOf(k)
  /\ (k.break \/ Converted(k) = {}) => n1 = n0
  /\ ~(k.break \/ Converted(k) = {}) =>
       /\ n0 + 1 \in 1 .. Len(w) /\ n1 = n0 + 1
       /\ Converted(k) = {w[n0 + 1].key} /\ w[n0 + 1].mods = m0

\* The parts of the key at the head of the queue.
LEMMA KeyFields ==
  ASSUME NEW q, NEW k, k = HeadKey(q), NEW x, x = Start(q)
  PROVE  /\ k.len = IF q[x] = "F0" THEN x + 1 ELSE x
         /\ k.break <=> q[x] = "F0"
         /\ k.code = q[k.len]
         /\ k.prefix = IF q[1] \in {"E0", "E1"} THEN q[1] ELSE "none"
<1> DEFINE brk == q[x] = "F0"
           len == IF brk THEN x + 1 ELSE x
           pre == IF q[1] \in {"E0", "E1"} THEN q[1] ELSE "none"
<1>1. k = [len |-> len, break |-> brk, code |-> q[len], prefix |-> pre]
  BY DEF HeadKey
<1>2. ASSUME NEW a, NEW b, NEW c, NEW d, k = [len |-> a, break |-> b, code |-> c, prefix |-> d]
      PROVE  k.len = a /\ k.break = b /\ k.code = c /\ k.prefix = d
  BY <1>2
<1> HIDE DEF brk, len, pre
<1>3. k.len = len /\ k.break = brk /\ k.code = q[len] /\ k.prefix = pre
  BY <1>1, <1>2
<1> QED BY <1>3 DEF brk, len, pre

\* A key without a prefix.
LEMMA PopPlain ==
  ASSUME NEW k, k.prefix = "none", ~k.break, NEW w, NEW m0, NEW n0 \in Int, NEW st1, NEW m1, NEW n1,
         Reads(w, "start", m0, n0, k.code, st1, m1, n1), k.code \notin {"F0", "E0", "E1"}
  PROVE  st1 = "start" /\ Popped(k, w, m0, n0, m1, n1)
<1>1. ~FakeShift(k)
  BY DEF FakeShift
<1>2. CASE k.code \in {"58", "ACK"}
  <2>1. st1 = "start" /\ m1 = m0 /\ n1 = n0
    BY <1>2 DEF Reads, Silent, Typed
  <2>2. ModOf(k) = {} /\ Converted(k) = {}
    BY <1>2 DEF ModOf, Converted
  <2> QED BY <1>1, <2>1, <2>2 DEF Popped
<1>3. CASE k.code = "12"
  <2>1. st1 = "start" /\ m1 = m0 \cup {"shift"} /\ n1 = n0
    BY <1>3 DEF Reads, Silent, Typed
  <2>2. ModOf(k) = {"shift"} /\ Converted(k) = {}
    BY <1>1, <1>3 DEF ModOf, Converted
  <2> QED BY <1>1, <2>1, <2>2 DEF Popped
<1>4. CASE k.code = "4A"
  <2>1. /\ st1 = "start" /\ m1 = m0 /\ n1 = n0 + 1 /\ n0 + 1 \in 1 .. Len(w)
        /\ w[n0 + 1].key = "slash" /\ w[n0 + 1].mods = m0
    BY <1>4 DEF Reads, Silent, Typed
  <2>2. ModOf(k) = {} /\ Converted(k) = {"slash"}
    BY <1>4 DEF ModOf, Converted
  <2> QED BY <1>1, <2>1, <2>2 DEF Popped
<1>5. k.code \in {"58", "ACK", "12", "4A"}
  BY DEF Reads, Silent, Typed
<1> QED BY <1>2, <1>3, <1>4, <1>5

\* A key that was released.
LEMMA PopBreak ==
  ASSUME NEW k, k.prefix = "none", k.break, NEW w, NEW m0, NEW n0 \in Int, NEW st1, NEW m1, NEW n1,
         Reads(w, "F0", m0, n0, k.code, st1, m1, n1)
  PROVE  st1 = "start" /\ Popped(k, w, m0, n0, m1, n1)
<1>1. ~FakeShift(k)
  BY DEF FakeShift
<1>2. CASE k.code \in {"4A", "58", "77"}
  <2>1. st1 = "start" /\ m1 = m0 /\ n1 = n0
    BY <1>2 DEF Reads, Silent, Typed
  <2>2. ModOf(k) = {}
    BY <1>2 DEF ModOf
  <2> QED BY <1>1, <2>1, <2>2 DEF Popped
<1>3. CASE k.code = "12"
  <2>1. st1 = "start" /\ m1 = m0 \ {"shift"} /\ n1 = n0
    BY <1>3 DEF Reads, Silent, Typed
  <2>2. ModOf(k) = {"shift"}
    BY <1>1, <1>3 DEF ModOf
  <2> QED BY <1>1, <2>1, <2>2 DEF Popped
<1>4. k.code \in {"4A", "58", "77", "12"}
  BY DEF Reads, Silent, Typed
<1> QED BY <1>2, <1>3, <1>4

\* A key of the second table, pressed or released, and PAUSE in its two parts.
LEMMA PopPrefixed ==
  ASSUME NEW k, NEW w, NEW m0, NEW n0 \in Int, NEW st1, NEW m1, NEW n1, NEW st,
         Reads(w, st, m0, n0, k.code, st1, m1, n1),
         \/ k.prefix = "E0" /\ ~k.break /\ st = "E0" /\ k.code # "F0"
         \/ k.prefix = "E0" /\ k.break /\ st = "E0F0"
         \/ k.prefix = "E1" /\ ~k.break /\ st \in {"E114", "E1F0"}
  PROVE  st1 = "start" /\ Popped(k, w, m0, n0, m1, n1)
<1>1. CASE k.prefix = "E0" /\ ~k.break /\ st = "E0"
  <2>1. /\ k.code = "4A" /\ st1 = "start" /\ m1 = m0 /\ n1 = n0 + 1 /\ n0 + 1 \in 1 .. Len(w)
        /\ w[n0 + 1].key = "kpslash" /\ w[n0 + 1].mods = m0
    BY <1>1 DEF Reads, Silent, Typed
  <2>2. ModOf(k) = {} /\ Converted(k) = {"kpslash"} /\ ~FakeShift(k)
    BY <1>1, <2>1 DEF ModOf, Converted, FakeShift
  <2> QED BY <1>1, <2>1, <2>2 DEF Popped
<1>2. CASE k.prefix = "E0" /\ k.break /\ st = "E0F0"
  <2>1. k.code = "4A" /\ st1 = "start" /\ m1 = m0 /\ n1 = n0
    BY <1>2 DEF Reads, Silent, Typed
  <2>2. ModOf(k) = {} /\ ~FakeShift(k)
    BY <1>2, <2>1 DEF ModOf, FakeShift
  <2> QED BY <1>2, <2>1, <2>2 DEF Popped
<1>3. CASE k.prefix = "E1" /\ ~k.break /\ st = "E114"
  <2>1. /\ k.code = "77" /\ st1 = "start" /\ m1 = m0 /\ n1 = n0 + 1 /\ n0 + 1 \in 1 .. Len(w)
        /\ w[n0 + 1].key = "pause" /\ w[n0 + 1].mods = m0
    BY <1>3 DEF Reads, Silent, Typed
  <2>2. ModOf(k) = {} /\ Converted(k) = {"pause"} /\ ~FakeShift(k)
    BY <1>3, <2>1 DEF ModOf, Converted, FakeShift
  <2> QED BY <1>3, <2>1, <2>2 DEF Popped
<1>4. CASE k.prefix = "E1" /\ ~k.break /\ st = "E1F0"
  <2>1. k.code = "14" /\ st1 = "start" /\ m1 = m0 /\ n1 = n0
    BY <1>4 DEF Reads, Silent, Typed
  <2>2. ModOf(k) = {} /\ Converted(k) = {} /\ ~FakeShift(k)
    BY <1>4, <2>1 DEF ModOf, Converted, FakeShift
  <2> QED BY <1>4, <2>1, <2>2 DEF Popped
<1> QED BY <1>1, <1>2, <1>3, <1>4

\* The key at the head of the queue, however many bytes it has.
LEMMA PopHead ==
  ASSUME NEW q \in Seq(Byte), Complete(q), NEW k, k = HeadKey(q), NEW w, NEW f, NEW g, NEW h,
         f[0] = "start", h[0] \in Int, Path(f, g, h, q, w)
  PROVE  /\ k.len \in 1 .. Len(q) /\ f[k.len] = "start"
         /\ Popped(k, w, g[0], h[0], g[k.len], h[k.len])
<1> DEFINE l == Len(q)
           x == Start(q)
<1>1. l \in Nat \ {0} /\ k.len \in 1 .. l
  BY HeadKeyFacts, LenProperties, EmptySeq DEF Complete
<1>2. l >= x /\ (q[x] = "F0" => l > x)
  BY DEF Complete
<1>3. /\ k.len = IF q[x] = "F0" THEN x + 1 ELSE x
      /\ k.break <=> q[x] = "F0"
      /\ k.code = q[k.len]
      /\ k.prefix = IF q[1] \in {"E0", "E1"} THEN q[1] ELSE "none"
  BY KeyFields
<1>4. \A i \in 1 .. l : Reads(w, f[i - 1], g[i - 1], h[i - 1], q[i], f[i], g[i], h[i])
  BY DEF Path
<1>5. x = IF q[1] = "E0" THEN 2 ELSE IF q[1] = "E1" THEN 3 ELSE 1
  BY DEF Start
<1> HIDE DEF l, x
<1>6. Reads(w, "start", g[0], h[0], q[1], f[1], g[1], h[1])
  <2>1. 1 \in 1 .. l /\ 1 - 1 = 0
    BY <1>1
  <2> QED BY <2>1, <1>4
<1>7. l >= 2 => Reads(w, f[1], g[1], h[1], q[2], f[2], g[2], h[2])
  <2> SUFFICES ASSUME l >= 2 PROVE Reads(w, f[1], g[1], h[1], q[2], f[2], g[2], h[2])
    OBVIOUS
  <2>1. 2 \in 1 .. l /\ 2 - 1 = 1
    BY <1>1
  <2> QED BY <2>1, <1>4
<1>8. l >= 3 => Reads(w, f[2], g[2], h[2], q[3], f[3], g[3], h[3])
  <2> SUFFICES ASSUME l >= 3 PROVE Reads(w, f[2], g[2], h[2], q[3], f[3], g[3], h[3])
    OBVIOUS
  <2>1. 3 \in 1 .. l /\ 3 - 1 = 2
    BY <1>1
  <2> QED BY <2>1, <1>4
<1>9. CASE q[1] \notin {"E0", "E1", "F0"}
  <2>1. x = 1 /\ k.len = 1 /\ ~k.break /\ k.code = q[1] /\ k.prefix = "none"
    BY <1>3, <1>5, <1>9
  <2>2. Reads(w, "start", g[0], h[0], k.code, f[1], g[1], h[1])
    BY <2>1, <1>6
  <2>3. f[1] = "start" /\ Popped(k, w, g[0], h[0], g[1], h[1])
    BY <2>1, <2>2, <1>9, PopPlain
  <2> QED BY <2>1, <2>3, <1>1 DEF l
<1>10. CASE q[1] = "F0"
  <2>1. x = 1 /\ k.len = 2 /\ k.break /\ k.code = q[2] /\ k.prefix = "none" /\ l >= 2
    BY <1>1, <1>2, <1>3, <1>5, <1>10
  <2>2. f[1] = "F0" /\ g[1] = g[0] /\ h[1] = h[0]
    BY <1>6, <1>10 DEF Reads, Silent, Typed
  <2>3. Reads(w, "F0", g[0], h[0], k.code, f[2], g[2], h[2])
    BY <2>1, <2>2, <1>7
  <2>4. f[2] = "start" /\ Popped(k, w, g[0], h[0], g[2], h[2])
    BY <2>1, <2>3, PopBreak
  <2> QED BY <2>1, <2>4, <1>1 DEF l
<1>11. CASE q[1] = "E0"
  <2>1. x = 2 /\ k.prefix = "E0" /\ l >= 2
    BY <1>1, <1>2, <1>3, <1>5, <1>11
  <2>2. f[1] = "E0" /\ g[1] = g[0] /\ h[1] = h[0]
    BY <1>6, <1>11 DEF Reads, Silent, Typed
  <2>3. CASE q[2] = "F0"
    <3>1. k.len = 3 /\ k.break /\ k.code = q[3] /\ l >= 3
      BY <1>1, <1>2, <1>3, <2>1, <2>3
    <3>2. f[2] = "E0F0" /\ g[2] = g[0] /\ h[2] = h[0]
      BY <1>7, <2>1, <2>2, <2>3 DEF Reads, Silent, Typed
    <3>3. Reads(w, "E0F0", g[0], h[0], k.code, f[3], g[3], h[3])
      BY <3>1, <3>2, <1>8
    <3>4. f[3] = "start" /\ Popped(k, w, g[0], h[0], g[3], h[3])
      BY <2>1, <3>1, <3>3, PopPrefixed
    <3> QED BY <3>1, <3>4, <1>1 DEF l
  <2>4. CASE q[2] # "F0"
    <3>1. k.len = 2 /\ ~k.break /\ k.code = q[2]
      BY <1>3, <2>1, <2>4
    <3>2. Reads(w, "E0", g[0], h[0], k.code, f[2], g[2], h[2])
      BY <3>1, <2>1, <2>2, <1>7
    <3>3. f[2] = "start" /\ Popped(k, w, g[0], h[0], g[2], h[2])
      <4>1. k.prefix = "E0" /\ ~k.break /\ k.code # "F0"
        BY <2>1, <2>4, <3>1
      <4>2. h[0] \in Int
        BY <1>1
      <4>3. ASSUME NEW m0, NEW n0 \in Int, NEW st1, NEW m1, NEW n1, Reads(w, "E0", m0, n0, k.code, st1, m1, n1)
            PROVE  st1 = "start" /\ Popped(k, w, m0, n0, m1, n1)
        BY <4>1, <4>3, PopPrefixed
      <4> QED BY <3>2, <4>2, <4>3
    <3> QED BY <3>1, <3>3, <1>1 DEF l
  <2> QED BY <2>3, <2>4
<1>12. CASE q[1] = "E1"
  <2>1. x = 3 /\ k.prefix = "E1" /\ l >= 3 /\ l >= 2
    BY <1>1, <1>2, <1>3, <1>5, <1>12
  <2>2. f[1] = "E1" /\ g[1] = g[0] /\ h[1] = h[0]
    BY <1>6, <1>12 DEF Reads, Silent, Typed
  <2>3. f[2] \in {"E114", "E1F0"} /\ g[2] = g[0] /\ h[2] = h[0]
    BY <1>7, <2>1, <2>2 DEF Reads, Silent, Typed
  <2>4. q[3] # "F0"
    BY <1>8, <2>1, <2>3 DEF Reads, Silent, Typed
  <2>5. k.len = 3 /\ ~k.break /\ k.code = q[3]
    BY <1>3, <2>1, <2>4
  <2>6. Reads(w, f[2], g[0], h[0], k.code, f[3], g[3], h[3])
    BY <2>1, <2>3, <2>5, <1>8
  <2>7. f[3] = "start" /\ Popped(k, w, g[0], h[0], g[3], h[3])
    BY <2>1, <2>3, <2>5, <2>6, PopPrefixed
  <2> QED BY <2>5, <2>7, <1>1 DEF l
<1> QED BY <1>9, <1>10, <1>11, <1>12

\* What lies behind the key is decoded from there.
LEMMA DecodesRest ==
  ASSUME NEW s \in Seq(Byte), NEW t \in Seq(Byte), NEW p \in 0 .. Len(s), Len(t) = Len(s) - p,
         \A i \in 1 .. Len(t) : t[i] = s[i + p],
         NEW w, NEW f, NEW g, NEW h,
         f \in [Nat -> Decoder], g \in [Nat -> Modifiers], h \in [Nat -> Int],
         f[p] = "start", Path(f, g, h, s, w)
  PROVE  DecodesTo(t, w, g[p], h[p], f[Len(s)], g[Len(s)], h[Len(s)])
<1> DEFINE l == Len(s)
           r == Len(t)
           f2 == [i \in Nat |-> f[i + p]]
           g2 == [i \in Nat |-> g[i + p]]
           h2 == [i \in Nat |-> h[i + p]]
<1>1. l \in Nat /\ p \in 0 .. l /\ r = l - p /\ r \in Nat
  BY LenProperties
<1>2. \A i \in 1 .. l : Reads(w, f[i - 1], g[i - 1], h[i - 1], s[i], f[i], g[i], h[i])
  BY DEF Path
<1>3. \A i \in 1 .. r : t[i] = s[i + p]
  OBVIOUS
<1> HIDE DEF l, r
<1>4. f2 \in [Nat -> Decoder] /\ g2 \in [Nat -> Modifiers] /\ h2 \in [Nat -> Int]
  <2>1. \A i \in Nat : i + p \in Nat
    BY <1>1
  <2> QED BY <2>1
<1>5. \A i \in Nat : f2[i] = f[i + p] /\ g2[i] = g[i + p] /\ h2[i] = h[i + p]
  OBVIOUS
<1> HIDE DEF f2, g2, h2
<1>6. ASSUME NEW i \in 1 .. r PROVE Reads(w, f2[i - 1], g2[i - 1], h2[i - 1], t[i], f2[i], g2[i], h2[i])
  <2> DEFINE j == i + p
  <2>1. j \in 1 .. l /\ i - 1 \in Nat /\ i \in Nat /\ i - 1 + p = j - 1 /\ i + p = j
    BY <1>1
  <2> HIDE DEF j
  <2>2. Reads(w, f[j - 1], g[j - 1], h[j - 1], s[j], f[j], g[j], h[j])
    BY <2>1, <1>2
  <2>3. /\ f2[i - 1] = f[j - 1] /\ g2[i - 1] = g[j - 1] /\ h2[i - 1] = h[j - 1]
        /\ f2[i] = f[j] /\ g2[i] = g[j] /\ h2[i] = h[j] /\ t[i] = s[j]
    BY <2>1, <1>3, <1>5
  <2> QED BY <2>2, <2>3
<1>7. Path(f2, g2, h2, t, w)
  BY <1>6 DEF Path, r
<1>8. f2[0] = "start" /\ g2[0] = g[p] /\ h2[0] = h[p]
  <2>1. 0 \in Nat /\ 0 + p = p
    BY <1>1
  <2> QED BY <2>1, <1>5
<1>9. f2[r] = f[l] /\ g2[r] = g[l] /\ h2[r] = h[l]
  <2>1. r + p = l
    BY <1>1
  <2> QED BY <2>1, <1>1, <1>5
<1> QED BY <1>4, <1>7, <1>8, <1>9 DEF DecodesTo, l, r

LEMMA DecodesPop ==
  ASSUME NEW q \in Seq(Byte), NEW r \in Seq(Byte), Complete(q), NEW k, k = HeadKey(q),
         NEW w, NEW m0, NEW n0, NEW st, NEW m, NEW n, DecodesTo(q \o r, w, m0, n0, st, m, n)
  PROVE  \E m1 \in Modifiers, n1 \in Int :
           /\ Popped(k, w, m0, n0, m1, n1)
           /\ DecodesTo(SubSeq(q, k.len + 1, Len(q)) \o r, w, m1, n1, st, m, n)
<1> DEFINE s == q \o r
           c == SubSeq(q, k.len + 1, Len(q))
           t == c \o r
           l == Len(q)
           x == k.len
<1>1. PICK f, g, h :
        /\ f \in [Nat -> Decoder] /\ g \in [Nat -> Modifiers] /\ h \in [Nat -> Int]
        /\ f[0] = "start" /\ g[0] = m0 /\ h[0] = n0
        /\ f[Len(s)] = st /\ g[Len(s)] = m /\ h[Len(s)] = n
        /\ Path(f, g, h, s, w)
  BY DEF DecodesTo
<1>2. l \in Nat /\ s \in Seq(Byte) /\ Len(s) = l + Len(r) /\ Len(r) \in Nat
  BY LenProperties, ConcatProperties
<1>3. (\A i \in 1 .. l : s[i] = q[i]) /\ \A i \in l + 1 .. l + Len(r) : s[i] = r[i - l]
  BY ConcatAt
<1>4. Path(f, g, h, q, w)
  <2> HIDE DEF s, l
  <2> SUFFICES ASSUME NEW i \in 1 .. l PROVE Reads(w, f[i - 1], g[i - 1], h[i - 1], q[i], f[i], g[i], h[i])
    BY DEF Path, l
  <2>1. i \in 1 .. Len(s)
    BY <1>2
  <2>2. Reads(w, f[i - 1], g[i - 1], h[i - 1], s[i], f[i], g[i], h[i])
    BY <2>1, <1>1 DEF Path
  <2> QED BY <2>2, <1>3
<1>5. h[0] \in Int
  BY <1>1
<1>6. x \in 1 .. l /\ f[x] = "start" /\ Popped(k, w, g[0], h[0], g[x], h[x])
  BY <1>1, <1>4, <1>5, PopHead
<1>7. c \in Seq(Byte) /\ Len(c) = l - x
  <2>1. x \in 0 .. l
    BY <1>2, <1>6
  <2> QED BY <2>1, Cut
<1>8. \A i \in 1 .. l - x : c[i] = q[i + x]
  <2>1. \A i \in 1 .. l : q[i] \in Byte
    BY ElementOfSeq
  <2>2. \A i \in x + 1 .. l : q[i] \in Byte
    BY <2>1, <1>2, <1>6
  <2>3. x + 1 \in Int /\ l \in Int
    BY <1>2, <1>6
  <2>4. \A i \in 1 .. l - (x + 1) + 1 : c[i] = q[x + 1 + i - 1]
    <3> HIDE DEF x, l
    <3>1. \A i \in 1 .. l - (x + 1) + 1 : SubSeq(q, x + 1, l)[i] = q[x + 1 + i - 1]
      BY <2>2, <2>3, SubSeqProperties
    <3> QED BY <3>1 DEF x, l
  <2> HIDE DEF c, x, l
  <2> SUFFICES ASSUME NEW i \in 1 .. l - x PROVE c[i] = q[i + x]
    OBVIOUS
  <2>5. i \in 1 .. l - (x + 1) + 1 /\ x + 1 + i - 1 = i + x
    BY <1>2, <1>6
  <2> QED BY <2>4, <2>5
<1>9. t \in Seq(Byte) /\ Len(t) = l - x + Len(r)
  BY <1>7, ConcatProperties
<1>10. (\A i \in 1 .. Len(c) : t[i] = c[i]) /\ \A i \in Len(c) + 1 .. Len(c) + Len(r) : t[i] = r[i - Len(c)]
  BY <1>7, ConcatAt
<1> DEFINE n2 == Len(r)
           lt == Len(t)
           ls == Len(s)
<1>11. lt = ls - x /\ x \in 0 .. ls
  <2> HIDE DEF s, c, t, l, x
  <2> QED BY <1>2, <1>6, <1>9
<1>12. ASSUME NEW i \in 1 .. lt PROVE t[i] = s[i + x]
  <2> HIDE DEF s, c, t, l, x, n2, lt, ls
  <2>a. n2 \in Nat /\ lt = l - x + n2 /\ ls = l + n2
    BY <1>2, <1>9 DEF n2, lt, ls
  <2> DEFINE j == i + x
  <2>b. j = i + x
    OBVIOUS
  <2> HIDE DEF j
  <2>1. CASE i <= l - x
    <3>1. i \in 1 .. l - x /\ j \in 1 .. l
      BY <2>a, <2>b, <2>1, <1>2, <1>6
    <3>2. t[i] = c[i] /\ c[i] = q[j]
      BY <3>1, <2>b, <1>7, <1>8, <1>10
    <3> QED BY <3>1, <3>2, <1>3 DEF j
  <2>2. CASE ~(i <= l - x)
    <3>1. i \in l - x + 1 .. l - x + n2 /\ j \in l + 1 .. l + n2 /\ i - (l - x) = j - l
      BY <2>a, <2>b, <2>2, <1>2, <1>6
    <3>2. t[i] = r[j - l]
      BY <3>1, <1>7, <1>10 DEF n2
    <3>3. s[j] = r[j - l]
      BY <3>1, <1>3 DEF n2
    <3> QED BY <3>2, <3>3 DEF j
  <2> QED BY <2>1, <2>2
<1>13. DecodesTo(t, w, g[x], h[x], f[ls], g[ls], h[ls])
  <2>1. \A i \in 1 .. lt : t[i] = s[i + x]
    BY <1>12
  <2> HIDE DEF s, c, t, l, x
  <2> QED BY <2>1, <1>1, <1>2, <1>6, <1>9, <1>11, DecodesRest DEF lt, ls
<1>14. g[x] \in Modifiers /\ h[x] \in Int
  <2>1. x \in Nat
    BY <1>2, <1>6
  <2> HIDE DEF x
  <2> QED BY <2>1, <1>1
<1> QED BY <1>1, <1>6, <1>13, <1>14

\* A stroke more at the end of the list.
LEMMA DecodesLonger ==
  ASSUME NEW s \in Seq(Byte), NEW T, NEW w \in Seq(T), NEW x \in T, NEW m0, NEW n0, NEW st, NEW m, NEW n,
         DecodesTo(s, w, m0, n0, st, m, n)
  PROVE  DecodesTo(s, Append(w, x), m0, n0, st, m, n)
<1> DEFINE v == Append(w, x)
<1>1. n0 \in Int /\ n \in Int
  BY DecodesCounts
<1>2. Len(w) \in Nat /\ Len(v) = Len(w) + 1 /\ \A i \in 1 .. Len(w) : v[i] = w[i]
  BY LenProperties, AppendProperties
<1> DEFINE d == 0
<1>3. \A k \in Int : k >= n0 /\ k + 1 \in 1 .. Len(w) => k + d + 1 \in 1 .. Len(v) /\ v[k + d + 1] = w[k + 1]
  <2> HIDE DEF v
  <2> SUFFICES ASSUME NEW k \in Int, k >= n0, k + 1 \in 1 .. Len(w)
               PROVE  k + d + 1 \in 1 .. Len(v) /\ v[k + d + 1] = w[k + 1]
    OBVIOUS
  <2>1. k + d + 1 = k + 1 /\ k + 1 \in 1 .. Len(v)
    BY <1>2
  <2> QED BY <2>1, <1>2
<1>4. d \in Int /\ n0 + d = n0 /\ n + d = n
  BY <1>1
<1> HIDE DEF v, d
<1>5. DecodesTo(s, v, m0, n0 + d, st, m, n + d)
  BY <1>1, <1>3, <1>4, DecodesText
<1> QED BY <1>4, <1>5 DEF v

\* The first stroke of the list is gone.
LEMMA DecodesShorter ==
  ASSUME NEW s \in Seq(Byte), NEW T, NEW w \in Seq(T), w # <<>>, NEW m0, NEW n0, NEW st, NEW m, NEW n,
         DecodesTo(s, w, m0, n0, st, m, n), n0 >= 1
  PROVE  DecodesTo(s, Tail(w), m0, n0 - 1, st, m, n - 1)
<1> DEFINE v == Tail(w)
<1>1. n0 \in Int /\ n \in Int
  BY DecodesCounts
<1>2. Len(w) \in Nat /\ Len(v) = Len(w) - 1 /\ \A i \in 1 .. Len(v) : v[i] = w[i + 1]
  BY LenProperties, HeadTailProperties
<1> DEFINE d == -1
<1>3. \A k \in Int : k >= n0 /\ k + 1 \in 1 .. Len(w) => k + d + 1 \in 1 .. Len(v) /\ v[k + d + 1] = w[k + 1]
  <2> HIDE DEF v
  <2> SUFFICES ASSUME NEW k \in Int, k >= n0, k + 1 \in 1 .. Len(w)
               PROVE  k + d + 1 \in 1 .. Len(v) /\ v[k + d + 1] = w[k + 1]
    OBVIOUS
  <2>1. k + d + 1 = k /\ k \in 1 .. Len(v)
    BY <1>1, <1>2
  <2> QED BY <2>1, <1>2
<1>4. d \in Int /\ n0 + d = n0 - 1 /\ n + d = n - 1
  BY <1>1
<1> HIDE DEF v, d
<1>5. DecodesTo(s, v, m0, n0 + d, st, m, n + d)
  BY <1>1, <1>3, <1>4, DecodesText
<1> QED BY <1>4, <1>5 DEF v

\* The bytes of a press or a release, one by one.
LEMMA ConcatMore ==
  ASSUME NEW s \in Seq(Byte), NEW t \in Seq(Byte), NEW b \in Byte
  PROVE  s \o Append(t, b) = Append(s \o t, b)
<1>1. s \o t \in Seq(Byte) /\ <<b>> \in Seq(Byte)
  BY ConcatProperties
<1>2. Append(t, b) = t \o <<b>> /\ Append(s \o t, b) = (s \o t) \o <<b>>
  BY <1>1, AppendIsConcat
<1>3. (s \o t) \o <<b>> = s \o (t \o <<b>>)
  BY <1>1, ConcatAssociative
<1> QED BY <1>2, <1>3

LEMMA DecodesMore ==
  ASSUME NEW s \in Seq(Byte), NEW t \in Seq(Byte), NEW b \in Byte, NEW w, NEW m0, NEW n0, NEW st, NEW m, NEW n,
         DecodesTo(s \o t, w, m0, n0, st, m, n),
         NEW st2 \in Decoder, NEW m2 \in Modifiers, NEW n2 \in Int, Reads(w, st, m, n, b, st2, m2, n2)
  PROVE  Append(t, b) \in Seq(Byte) /\ DecodesTo(s \o Append(t, b), w, m0, n0, st2, m2, n2)
<1>1. s \o t \in Seq(Byte) /\ Append(t, b) \in Seq(Byte)
  BY ConcatProperties, AppendProperties
<1>2. DecodesTo(Append(s \o t, b), w, m0, n0, st2, m2, n2)
  BY <1>1, DecodesByte
<1>3. s \o Append(t, b) = Append(s \o t, b)
  BY ConcatMore
<1> QED BY <1>1, <1>2, <1>3

\* A byte that changes nothing else.
LEMMA DecodesSilent ==
  ASSUME NEW s \in Seq(Byte), NEW t \in Seq(Byte), NEW b \in Byte, NEW w, NEW m0, NEW n0, NEW st,
         NEW m \in Modifiers, NEW n \in Int, DecodesTo(s \o t, w, m0, n0, st, m, n),
         NEW st2 \in Decoder, <<st, b, st2>> \in Silent
  PROVE  Append(t, b) \in Seq(Byte) /\ DecodesTo(s \o Append(t, b), w, m0, n0, st2, m, n)
<1>1. Reads(w, st, m, n, b, st2, m, n)
  BY DEF Reads
<1> QED BY <1>1, DecodesMore

LEMMA DecodesTyped ==
  ASSUME NEW s \in Seq(Byte), NEW t \in Seq(Byte), NEW b \in Byte, NEW w, NEW m0, NEW n0, NEW st,
         NEW m \in Modifiers, NEW n \in Int, DecodesTo(s \o t, w, m0, n0, st, m, n),
         n + 1 \in 1 .. Len(w), <<st, b, w[n + 1].key>> \in Typed, w[n + 1].mods = m
  PROVE  Append(t, b) \in Seq(Byte) /\ DecodesTo(s \o Append(t, b), w, m0, n0, "start", m, n + 1)
<1>1. Reads(w, st, m, n, b, "start", m, n + 1)
  BY DEF Reads
<1>2. "start" \in Decoder /\ n + 1 \in Int
  BY DEF Decoder
<1> QED BY <1>1, <1>2, DecodesMore

LEMMA DecodesRelease ==
  ASSUME NEW s \in Seq(Byte), NEW w, NEW m0, NEW n0, NEW m \in Modifiers, NEW n \in Int,
         DecodesTo(s, w, m0, n0, "start", m, n), NEW k \in AllKeys
  PROVE  DecodesTo(s \o BreakOf[k], w, m0, n0, "start", IF k = "shift" THEN m \ {"shift"} ELSE m, n)
<1>1. <<>> \in Seq(Byte) /\ s \o <<>> = s
  BY EmptySeq, ConcatEmptySeq
<1>2. DecodesTo(s \o <<>>, w, m0, n0, "start", m, n)
  BY <1>1
<1>3. <<"F0">> \in Seq(Byte) /\ DecodesTo(s \o <<"F0">>, w, m0, n0, "F0", m, n)
  <2>1. /\ Append(<<>>, "F0") \in Seq(Byte) /\ DecodesTo(s \o Append(<<>>, "F0"), w, m0, n0, "F0", m, n)
    BY <1>1, <1>2, DecodesSilent DEF Byte, Decoder, Silent
  <2> QED BY <2>1
<1>4. CASE k = "slash"
  <2>1. DecodesTo(s \o Append(<<"F0">>, "4A"), w, m0, n0, "start", m, n)
    BY <1>3, DecodesSilent DEF Byte, Decoder, Silent
  <2>2. BreakOf[k] = Append(<<"F0">>, "4A")
    BY <1>4 DEF BreakOf
  <2> QED BY <1>4, <2>1, <2>2
<1>5. CASE k = "caps"
  <2>1. DecodesTo(s \o Append(<<"F0">>, "58"), w, m0, n0, "start", m, n)
    BY <1>3, DecodesSilent DEF Byte, Decoder, Silent
  <2>2. BreakOf[k] = Append(<<"F0">>, "58")
    BY <1>5 DEF BreakOf
  <2> QED BY <1>5, <2>1, <2>2
<1>6. CASE k = "shift"
  <2>1. Reads(w, "F0", m, n, "12", "start", m \ {"shift"}, n)
    BY DEF Reads
  <2>2. "12" \in Byte /\ "start" \in Decoder /\ m \ {"shift"} \in Modifiers
    BY DEF Byte, Decoder, Modifiers
  <2>3. DecodesTo(s \o Append(<<"F0">>, "12"), w, m0, n0, "start", m \ {"shift"}, n)
    BY <1>3, <2>1, <2>2, DecodesMore
  <2>4. BreakOf[k] = Append(<<"F0">>, "12")
    BY <1>6 DEF BreakOf
  <2> QED BY <1>6, <2>3, <2>4
<1>7. CASE k = "pause"
  BY <1>2, <1>7 DEF BreakOf
<1>8. CASE k = "kpslash"
  <2> DEFINE t1 == Append(<<>>, "E0")
             t2 == Append(t1, "F0")
             t3 == Append(t2, "4A")
  <2>1. BreakOf[k] = t3
    BY <1>8 DEF BreakOf
  <2> HIDE DEF t1, t2, t3
  <2>2. t1 \in Seq(Byte) /\ DecodesTo(s \o t1, w, m0, n0, "E0", m, n)
    BY <1>1, <1>2, DecodesSilent DEF Byte, Decoder, Silent, t1
  <2>3. t2 \in Seq(Byte) /\ DecodesTo(s \o t2, w, m0, n0, "E0F0", m, n)
    BY <2>2, DecodesSilent DEF Byte, Decoder, Silent, t2
  <2>4. DecodesTo(s \o t3, w, m0, n0, "start", m, n)
    BY <2>3, DecodesSilent DEF Byte, Decoder, Silent, t3
  <2> QED BY <1>8, <2>1, <2>4
<1> QED BY <1>4, <1>5, <1>6, <1>7, <1>8 DEF AllKeys

LEMMA DecodesPress ==
  ASSUME NEW s \in Seq(Byte), NEW w, NEW m0, NEW n0, NEW m \in Modifiers, NEW n \in Int,
         DecodesTo(s, w, m0, n0, "start", m, n), NEW k \in AllKeys,
         k \in Typing => n + 1 \in 1 .. Len(w) /\ w[n + 1].key = k /\ w[n + 1].mods = m
  PROVE  DecodesTo(s \o MakeOf[k], w, m0, n0, "start", IF k = "shift" THEN m \cup {"shift"} ELSE m,
                 IF k \in Typing THEN n + 1 ELSE n)
<1>1. <<>> \in Seq(Byte) /\ s \o <<>> = s
  BY EmptySeq, ConcatEmptySeq
<1>2. DecodesTo(s \o <<>>, w, m0, n0, "start", m, n)
  BY <1>1
<1>3. CASE k = "slash"
  <2> DEFINE t == Append(<<>>, "4A")
  <2>1. MakeOf[k] = t
    BY <1>3 DEF MakeOf
  <2> HIDE DEF t
  <2>2. k \in Typing /\ k # "shift" /\ n + 1 \in 1 .. Len(w) /\ w[n + 1].key = "slash" /\ w[n + 1].mods = m
    BY <1>3 DEF Typing
  <2>3. <<"start", "4A", w[n + 1].key>> \in Typed
    BY <2>2 DEF Typed
  <2>4. DecodesTo(s \o t, w, m0, n0, "start", m, n + 1)
    BY <1>1, <1>2, <2>2, <2>3, DecodesTyped DEF Byte, t
  <2> QED BY <2>1, <2>2, <2>4
<1>4. CASE k = "kpslash"
  <2> DEFINE t1 == Append(<<>>, "E0")
             t2 == Append(t1, "4A")
  <2>1. MakeOf[k] = t2
    BY <1>4 DEF MakeOf
  <2> HIDE DEF t1, t2
  <2>2. k \in Typing /\ k # "shift" /\ n + 1 \in 1 .. Len(w) /\ w[n + 1].key = "kpslash" /\ w[n + 1].mods = m
    BY <1>4 DEF Typing
  <2>3. <<"E0", "4A", w[n + 1].key>> \in Typed
    BY <2>2 DEF Typed
  <2>4. t1 \in Seq(Byte) /\ DecodesTo(s \o t1, w, m0, n0, "E0", m, n)
    BY <1>1, <1>2, DecodesSilent DEF Byte, Decoder, Silent, t1
  <2>5. DecodesTo(s \o t2, w, m0, n0, "start", m, n + 1)
    BY <2>2, <2>3, <2>4, DecodesTyped DEF Byte, t2
  <2> QED BY <2>1, <2>2, <2>5
<1>5. CASE k = "shift"
  <2> DEFINE t == Append(<<>>, "12")
  <2>1. MakeOf[k] = t
    BY <1>5 DEF MakeOf
  <2> HIDE DEF t
  <2>2. Reads(w, "start", m, n, "12", "start", m \cup {"shift"}, n)
    BY DEF Reads
  <2>3. "12" \in Byte /\ "start" \in Decoder /\ m \cup {"shift"} \in Modifiers
    BY DEF Byte, Decoder, Modifiers
  <2>4. DecodesTo(s \o t, w, m0, n0, "start", m \cup {"shift"}, n)
    BY <1>1, <1>2, <2>2, <2>3, DecodesMore DEF t
  <2>5. k \notin Typing
    BY <1>5 DEF Typing
  <2> QED BY <1>5, <2>1, <2>4, <2>5
<1>6. CASE k = "caps"
  <2> DEFINE t == Append(<<>>, "58")
  <2>1. MakeOf[k] = t
    BY <1>6 DEF MakeOf
  <2> HIDE DEF t
  <2>2. DecodesTo(s \o t, w, m0, n0, "start", m, n)
    BY <1>1, <1>2, DecodesSilent DEF Byte, Decoder, Silent, t
  <2>3. k \notin Typing /\ k # "shift"
    BY <1>6 DEF Typing
  <2> QED BY <2>1, <2>2, <2>3
<1>7. CASE k = "pause"
  <2> DEFINE t1 == Append(<<>>, "E1")
             t2 == Append(t1, "14")
             t3 == Append(t2, "77")
             t4 == Append(t3, "E1")
             t5 == Append(t4, "F0")
             t6 == Append(t5, "14")
             t7 == Append(t6, "F0")
             t8 == Append(t7, "77")
  <2>1. MakeOf[k] = t8
    BY <1>7 DEF MakeOf
  <2> HIDE DEF t1, t2, t3, t4, t5, t6, t7, t8
  <2>2. k \in Typing /\ k # "shift" /\ n + 1 \in 1 .. Len(w) /\ w[n + 1].key = "pause" /\ w[n + 1].mods = m
    BY <1>7 DEF Typing
  <2>3. <<"E114", "77", w[n + 1].key>> \in Typed /\ n + 1 \in Int
    BY <2>2 DEF Typed
  <2>4. t1 \in Seq(Byte) /\ DecodesTo(s \o t1, w, m0, n0, "E1", m, n)
    BY <1>1, <1>2, DecodesSilent DEF Byte, Decoder, Silent, t1
  <2>5. t2 \in Seq(Byte) /\ DecodesTo(s \o t2, w, m0, n0, "E114", m, n)
    BY <2>4, DecodesSilent DEF Byte, Decoder, Silent, t2
  <2>6. t3 \in Seq(Byte) /\ DecodesTo(s \o t3, w, m0, n0, "start", m, n + 1)
    BY <2>2, <2>3, <2>5, DecodesTyped DEF Byte, t3
  <2>7. t4 \in Seq(Byte) /\ DecodesTo(s \o t4, w, m0, n0, "E1", m, n + 1)
    BY <2>3, <2>6, DecodesSilent DEF Byte, Decoder, Silent, t4
  <2>8. t5 \in Seq(Byte) /\ DecodesTo(s \o t5, w, m0, n0, "E1F0", m, n + 1)
    BY <2>3, <2>7, DecodesSilent DEF Byte, Decoder, Silent, t5
  <2>9. t6 \in Seq(Byte) /\ DecodesTo(s \o t6, w, m0, n0, "start", m, n + 1)
    BY <2>3, <2>8, DecodesSilent DEF Byte, Decoder, Silent, t6
  <2>10. t7 \in Seq(Byte) /\ DecodesTo(s \o t7, w, m0, n0, "F0", m, n + 1)
    BY <2>3, <2>9, DecodesSilent DEF Byte, Decoder, Silent, t7
  <2>11. DecodesTo(s \o t8, w, m0, n0, "start", m, n + 1)
    BY <2>3, <2>10, DecodesSilent DEF Byte, Decoder, Silent, t8
  <2> QED BY <2>1, <2>2, <2>11
<1> QED BY <1>3, <1>4, <1>5, <1>6, <1>7 DEF AllKeys

----------------------------------------------------------------------------
(* The bytes on their way: in the scan code queue, in the hand of a context, *)
(* in the input data queue and on the line.                                  *)

InHand(p, h) == IF p["app"] = "push" THEN <<h["app"]>>
                ELSE IF p["timer"] = "push" THEN <<h["timer"]>> ELSE <<>>
Stream == ((scanq \o InHand(pc, hand)) \o inq) \o wire

\* Without preemption one context waits while the other runs.
OneRuns == pc["app"] = "idle" \/ pc["timer"] = "idle"

\* As long as nothing is dropped, the bytes on their way decode to the strokes
\* that are not in the EFI key queue yet, and to the modifiers that are down.
KeysInv ==
  ~lost => /\ \A i \in 1 .. Len(keyq) : i <= Len(awaited) /\ keyq[i] = awaited[i]
           /\ DecodesTo(Stream, awaited, mods, Len(keyq), "start", held \cap {"shift"}, Len(awaited))

LEMMA Assoc ==
  ASSUME NEW x \in Seq(Byte), NEW i \in Seq(Byte), NEW v \in Seq(Byte)
  PROVE  (x \o i) \o v = x \o (i \o v)
  BY ConcatAssociative

LEMMA HandOf ==
  ASSUME NEW p \in [Context -> Stage], NEW h, NEW c \in Context, \A d \in Context \ {c} : p[d] = "idle"
  PROVE  InHand(p, h) = IF p[c] = "push" THEN <<h[c]>> ELSE <<>>
  BY DEF InHand, Context

LEMMA StreamTypes ==
  ASSUME KbdTypeOK
  PROVE  /\ InHand(pc, hand) \in Seq(Byte)
         /\ scanq \o InHand(pc, hand) \in Seq(Byte)
         /\ (scanq \o InHand(pc, hand)) \o inq \in Seq(Byte)
         /\ Stream \in Seq(Byte)
<1>1. InHand(pc, hand) \in Seq(Byte)
  <2>1. /\ pc["app"] = "push" => hand["app"] \in Byte
        /\ pc["timer"] = "push" => hand["timer"] \in Byte
    BY DEF KbdTypeOK, Context
  <2> QED BY <2>1, EmptySeq DEF InHand
<1>2. scanq \in Seq(Byte) /\ inq \in Seq(Byte) /\ wire \in Seq(Byte)
  BY DEF KbdTypeOK
<1>3. scanq \o InHand(pc, hand) \in Seq(Byte)
  BY <1>1, <1>2, ConcatProperties
<1>4. (scanq \o InHand(pc, hand)) \o inq \in Seq(Byte)
  BY <1>2, <1>3, ConcatProperties
<1>5. Stream \in Seq(Byte)
  BY <1>2, <1>4, ConcatProperties DEF Stream
<1> QED BY <1>1, <1>3, <1>4, <1>5

\* Steps that pass bytes on, from the line to the input data queue, the hand
\* and the scan code queue.
LEMMA PassFill ==
  ASSUME NEW x \in Seq(Byte), NEW i \in Seq(Byte), NEW v \in Seq(Byte)
  PROVE  (x \o <<>>) \o (i \o v) = (x \o i) \o v
<1>1. x \o <<>> = x
  BY ConcatEmptySeq
<1>2. (x \o i) \o v = x \o (i \o v)
  BY ConcatAssociative
<1> QED BY <1>1, <1>2

LEMMA PassByte ==
  ASSUME NEW s \in Seq(Byte), NEW b \in Byte, NEW t \in Seq(Byte), NEW i, <<b>> \o t = i, NEW v
  PROVE  ((s \o <<>>) \o i) \o v = ((s \o <<b>>) \o t) \o v
<1>1. s \o <<>> = s
  BY ConcatEmptySeq
<1>2. <<b>> \in Seq(Byte)
  OBVIOUS
<1>3. (s \o <<b>>) \o t = s \o (<<b>> \o t)
  BY <1>2, ConcatAssociative
<1> QED BY <1>1, <1>3

LEMMA PassPush ==
  ASSUME NEW s \in Seq(Byte), NEW b \in Byte
  PROVE  (s \o <<b>>) \o <<>> = s \o <<b>>
<1>1. s \o <<b>> \in Seq(Byte)
  BY ConcatProperties
<1> QED BY <1>1, ConcatEmptySeq

\* The context that runs is the only one that is not idle.
LEMMA OthersIdle ==
  ASSUME OneRuns, NEW c \in Context, pc[c] # "idle"
  PROVE  \A d \in Context \ {c} : pc[d] = "idle"
  BY DEF OneRuns, Context

\* A step of the context that runs, to the stage l.
LEMMA Moves ==
  ASSUME KbdTypeOK, NEW c \in Context, \A d \in Context \ {c} : pc[d] = "idle", NEW l, Goto(c, l)
  PROVE  /\ OneRuns'
         /\ InHand(pc, hand) = IF pc[c] = "push" THEN <<hand[c]>> ELSE <<>>
         /\ InHand(pc, hand)' = IF l = "push" THEN <<hand'[c]>> ELSE <<>>
<1>1. pc \in [Context -> Stage]
  BY DEF KbdTypeOK, Stage
<1>2. pc'[c] = l /\ \A d \in Context \ {c} : pc'[d] = "idle"
  BY <1>1 DEF Goto
<1> QED BY <1>1, <1>2 DEF OneRuns, InHand, Context

\* Where a step of KeyboardGetPacket goes.
LEMMA PacketMoves ==
  ASSUME KbdTypeOK, NEW c \in Context, Packet(c)
  PROVE  pc[c] # "idle" /\ (UNCHANGED pc \/ \E l \in Stage : Goto(c, l))
<1>1. pc[c] # "idle"
  BY DEF Packet, TakeFill, TakeByte, PushScancode, TakeNothing, GetcharSkip, GetcharKey, GetcharNothing, LightsSetup,
         LightsCommand, AckFill, AckByte, AckTimeout, Waited
<1>2. AfterPacket(c) \in Stage
  BY AfterPacketStage
<1>3. ASSUME TakeFill(c) \/ TakeByte(c) \/ PushScancode(c) \/ TakeNothing(c) \/ GetcharSkip(c)
      PROVE  UNCHANGED pc \/ \E l \in Stage : Goto(c, l)
  BY <1>3 DEF TakeFill, TakeByte, PushScancode, TakeNothing, GetcharSkip, ctxVars, Stage
<1>4. ASSUME GetcharKey(c) \/ GetcharNothing(c)
      PROVE  UNCHANGED pc \/ \E l \in Stage : Goto(c, l)
  <2>1. PICK b : GetcharReturn(c, b)
    BY <1>4 DEF GetcharKey, GetcharNothing
  <2> QED BY <2>1, <1>2 DEF GetcharReturn, Stage
<1>5. ASSUME LightsSetup(c) \/ LightsCommand(c) \/ AckFill(c)
      PROVE  UNCHANGED pc \/ \E l \in Stage : Goto(c, l)
  BY <1>5 DEF LightsSetup, LightsCommand, AckFill, ctxVars, Stage
<1>6. ASSUME AckByte(c) \/ AckTimeout(c)
      PROVE  UNCHANGED pc \/ \E l \in Stage : Goto(c, l)
  BY <1>2, <1>6 DEF AckByte, AckTimeout, Waited, Stage
<1> QED BY <1>1, <1>3, <1>4, <1>5, <1>6 DEF Packet

LEMMA OneRunsStep ==
  ASSUME ~Preempt, KbdTypeOK, OneRuns, [Next]_vars
  PROVE  OneRuns'
<1>1. ASSUME UNCHANGED pc PROVE OneRuns'
  BY <1>1 DEF OneRuns
<1>2. ASSUME NEW c \in Context, Packet(c) PROVE OneRuns'
  BY <1>1, <1>2, PacketMoves, OthersIdle, Moves
<1>3. ASSUME TimerFires PROVE OneRuns'
  <2>1. Goto("timer", "take") /\ pc["app"] = "idle"
    BY <1>3 DEF TimerFires, Interruptible
  <2> QED BY <2>1, Moves DEF Context
<1>4. ASSUME ReadKeyStroke \/ ReadKey \/ \E v \in Toggles : SetState(v) PROVE OneRuns'
  <2>1. pc["timer"] = "idle" /\ \E l : Goto("app", l)
    BY <1>4 DEF ReadKeyStroke, ReadKey, SetState, Runs
  <2> QED BY <2>1, Moves DEF Context
<1>5. ASSUME User \/ KbdAnswer PROVE UNCHANGED pc
  BY <1>5 DEF User, KbdAnswer, KbdPress, KbdRelease, ctxVars
<1> QED BY <1>1, <1>2, <1>3, <1>4, <1>5 DEF Next, vars, ctxVars

\* Nothing that KeysInv speaks of has changed.
LEMMA KeysStay ==
  ASSUME KeysInv, ~lost' => ~lost, UNCHANGED <<keyq, awaited, mods, held>>, Stream' = Stream
  PROVE  KeysInv'
  BY DEF KeysInv

LEMMA PressKeeps ==
  ASSUME KbdTypeOK, KeysInv, NEW k \in Keys, KbdPress(k)
  PROVE  KeysInv'
<1> DEFINE left == (scanq \o InHand(pc, hand)) \o inq
           m    == held \cap {"shift"}
           n    == Len(awaited)
<1>1. ~lost /\ k \in AllKeys /\ MakeOf[k] \in Seq(Byte)
  BY KeyBytes, KeyboardAssumption DEF KbdPress, UserActs, KeyboardAssumption
<1>2. /\ \A i \in 1 .. Len(keyq) : i <= n /\ keyq[i] = awaited[i]
      /\ DecodesTo(Stream, awaited, mods, Len(keyq), "start", m, n)
  BY <1>1 DEF KeysInv
<1>3. left \in Seq(Byte) /\ Stream \in Seq(Byte) /\ wire \in Seq(Byte) /\ awaited \in Seq(KeyStroke) /\ n \in Nat
  BY StreamTypes, LenProperties DEF KbdTypeOK
<1>4. Stream' = Stream \o MakeOf[k]
  <2>1. Stream' = left \o (wire \o MakeOf[k]) /\ Stream = left \o wire
    BY DEF Stream, KbdPress, queueVars, ctxVars, InHand
  <2> DEFINE more == MakeOf[k]
  <2>2. more \in Seq(Byte)
    BY <1>1
  <2> HIDE DEF left, more
  <2>3. (left \o wire) \o more = left \o (wire \o more)
    <3>1. left \in Seq(Byte) /\ wire \in Seq(Byte)
      BY <1>3
    <3> QED BY <2>2, <3>1, Assoc
  <2> QED BY <2>1, <2>3 DEF more
<1>5. keyq' = keyq /\ mods' = mods /\ held' = held \cup {k} /\ lost' = lost
  BY DEF KbdPress, queueVars, stateVars
<1>6. m \in Modifiers /\ n \in Int
  BY <1>3 DEF Modifiers
<1> HIDE DEF left
<1>7. CASE k \notin Typing
  <2>1. awaited' = awaited
    BY <1>7 DEF KbdPress
  <2>2. DecodesTo(Stream \o MakeOf[k], awaited, mods, Len(keyq), "start", IF k = "shift" THEN m \cup {"shift"} ELSE m, n)
    BY <1>1, <1>2, <1>3, <1>6, <1>7, DecodesPress
  <2>3. (IF k = "shift" THEN m \cup {"shift"} ELSE m) = held' \cap {"shift"}
    BY <1>5
  <2> QED BY <1>2, <1>4, <1>5, <2>1, <2>2, <2>3 DEF KeysInv
<1>8. CASE k \in Typing
  <2> DEFINE x == [key |-> k, mods |-> m]
             w == Append(awaited, x)
  <2>1. awaited' = w /\ x \in KeyStroke
    BY <1>1, <1>8 DEF KbdPress, KeyStroke
  <2>2. x.key = k /\ x.mods = m
    OBVIOUS
  <2> HIDE DEF x, m
  <2>3. Len(w) = n + 1 /\ w[n + 1] = x /\ \A i \in 1 .. n : w[i] = awaited[i]
    BY <1>3, <2>1, AppendProperties
  <2>4. DecodesTo(Stream, w, mods, Len(keyq), "start", m, n)
    BY <1>2, <1>3, <2>1, DecodesLonger
  <2>5. n + 1 \in 1 .. Len(w)
    BY <1>3, <2>3
  <2> HIDE DEF w, n
  <2>6. k # "shift"
    BY <1>8 DEF Typing
  <2>7. DecodesTo(Stream \o MakeOf[k], w, mods, Len(keyq), "start", IF k = "shift" THEN m \cup {"shift"} ELSE m,
                IF k \in Typing THEN n + 1 ELSE n)
    <3>1. w[n + 1].key = k /\ w[n + 1].mods = m
      BY <2>2, <2>3
    <3> DEFINE q == Len(keyq)
    <3> HIDE DEF q
    <3>2. DecodesTo(Stream, w, mods, q, "start", m, n)
      BY <2>4 DEF q
    <3>3. DecodesTo(Stream \o MakeOf[k], w, mods, q, "start", IF k = "shift" THEN m \cup {"shift"} ELSE m,
                    IF k \in Typing THEN n + 1 ELSE n)
      BY <1>1, <1>3, <1>6, <2>5, <3>1, <3>2, DecodesPress
    <3> QED BY <3>3 DEF q
  <2>8. held' \cap {"shift"} = m
    BY <1>5, <2>6 DEF m
  <2>9. \A i \in 1 .. Len(keyq) : i <= Len(w) /\ keyq[i] = w[i]
    <3>1. Len(keyq) \in Nat
      BY LenProperties DEF KbdTypeOK
    <3> DEFINE q == Len(keyq)
    <3>2. \A i \in 1 .. q : i <= n /\ keyq[i] = awaited[i]
      BY <1>2 DEF n
    <3>3. n \in Nat /\ Len(w) = n + 1 /\ \A i \in 1 .. n : w[i] = awaited[i]
      BY <1>3, <2>3
    <3> HIDE DEF q
    <3>4. q \in Nat
      BY <3>1 DEF q
    <3>5. ASSUME NEW i \in 1 .. q PROVE i <= Len(w) /\ keyq[i] = w[i]
      <4>1. i \in 1 .. n /\ i <= n + 1
        BY <3>2, <3>3, <3>4
      <4> QED BY <3>2, <3>3, <4>1
    <3> QED BY <3>5 DEF q
  <2> QED BY <1>4, <1>5, <1>8, <2>1, <2>3, <2>6, <2>7, <2>8, <2>9 DEF KeysInv
<1> QED BY <1>7, <1>8

LEMMA ReleaseKeeps ==
  ASSUME KbdTypeOK, KeysInv, NEW k \in Keys, KbdRelease(k)
  PROVE  KeysInv'
<1> DEFINE left == (scanq \o InHand(pc, hand)) \o inq
           m    == held \cap {"shift"}
           n    == Len(awaited)
<1>1. ~lost /\ k \in AllKeys /\ BreakOf[k] \in Seq(Byte)
  BY KeyBytes, KeyboardAssumption DEF KbdRelease, UserActs, KeyboardAssumption
<1>2. /\ \A i \in 1 .. Len(keyq) : i <= n /\ keyq[i] = awaited[i]
      /\ DecodesTo(Stream, awaited, mods, Len(keyq), "start", m, n)
  BY <1>1 DEF KeysInv
<1>3. left \in Seq(Byte) /\ Stream \in Seq(Byte) /\ wire \in Seq(Byte) /\ n \in Nat
  BY StreamTypes, LenProperties DEF KbdTypeOK
<1>4. Stream' = Stream \o BreakOf[k]
  <2>1. Stream' = left \o (wire \o BreakOf[k]) /\ Stream = left \o wire
    BY DEF Stream, KbdRelease, queueVars, ctxVars, InHand
  <2> DEFINE more == BreakOf[k]
  <2>2. more \in Seq(Byte)
    BY <1>1
  <2> HIDE DEF left, more
  <2>3. (left \o wire) \o more = left \o (wire \o more)
    <3>1. left \in Seq(Byte) /\ wire \in Seq(Byte)
      BY <1>3
    <3> QED BY <2>2, <3>1, Assoc
  <2> QED BY <2>1, <2>3 DEF more
<1>5. keyq' = keyq /\ mods' = mods /\ held' = held \ {k} /\ lost' = lost /\ awaited' = awaited
  BY DEF KbdRelease, queueVars, stateVars
<1>6. m \in Modifiers /\ n \in Int
  BY <1>3 DEF Modifiers
<1>7. DecodesTo(Stream \o BreakOf[k], awaited, mods, Len(keyq), "start", IF k = "shift" THEN m \ {"shift"} ELSE m, n)
  <2> HIDE DEF m, n, left
  <2> QED BY <1>1, <1>2, <1>3, <1>6, DecodesRelease
<1>8. (IF k = "shift" THEN m \ {"shift"} ELSE m) = held' \cap {"shift"}
  BY <1>5
<1> QED BY <1>2, <1>4, <1>5, <1>7, <1>8 DEF KeysInv

LEMMA AnswerKeeps ==
  ASSUME KbdTypeOK, KeysInv, KbdAnswer
  PROVE  KeysInv'
<1> DEFINE left == (scanq \o InHand(pc, hand)) \o inq
           m    == held \cap {"shift"}
           n    == Len(awaited)
<1>1. left \in Seq(Byte) /\ Stream \in Seq(Byte) /\ wire \in Seq(Byte) /\ n \in Int /\ m \in Modifiers /\ "ACK" \in Byte
  BY StreamTypes, LenProperties DEF KbdTypeOK, Modifiers, Byte
<1>2. Stream' = Append(Stream, "ACK")
  <2>1. Stream' = left \o Append(wire, "ACK") /\ Stream = left \o wire
    BY DEF Stream, KbdAnswer, queueVars, ctxVars, InHand
  <2> HIDE DEF left
  <2> QED BY <1>1, <2>1, ConcatMore
<1>3. keyq' = keyq /\ mods' = mods /\ held' = held /\ lost' = lost /\ awaited' = awaited
  BY DEF KbdAnswer, userVars, queueVars, stateVars
<1> HIDE DEF left
<1>4. Reads(awaited, "start", m, n, "ACK", "start", m, n) /\ "start" \in Decoder
  BY DEF Reads, Silent, Decoder
<1>5. ASSUME ~lost PROVE DecodesTo(Append(Stream, "ACK"), awaited, mods, Len(keyq), "start", m, n)
  <2>1. DecodesTo(Stream, awaited, mods, Len(keyq), "start", m, n)
    BY <1>5 DEF KeysInv
  <2> HIDE DEF m, n
  <2> QED BY <1>1, <1>4, <2>1, DecodesByte
<1> QED BY <1>2, <1>3, <1>5 DEF KeysInv

\* Steps that change neither the bytes nor the strokes.
LEMMA QuietKeeps ==
  ASSUME KbdTypeOK, KeysInv, NEW c \in Context, \A d \in Context \ {c} : pc[d] = "idle",
         pc[c] # "push", NEW l \in Stage \ {"push"}, Goto(c, l),
         UNCHANGED <<scanq, inq, wire, keyq, awaited, mods, held>>, ~lost' => ~lost
  PROVE  KeysInv'
<1>1. InHand(pc, hand)' = InHand(pc, hand)
  BY Moves
<1>2. Stream' = Stream
  BY <1>1 DEF Stream
<1> QED BY <1>2, KeysStay

LEMMA KbdFillKeeps ==
  ASSUME KbdTypeOK, KeysInv, NEW c \in Context, TakeFill(c) \/ AckFill(c)
  PROVE  KeysInv'
<1> DEFINE x == scanq \o InHand(pc, hand)
<1>1. PICK n \in 1 .. Len(wire) : Fill(n)
  BY DEF TakeFill, AckFill
<1>2. /\ wire' \in Seq(Byte) /\ inq' \in Seq(Byte)
      /\ ~lost' => ~lost /\ inq' \o wire' = wire
  BY <1>1, FillTypes
<1>3. x \in Seq(Byte) /\ inq = <<>>
  BY <1>1, StreamTypes DEF Fill
<1>4. x' = x /\ UNCHANGED <<keyq, awaited, mods, held>>
  BY DEF TakeFill, AckFill, userVars, stateVars, ctxVars, InHand
<1>5. Stream = (x \o inq) \o wire /\ Stream' = (x' \o inq') \o wire'
  BY DEF Stream
<1> HIDE DEF x
<1>6. (x \o <<>>) \o (inq' \o wire') = (x \o inq') \o wire'
  <2> DEFINE i == inq'
             v == wire'
  <2> HIDE DEF i, v
  <2>1. (x \o <<>>) \o (i \o v) = (x \o i) \o v
    BY <1>2, <1>3, PassFill DEF i, v
  <2> QED BY <2>1 DEF i, v
<1>7. ~lost' => Stream' = Stream
  BY <1>2, <1>3, <1>4, <1>5, <1>6
<1>8. ASSUME ~lost' PROVE KeysInv'
  BY <1>2, <1>4, <1>7, <1>8, KeysStay
<1> QED BY <1>8 DEF KeysInv

LEMMA TakeByteKeeps ==
  ASSUME KbdTypeOK, KeysInv, OneRuns, NEW c \in Context, TakeByte(c)
  PROVE  KeysInv'
<1>1. \A d \in Context \ {c} : pc[d] = "idle"
  BY OthersIdle DEF TakeByte
<1>2. pc[c] = "take" /\ Goto(c, "push") /\ hand'[c] = Head(inq)
  BY DEF TakeByte, KbdTypeOK
<1>3. InHand(pc, hand) = <<>> /\ InHand(pc, hand)' = <<hand'[c]>>
  BY <1>1, <1>2, Moves
<1>4. Head(inq) \in Byte /\ Tail(inq) \in Seq(Byte) /\ <<Head(inq)>> \o Tail(inq) = inq /\ scanq \in Seq(Byte)
  BY InputTypes DEF TakeByte, KbdTypeOK
<1>5. ((scanq \o <<>>) \o inq) \o wire = ((scanq \o <<Head(inq)>>) \o Tail(inq)) \o wire
  <2> DEFINE b == Head(inq)
             t == Tail(inq)
  <2> HIDE DEF b, t
  <2> QED BY <1>4, PassByte DEF b, t
<1>6. UNCHANGED <<scanq, wire, keyq, awaited, mods, held, lost>> /\ inq' = Tail(inq)
  BY DEF TakeByte, userVars, stateVars
<1>7. Stream' = Stream
  BY <1>2, <1>3, <1>5, <1>6 DEF Stream
<1> QED BY <1>6, <1>7, KeysStay

LEMMA PushKeeps ==
  ASSUME KbdTypeOK, KeysInv, OneRuns, NEW c \in Context, PushScancode(c)
  PROVE  KeysInv'
<1>1. \A d \in Context \ {c} : pc[d] = "idle"
  BY OthersIdle DEF PushScancode
<1>2. pc[c] = "push" /\ Goto(c, "take") /\ hand[c] \in Byte /\ scanq \in Seq(Byte)
  BY DEF PushScancode, KbdTypeOK
<1>3. InHand(pc, hand) = <<hand[c]>> /\ InHand(pc, hand)' = <<>>
  BY <1>1, <1>2, Moves
<1>4. UNCHANGED <<inq, wire, keyq, awaited, mods, held>>
  BY DEF PushScancode, userVars, stateVars
<1>5. ASSUME ~lost' PROVE KeysInv'
  <2>1. ~(lost \/ Len(scanq) = ScanMax)
    BY <1>5, Zenon DEF PushScancode
  <2>2. scanq' = scanq \o <<hand[c]>>
    BY <1>2, <2>1, ScanPushTypes DEF PushScancode
  <2>3. (scanq \o <<hand[c]>>) \o <<>> = scanq \o <<hand[c]>>
    BY <1>2, PassPush
  <2>4. Stream' = Stream
    BY <1>3, <1>4, <2>2, <2>3 DEF Stream
  <2> QED BY <1>4, <2>1, <2>4, KeysStay
<1> QED BY <1>5 DEF KeysInv

LEMMA TurnsKeep ==
  ASSUME ~Preempt, KbdTypeOK, KeysInv, OneRuns,
         \/ TimerFires \/ ReadKeyStroke \/ \E v \in Toggles : SetState(v)
         \/ \E c \in Context : TakeNothing(c) \/ GetcharNothing(c) \/ AckTimeout(c)
  PROVE  KeysInv'
<1>1. CASE TimerFires
  <2>1. Goto("timer", "take") /\ pc["timer"] = "idle" /\ pc["app"] = "idle"
    BY <1>1 DEF TimerFires, Interruptible
  <2>2. UNCHANGED <<scanq, inq, wire, keyq, awaited, mods, held, lost>>
    BY <1>1 DEF TimerFires, userVars, queueVars, stateVars
  <2> QED BY <2>1, <2>2, QuietKeeps DEF Context, Stage
<1>2. CASE ReadKeyStroke \/ \E v \in Toggles : SetState(v)
  <2>1. pc["timer"] = "idle" /\ pc["app"] = "idle" /\ \E l \in Stage \ {"push"} : Goto("app", l)
    BY <1>2 DEF ReadKeyStroke, SetState, Runs, Stage
  <2>2. UNCHANGED <<scanq, inq, wire, keyq, awaited, mods, held, lost>>
    BY <1>2 DEF ReadKeyStroke, SetState, userVars, queueVars, stateVars
  <2> QED BY <2>1, <2>2, QuietKeeps DEF Context
<1>3. ASSUME NEW c \in Context, TakeNothing(c) \/ GetcharNothing(c) \/ AckTimeout(c)
      PROVE  KeysInv'
  <2>1. pc[c] # "idle" /\ pc[c] # "push" /\ \E l \in Stage \ {"push"} : Goto(c, l)
    BY <1>3, AfterPacketStage DEF TakeNothing, GetcharNothing, GetcharReturn, AckTimeout, Waited, Stage
  <2>2. UNCHANGED <<scanq, inq, wire, keyq, awaited, mods, held, lost>>
    BY <1>3 DEF TakeNothing, GetcharNothing, AckTimeout, userVars, queueVars, stateVars
  <2> QED BY <2>1, <2>2, OthersIdle, QuietKeeps
<1> QED BY <1>1, <1>2, <1>3

\* What is left of a sequence whose first element is removed.
LEMMA FirstRemoved ==
  ASSUME NEW T, NEW s \in Seq(T), s # <<>>
  PROVE  RemoveAt(s, 1) = Tail(s)
<1>1. Tail(s) \in Seq(T)
  BY HeadTailProperties
<1>6. Tail(s) = SubSeq(s, 2, Len(s))
  BY TailIsSubSeq
<1>2. SubSeq(s, 1, 1 - 1) = <<>>
  BY SubSeqEmpty
<1>3. RemoveAt(s, 1) = SubSeq(s, 1, 1 - 1) \o SubSeq(s, 1 + 1, Len(s))
  BY DEF RemoveAt
<1>4. <<>> \o Tail(s) = Tail(s)
  BY <1>1, ConcatEmptySeq
<1>5. 1 + 1 = 2
  OBVIOUS
<1> QED BY <1>2, <1>3, <1>4, <1>5, <1>6

LEMMA ReadKeyKeeps ==
  ASSUME KbdTypeOK, KeysInv, ReadKey
  PROVE  KeysInv'
<1>1. /\ pc["app"] = "read" /\ pc["timer"] = "idle" /\ Goto("app", "idle")
      /\ UNCHANGED <<scanq, inq, wire, mods, held, lost>>
  BY DEF ReadKey, Runs, stateVars
<1>2. Stream' = Stream
  <2>1. InHand(pc, hand)' = InHand(pc, hand)
    BY <1>1, Moves DEF Context
  <2> QED BY <1>1, <2>1 DEF Stream
<1>3. CASE keyq = <<>>
  BY <1>1, <1>2, <1>3, KeysStay DEF ReadKey
<1>4. CASE keyq # <<>>
  <2> DEFINE made == {i \in DOMAIN awaited : awaited[i].key = Head(keyq).key}
             m    == held \cap {"shift"}
             n    == Len(awaited)
             l    == Len(keyq)
  <2> SUFFICES ASSUME ~lost PROVE KeysInv'
    BY <1>1 DEF KeysInv
  <2>1. /\ \A i \in 1 .. l : i <= n /\ keyq[i] = awaited[i]
        /\ DecodesTo(Stream, awaited, mods, l, "start", m, n)
    BY DEF KeysInv
  <2>2. /\ keyq' = Tail(keyq) /\ keyq \in Seq(KeyStroke) /\ l \in Nat \ {0} /\ Len(Tail(keyq)) = l - 1
        /\ Head(keyq) = keyq[1] /\ \A i \in 1 .. l - 1 : Tail(keyq)[i] = keyq[i + 1]
    BY <1>4, HeadTailProperties, LenProperties, EmptySeq DEF ReadKey, KbdTypeOK
  <2>3. awaited \in Seq(KeyStroke) /\ n \in Nat /\ DOMAIN awaited = 1 .. n
    BY LenProperties DEF KbdTypeOK
  <2>4. awaited[1] = Head(keyq) /\ 1 \in made /\ awaited # <<>>
    <3>1. 1 \in 1 .. l /\ 1 <= n
      BY <2>1, <2>2
    <3> QED BY <2>1, <2>2, <2>3, <3>1, EmptySeq
  <2>5. awaited' = RemoveAt(awaited, Min(made))
    BY <1>4, <2>4 DEF ReadKey
  <2>6. Min(made) = 1
    <3>1. made \in SUBSET DOMAIN awaited /\ made # {}
      BY <2>4
    <3> HIDE DEF made, n
    <3>2. Min(made) \in made /\ Min(made) <= 1
      BY <2>3, <2>4, <3>1, MadeFacts
    <3> QED BY <2>3, <3>1, <3>2
  <2>7. awaited' = Tail(awaited)
    <3> HIDE DEF made
    <3>1. RemoveAt(awaited, 1) = Tail(awaited)
      BY <2>3, <2>4, FirstRemoved
    <3> QED BY <2>5, <2>6, <3>1
  <2>8. Len(Tail(awaited)) = n - 1 /\ \A i \in 1 .. n - 1 : Tail(awaited)[i] = awaited[i + 1]
    BY <2>3, <2>4, HeadTailProperties
  <2>9. Stream \in Seq(Byte)
    BY StreamTypes
  <2> HIDE DEF made, m, n, l
  <2>10. DecodesTo(Stream, Tail(awaited), mods, l - 1, "start", m, n - 1)
    BY <2>1, <2>2, <2>3, <2>4, <2>9, DecodesShorter
  <2>11. \A i \in 1 .. l - 1 : i <= n - 1 /\ Tail(keyq)[i] = Tail(awaited)[i]
    <3> SUFFICES ASSUME NEW i \in 1 .. l - 1 PROVE i <= n - 1 /\ Tail(keyq)[i] = Tail(awaited)[i]
      OBVIOUS
    <3> DEFINE j == i + 1
    <3>1. j \in 1 .. l /\ i \in Int
      BY <2>2
    <3>2. Tail(keyq)[i] = keyq[j]
      BY <2>2
    <3> HIDE DEF j
    <3>3. j <= n /\ keyq[j] = awaited[j]
      BY <2>1, <3>1
    <3>4. i <= n - 1 /\ i \in 1 .. n - 1
      BY <2>2, <2>3, <3>1, <3>3 DEF j
    <3> QED BY <2>8, <3>2, <3>3, <3>4 DEF j
  <2>12. m = held' \cap {"shift"} /\ mods' = mods
    BY <1>1 DEF m
  <2> QED BY <1>2, <2>2, <2>7, <2>8, <2>10, <2>11, <2>12 DEF KeysInv
<1> QED BY <1>3, <1>4

\* The bytes behind the scan code queue when no context has one in its hand.
LEMMA StreamRest ==
  ASSUME KbdTypeOK
  PROVE  /\ inq \o wire \in Seq(Byte)
         /\ InHand(pc, hand) = <<>> => Stream = scanq \o (inq \o wire)
<1>1. scanq \in Seq(Byte) /\ inq \in Seq(Byte) /\ wire \in Seq(Byte)
  BY DEF KbdTypeOK
<1>2. scanq \o <<>> = scanq
  BY <1>1, ConcatEmptySeq
<1>3. (scanq \o inq) \o wire = scanq \o (inq \o wire)
  BY <1>1, ConcatAssociative
<1>4. inq \o wire \in Seq(Byte)
  BY <1>1, ConcatProperties
<1> QED BY <1>2, <1>3, <1>4 DEF Stream

\* A key leaves the scan code queue.
LEMMA PopKeeps ==
  ASSUME KbdTypeOK, KeysInv, OneRuns, ~lost, NEW c \in Context, pc[c] = "getchar",
         NEW l \in Stage \ {"push"}, UNCHANGED pc \/ Goto(c, l),
         Complete(scanq), NEW k, k = HeadKey(scanq), PopKeyCode(k), UNCHANGED <<hand, inq, wire>>
  PROVE  \E n1 \in Int :
           /\ Popped(k, awaited, mods, Len(keyq), mods', n1)
           /\ DecodesTo(Stream', awaited, mods', n1, "start", held \cap {"shift"}, Len(awaited))
<1> DEFINE r == inq \o wire
           m == held \cap {"shift"}
           n == Len(awaited)
           q == Len(keyq)
<1>1. \A d \in Context \ {c} : pc[d] = "idle"
  BY OthersIdle
<1>2. InHand(pc, hand) = <<>> /\ InHand(pc, hand)' = <<>>
  <2>1. CASE UNCHANGED pc
    <3>1. InHand(pc, hand) = <<>>
      BY <1>1, HandOf DEF KbdTypeOK, Stage
    <3> QED BY <2>1, <3>1 DEF InHand
  <2>2. CASE Goto(c, l)
    BY <1>1, <2>2, Moves
  <2> QED BY <2>1, <2>2
<1>3. r \in Seq(Byte) /\ Stream = scanq \o r /\ scanq \in Seq(Byte)
  BY <1>2, StreamRest DEF KbdTypeOK
<1>4. scanq' = SubSeq(scanq, k.len + 1, Len(scanq)) /\ scanq' \in Seq(Byte)
  BY PopTypes DEF PopKeyCode
<1>5. Stream' = scanq' \o r
  <2>1. Stream' = ((scanq' \o <<>>) \o inq) \o wire
    BY <1>2 DEF Stream
  <2> DEFINE s == scanq'
  <2> HIDE DEF s
  <2>2. s \in Seq(Byte) /\ inq \in Seq(Byte) /\ wire \in Seq(Byte)
    BY <1>4 DEF s, KbdTypeOK
  <2>3. s \o <<>> = s /\ (s \o inq) \o wire = s \o (inq \o wire)
    BY <2>2, ConcatEmptySeq, Assoc
  <2> QED BY <2>1, <2>3 DEF s
<1>6. DecodesTo(scanq \o r, awaited, mods, q, "start", m, n)
  BY <1>3 DEF KeysInv
<1> HIDE DEF r, m, n, q
<1>7. PICK m1 \in Modifiers, n1 \in Int :
        /\ Popped(k, awaited, mods, q, m1, n1)
        /\ DecodesTo(SubSeq(scanq, k.len + 1, Len(scanq)) \o r, awaited, m1, n1, "start", m, n)
  BY <1>3, <1>6, DecodesPop
<1>8. m1 = mods'
  BY <1>7 DEF Popped, PopKeyCode
<1> QED BY <1>4, <1>5, <1>7, <1>8 DEF m, n, q

LEMMA SkipKeeps ==
  ASSUME KbdTypeOK, KeysInv, OneRuns, NEW c \in Context, GetcharSkip(c)
  PROVE  KeysInv'
<1>1. PICK k : k = HeadKey(scanq) /\ (k.break \/ FakeShift(k)) /\ PopKeyCode(k)
  BY DEF GetcharSkip
<1>2. UNCHANGED <<pc, hand, inq, wire, keyq, awaited, held, lost>> /\ Complete(scanq) /\ pc[c] = "getchar"
  BY DEF GetcharSkip, userVars, ctxVars
<1> SUFFICES ASSUME ~lost PROVE KeysInv'
  BY <1>2 DEF KeysInv
<1>3. "idle" \in Stage \ {"push"}
  BY DEF Stage
<1>4. PICK n1 \in Int :
           /\ Popped(k, awaited, mods, Len(keyq), mods', n1)
           /\ DecodesTo(Stream', awaited, mods', n1, "start", held \cap {"shift"}, Len(awaited))
  BY <1>1, <1>2, <1>3, PopKeeps
<1>5. n1 = Len(keyq)
  BY <1>1, <1>4 DEF Popped
<1> QED BY <1>2, <1>4, <1>5 DEF KeysInv

LEMMA StrokeParts ==
  ASSUME NEW x \in KeyStroke
  PROVE  x = [key |-> x.key, mods |-> x.mods]
  BY DEF KeyStroke

LEMMA KeyKeeps ==
  ASSUME KbdTypeOK, KeysInv, OneRuns, NEW c \in Context, GetcharKey(c)
  PROVE  KeysInv'
<1> DEFINE k == HeadKey(scanq)
<1>1. /\ Complete(scanq) /\ PopKeyCode(k) /\ ~k.break /\ GetcharReturn(c, LockOf(k) # {})
      /\ IF Converted(k) = {} THEN UNCHANGED <<keyq, lost>>
         ELSE \E key \in Converted(k) :
              /\ keyq' = Newest(Append(keyq, [key |-> key, mods |-> mods]), KeyMax)
              /\ lost' = (lost \/ Len(keyq) = KeyMax)
      /\ UNCHANGED <<inq, wire, hand, awaited, held>>
  BY DEF GetcharKey, userVars
<1>2. pc[c] = "getchar"
  BY DEF GetcharKey
<1>3. PICK l \in Stage \ {"push"} : Goto(c, l)
  BY <1>1, AfterPacketStage DEF GetcharReturn, Stage
<1>4. k = HeadKey(scanq)
  OBVIOUS
<1> HIDE DEF k
<1> SUFFICES ASSUME ~lost' PROVE KeysInv'
  BY DEF KeysInv
<1>5. ~lost
  BY <1>1
<1>6. PICK n1 \in Int :
           /\ Popped(k, awaited, mods, Len(keyq), mods', n1)
           /\ DecodesTo(Stream', awaited, mods', n1, "start", held \cap {"shift"}, Len(awaited))
  BY <1>1, <1>2, <1>3, <1>4, <1>5, PopKeeps
<1>7. \A i \in 1 .. Len(keyq) : i <= Len(awaited) /\ keyq[i] = awaited[i]
  BY <1>5 DEF KeysInv
<1>8. CASE Converted(k) = {}
  BY <1>1, <1>6, <1>7, <1>8 DEF Popped, KeysInv
<1>9. CASE Converted(k) # {}
  <2> DEFINE n == Len(keyq)
             w == Len(awaited)
             j == n + 1
             x == awaited[j]
  <2>1. n \in Nat /\ w \in Nat /\ keyq \in Seq(KeyStroke) /\ awaited \in Seq(KeyStroke)
    BY LenProperties DEF KbdTypeOK
  <2>2. n + 1 \in 1 .. w /\ n1 = n + 1 /\ Converted(k) = {x.key} /\ x.mods = mods
    BY <1>1, <1>6, <1>9 DEF Popped
  <2>3. j \in 1 .. w /\ n1 = j
    BY <2>2
  <2>4. x \in KeyStroke
    <3> HIDE DEF j
    <3> QED BY <2>1, <2>3, ElementOfSeq
  <2> HIDE DEF n, w, x
  <2>5. PICK key \in Converted(k) :
          /\ keyq' = Newest(Append(keyq, [key |-> key, mods |-> mods]), KeyMax)
          /\ lost' = (lost \/ Len(keyq) = KeyMax)
    BY <1>1, <1>9
  <2>6. [key |-> key, mods |-> mods] = x
    BY <2>2, <2>4, StrokeParts
  <2>7. ~(lost \/ Len(keyq) = KeyMax)
    BY <2>5, Zenon
  <2>8. keyq' = Append(keyq, x)
    <3>1. Newest(Append(keyq, x), KeyMax) = Append(keyq, x)
      BY <2>4, <2>7, KeyPushTypes
    <3> QED BY <2>5, <2>6, <3>1
  <2>9. Len(keyq') = j /\ keyq'[j] = x /\ \A i \in 1 .. n : keyq'[i] = keyq[i]
    BY <2>1, <2>4, <2>8, AppendProperties DEF n
  <2>10. \A i \in 1 .. j : i <= w /\ keyq'[i] = awaited[i]
    <3>1. \A i \in 1 .. j : i = j \/ i \in 1 .. n
      BY <2>1
    <3>2. j <= w
      BY <2>1, <2>3
    <3> HIDE DEF j
    <3> QED BY <1>7, <2>9, <3>1, <3>2 DEF x, n, w
  <2> QED BY <1>1, <1>6, <2>3, <2>9, <2>10 DEF KeysInv, w
<1> QED BY <1>8, <1>9

\* Acknowledgments that are read or purged.
LEMMA PassOn ==
  ASSUME NEW s \in Seq(Byte), NEW t \in Seq(Byte), NEW v \in Seq(Byte)
  PROVE  ((s \o <<>>) \o t) \o v = s \o (t \o v)
<1>1. s \o <<>> = s
  BY ConcatEmptySeq
<1>2. (s \o t) \o v = s \o (t \o v)
  BY ConcatAssociative
<1> QED BY <1>1, <1>2

LEMMA WriteKeeps ==
  ASSUME KbdTypeOK, KeysInv, OneRuns, NEW c \in Context, pc[c] \in {"lights", "command"},
         NEW l \in Stage \ {"push"}, Goto(c, l), NEW x, KeyboardWrite(x),
         UNCHANGED <<scanq, keyq, awaited, mods, held>>
  PROVE  KeysInv'
<1>1. PICK n \in 0 .. Len(wire) : /\ wire' = SubSeq(wire, n + 1, Len(wire))
                                  /\ lost' = (lost \/ Codes(inq \o SubSeq(wire, 1, n)) # {})
  BY DEF KeyboardWrite
<1> DEFINE f == SubSeq(wire, 1, n)
           b == SubSeq(wire, n + 1, Len(wire))
           a == inq \o f
<1> SUFFICES ASSUME ~lost' PROVE KeysInv'
  BY DEF KeysInv
<1>2. ~(lost \/ Codes(a) # {})
  BY <1>1, Zenon
<1>3. wire \in Seq(Byte) /\ inq \in Seq(Byte) /\ scanq \in Seq(Byte) /\ inq' = <<>> /\ wire' = b
  BY <1>1 DEF KbdTypeOK, KeyboardWrite
<1>4. f \in Seq(Byte) /\ b \in Seq(Byte) /\ f \o b = wire
  BY <1>3, Cut
<1> HIDE DEF f, b
<1>5. a \in Seq(Byte)
  BY <1>3, <1>4, ConcatProperties
<1>6. InHand(pc, hand) = <<>> /\ InHand(pc, hand)' = <<>>
  BY OthersIdle, Moves
<1>7. Stream = (scanq \o a) \o b
  <2>1. ((scanq \o <<>>) \o inq) \o (f \o b) = (scanq \o (inq \o f)) \o b
    <3> DEFINE u == scanq \o inq
    <3>1. scanq \o <<>> = scanq
      BY <1>3, ConcatEmptySeq
    <3>2. u \in Seq(Byte)
      BY <1>3, ConcatProperties
    <3>3. scanq \in Seq(Byte) /\ inq \in Seq(Byte) /\ f \in Seq(Byte)
      BY <1>3, <1>4
    <3>4. u \o f = scanq \o (inq \o f)
      BY <3>3, Assoc
    <3> HIDE DEF u
    <3>5. (u \o f) \o b = u \o (f \o b)
      BY <1>4, <3>2, <3>3, Assoc
    <3> QED BY <3>1, <3>4, <3>5 DEF u
  <2> QED BY <1>4, <1>6, <2>1 DEF Stream
<1>8. Stream' = scanq \o b
  <2>1. ((scanq \o <<>>) \o <<>>) \o b = scanq \o b
    BY <1>3, ConcatEmptySeq
  <2> QED BY <1>3, <1>6, <2>1 DEF Stream
<1> HIDE DEF a
<1>9. \A i \in 1 .. Len(a) : a[i] = "ACK"
  <2>1. DOMAIN a = 1 .. Len(a)
    BY <1>5, LenProperties
  <2> QED BY <1>2, <2>1 DEF Codes
<1> DEFINE q == Len(keyq)
           m == held \cap {"shift"}
           w == Len(awaited)
<1>10. DecodesTo((scanq \o a) \o b, awaited, mods, q, "start", m, w)
  BY <1>2, <1>7 DEF KeysInv
<1>12. ~lost
  BY <1>2
<1>11. DecodesTo(scanq \o b, awaited, mods, q, "start", m, w)
  <2> HIDE DEF q, m, w
  <2> QED BY <1>3, <1>4, <1>5, <1>9, <1>10, DecodesWithoutAcks
<1> QED BY <1>8, <1>11, <1>12 DEF KeysInv

LEMMA LightsKeep ==
  ASSUME KbdTypeOK, KeysInv, OneRuns, NEW c \in Context, LightsSetup(c) \/ LightsCommand(c)
  PROVE  KeysInv'
<1>1. PICK x, l : KeyboardWrite(x) /\ l \in Stage \ {"push"} /\ Goto(c, l)
  BY DEF LightsSetup, LightsCommand, Stage
<1>2. pc[c] \in {"lights", "command"} /\ UNCHANGED <<scanq, keyq, awaited, mods, held>>
  BY DEF LightsSetup, LightsCommand, userVars, stateVars
<1> QED BY <1>1, <1>2, WriteKeeps

LEMMA AckKeeps ==
  ASSUME KbdTypeOK, KeysInv, OneRuns, NEW c \in Context, AckByte(c)
  PROVE  KeysInv'
<1> SUFFICES ASSUME ~lost' PROVE KeysInv'
  BY DEF KeysInv
<1>1. Head(inq) = "ACK" /\ Waited(c) /\ lost' = lost
  BY DEF AckByte
<1>2. PICK l \in Stage \ {"push"} : Goto(c, l)
  BY <1>1, AfterPacketStage DEF Waited, Stage
<1>3. pc[c] \notin {"idle", "push"} /\ inq' = Tail(inq) /\ UNCHANGED <<scanq, wire, keyq, awaited, mods, held>>
  BY DEF AckByte, userVars
<1>4. InHand(pc, hand) = <<>> /\ InHand(pc, hand)' = <<>>
  BY <1>2, <1>3, OthersIdle, Moves
<1>5. Tail(inq) \in Seq(Byte) /\ <<"ACK">> \o Tail(inq) = inq
  BY <1>1, InputTypes DEF AckByte
<1>6. wire \in Seq(Byte) /\ scanq \in Seq(Byte)
  BY DEF KbdTypeOK
<1> DEFINE t == Tail(inq)
           a == <<"ACK">>
           r == t \o wire
           q == Len(keyq)
           m == held \cap {"shift"}
           w == Len(awaited)
<1>7. a \in Seq(Byte) /\ Len(a) = 1 /\ \A i \in 1 .. Len(a) : a[i] = "ACK"
  BY DEF Byte
<1>8. r \in Seq(Byte)
  BY <1>5, <1>6, ConcatProperties
<1> HIDE DEF t, a
<1>9. Stream = (scanq \o a) \o r /\ Stream' = scanq \o r
  <2>1. a \o t = inq /\ inq' = t /\ t \in Seq(Byte)
    BY <1>3, <1>5 DEF a, t
  <2>2. ((scanq \o <<>>) \o inq) \o wire = (scanq \o a) \o (t \o wire)
    <3> DEFINE x == scanq \o a
    <3>1. scanq \o <<>> = scanq
      BY <1>6, ConcatEmptySeq
    <3>2. x \in Seq(Byte)
      BY <1>6, <1>7, ConcatProperties
    <3>3. x \o t = scanq \o (a \o t)
      BY <1>6, <1>7, <2>1, Assoc
    <3> HIDE DEF x
    <3>4. (x \o t) \o wire = x \o (t \o wire)
      BY <1>6, <2>1, <3>2, Assoc
    <3> QED BY <2>1, <3>1, <3>3, <3>4 DEF x
  <2>3. ((scanq \o <<>>) \o t) \o wire = scanq \o (t \o wire)
    BY <1>6, <2>1, PassOn
  <2> QED BY <1>3, <1>4, <2>1, <2>2, <2>3 DEF Stream
<1>10. DecodesTo((scanq \o a) \o r, awaited, mods, q, "start", m, w)
  BY <1>1, <1>9 DEF KeysInv
<1>11. DecodesTo(scanq \o r, awaited, mods, q, "start", m, w)
  <2> HIDE DEF q, m, w, r
  <2> QED BY <1>6, <1>7, <1>8, <1>10, DecodesWithoutAcks
<1> QED BY <1>1, <1>3, <1>9, <1>11 DEF KeysInv

LEMMA KeysStep ==
  ASSUME ~Preempt, KbdTypeOK, OneRuns, KeysInv, [Next]_vars
  PROVE  KeysInv'
<1>1. ASSUME User PROVE KeysInv'
  BY <1>1, PressKeeps, ReleaseKeeps DEF User
<1>2. ASSUME NEW c \in Context, Packet(c) PROVE KeysInv'
  BY <1>2, KbdFillKeeps, TakeByteKeeps, PushKeeps, TurnsKeep, SkipKeeps, KeyKeeps, LightsKeep, AckKeeps DEF Packet
<1>3. ASSUME UNCHANGED vars PROVE KeysInv'
  <2>1. Stream' = Stream
    BY <1>3 DEF vars, userVars, queueVars, ctxVars, Stream, InHand
  <2> QED BY <1>3, <2>1, KeysStay DEF vars, userVars, queueVars, stateVars
<1> QED BY <1>1, <1>2, <1>3, AnswerKeeps, ReadKeyKeeps, TurnsKeep DEF Next

LEMMA KeysStart == Init => OneRuns /\ KeysInv
<1> SUFFICES ASSUME Init PROVE OneRuns /\ KeysInv
  OBVIOUS
<1>1. OneRuns
  BY DEF Init, OneRuns, Context
<1>2. Stream = <<>>
  <2>1. InHand(pc, hand) = <<>>
    BY DEF Init, InHand, Context
  <2>2. <<>> \o <<>> = <<>>
    BY EmptySeq, ConcatEmptySeq
  <2> QED BY <2>1, <2>2 DEF Init, Stream
<1>3. Len(keyq) = 0 /\ Len(awaited) = 0 /\ mods = {} /\ held \cap {"shift"} = {}
  BY EmptySeq DEF Init
<1>4. DecodesTo(<<>>, awaited, {}, 0, "start", {}, 0)
  BY DecodesNothing DEF Modifiers
<1>5. DecodesTo(Stream, awaited, mods, Len(keyq), "start", held \cap {"shift"}, Len(awaited))
  BY <1>2, <1>3, <1>4
<1>6. \A i \in 1 .. Len(keyq) : i <= Len(awaited) /\ keyq[i] = awaited[i]
  BY <1>3
<1> QED BY <1>1, <1>5, <1>6 DEF KeysInv

LEMMA KeysAreRight == KbdTypeOK /\ KeysInv => StrokesAsMade
<1> SUFFICES ASSUME KbdTypeOK, KeysInv, ~lost PROVE IsPrefix(keyq, awaited)
  BY DEF StrokesAsMade, KeysAsPressed
<1>1. keyq \in Seq(KeyStroke) /\ awaited \in Seq(KeyStroke)
  BY DEF KbdTypeOK
<1> DEFINE n == Len(keyq)
           w == Len(awaited)
<1>2. n \in Nat /\ w \in Nat
  BY <1>1, LenProperties
<1>3. \A i \in 1 .. n : i <= w /\ keyq[i] = awaited[i]
  BY DEF KeysInv
<1>4. n <= w
  <2>1. DecodesTo(Stream, awaited, mods, n, "start", held \cap {"shift"}, w) /\ Stream \in Seq(Byte)
    BY StreamTypes DEF KeysInv
  <2> HIDE DEF n, w
  <2> QED BY <2>1, DecodesCounts
<1>5. SubSeq(awaited, 1, n) \in Seq(KeyStroke) /\ Len(SubSeq(awaited, 1, n)) = n
  <2> HIDE DEF n
  <2>1. n \in 0 .. w
    BY <1>2, <1>4
  <2> QED BY <1>1, <2>1, Cut
<1>6. \A i \in 1 .. n : SubSeq(awaited, 1, n)[i] = keyq[i]
  <2> HIDE DEF n, w
  <2>1. \A i \in 1 .. n : SubSeq(awaited, 1, n)[i] = awaited[1 + i - 1] /\ 1 + i - 1 = i
    BY <1>1, <1>2, <1>4, SubSeqProperties DEF w
  <2> QED BY <1>3, <2>1
<1>7. SubSeq(awaited, 1, n) = keyq
  BY <1>1, <1>5, <1>6, SeqEqual
<1> QED BY <1>4, <1>7 DEF IsPrefix

\* Where the timer does not preempt the application, the application receives the strokes the user made, in order, each
\* with the modifiers that were down then, as long as no byte is dropped: for every number of keys, presses and locks,
\* every size of the queues and every order of the timer's and the application's calls (KeyboardGetPacket, KeyGetchar,
\* ReadKeyStroke, SetState, UpdateStatusLights).
THEOREM StrokesReturnedAsMade == ~Preempt /\ Spec => []StrokesAsMade
<1> SUFFICES ASSUME ~Preempt PROVE Spec => []StrokesAsMade
  OBVIOUS
<1>1. KbdTypeOK /\ OneRuns /\ KeysInv /\ [Next]_vars => (KbdTypeOK /\ OneRuns /\ KeysInv)'
  BY TypeStep, OneRunsStep, KeysStep
<1> QED BY <1>1, InitTypes, KeysStart, KeysAreRight, PTL DEF Spec
----------------------------------------------------------------------------
(* Functions for a key. *)

\* Each key has one function: a key with two is queued once for each, and both are then called for each copy.
OneFunctionPerKey == \A r, s \in Regs : r.key = s.key => r = s

RegKeys == {r.key : r \in Regs}
Places(q, k) == {i \in DOMAIN q : q[i] = k}

\* No registration is in the list twice, and every key in the queue is one that its function was not called for yet.
NotifyInv ==
  /\ list \in Seq(Regs) /\ \A i, j \in 1 .. Len(list) : list[i] = list[j] => i = j
  /\ nq \in Seq(RegKeys) /\ Len(nq) <= QueueMax
  /\ balance \in [Regs -> Int]
  /\ \A r \in Regs : Cardinality(Places(nq, r.key)) <= balance[r]

LEMMA PlacesFinite ==
  ASSUME NEW S, NEW q \in Seq(S), NEW k
  PROVE  IsFiniteSet(Places(q, k)) /\ Cardinality(Places(q, k)) \in Nat
<1>1. DOMAIN q = 1 .. Len(q) /\ Len(q) \in Nat
  BY LenProperties
<1>2. IsFiniteSet(1 .. Len(q))
  BY <1>1, FS_Interval
<1>3. Places(q, k) \in SUBSET (1 .. Len(q))
  BY <1>1 DEF Places
<1>4. IsFiniteSet(Places(q, k))
  BY <1>2, <1>3, FS_Subset
<1> QED BY <1>4, FS_CardinalityType

LEMMA PlacesNone ==
  ASSUME NEW k
  PROVE  Cardinality(Places(<<>>, k)) = 0
<1>1. Places(<<>>, k) = {}
  BY DEF Places
<1> QED BY <1>1, FS_EmptySet

\* One key more at the end of the queue.
LEMMA PlacesAppend ==
  ASSUME NEW S, NEW q \in Seq(S), NEW x \in S, NEW k
  PROVE  Cardinality(Places(Append(q, x), k)) = Cardinality(Places(q, k)) + (IF x = k THEN 1 ELSE 0)
<1> DEFINE n == Len(q)
           t == Append(q, x)
<1>1. /\ n \in Nat /\ DOMAIN q = 1 .. n /\ t \in Seq(S) /\ Len(t) = n + 1
      /\ t[n + 1] = x /\ \A i \in 1 .. n : t[i] = q[i]
  BY LenProperties, AppendProperties
<1>2. DOMAIN t = 1 .. n + 1
  BY <1>1, LenProperties
<1> HIDE DEF n, t
<1>3. Places(t, k) = IF x = k THEN Places(q, k) \cup {n + 1} ELSE Places(q, k)
  <2>1. 1 .. n + 1 = (1 .. n) \cup {n + 1}
    BY <1>1
  <2> QED BY <1>1, <1>2, <2>1 DEF Places
<1>4. n + 1 \notin Places(q, k)
  BY <1>1 DEF Places
<1>5. IsFiniteSet(Places(q, k)) /\ Cardinality(Places(q, k)) \in Nat
  BY PlacesFinite
<1>6. Cardinality(Places(q, k) \cup {n + 1}) = Cardinality(Places(q, k)) + 1
  BY <1>4, <1>5, FS_AddElement
<1> QED BY <1>3, <1>5, <1>6 DEF t

\* The oldest key leaves the queue.
LEMMA PlacesTail ==
  ASSUME NEW S, NEW q \in Seq(S), q # <<>>, NEW k
  PROVE  Cardinality(Places(Tail(q), k)) <= Cardinality(Places(q, k)) - (IF Head(q) = k THEN 1 ELSE 0)
<1> DEFINE n == Len(q)
           t == Tail(q)
           P == Places(q, k)
           T == Places(t, k)
           f == [i \in T |-> i + 1]
<1>1. /\ n \in Nat \ {0} /\ DOMAIN q = 1 .. n /\ t \in Seq(S) /\ Len(t) = n - 1
      /\ Head(q) = q[1] /\ \A i \in 1 .. n - 1 : t[i] = q[i + 1]
  BY LenProperties, HeadTailProperties, EmptySeq
<1>2. DOMAIN t = 1 .. n - 1
  BY <1>1, LenProperties
<1> HIDE DEF n, t
<1>3. \A i \in T : i \in 1 .. n - 1 /\ t[i] = k
  BY <1>2 DEF Places
<1>4. \A i \in T : i + 1 \in P \ {1}
  <2> SUFFICES ASSUME NEW i \in T PROVE i + 1 \in P \ {1}
    OBVIOUS
  <2>1. i \in 1 .. n - 1 /\ q[i + 1] = k
    BY <1>1, <1>3
  <2> DEFINE j == i + 1
  <2>2. j \in 1 .. n /\ j # 1 /\ q[j] = k
    BY <1>1, <2>1
  <2> HIDE DEF j
  <2>3. j \in P \ {1}
    BY <1>1, <2>2 DEF Places
  <2> QED BY <2>3 DEF j
<1>5. IsFiniteSet(P) /\ Cardinality(P) \in Nat
  BY PlacesFinite
<1>6. 1 \in P <=> Head(q) = k
  BY <1>1 DEF Places
<1> HIDE DEF P, T
<1>7. f \in [T -> P \ {1}]
  BY <1>4
<1>8. \A a, b \in T : f[a] = f[b] => a = b
  <2>1. \A a \in T : a \in Int /\ f[a] = a + 1
    BY <1>3
  <2> HIDE DEF f
  <2> QED BY <2>1
<1> HIDE DEF f
<1>9. f \in Injection(T, P \ {1})
  BY <1>7, <1>8 DEF Injection, IsInjective
<1>10. /\ IsFiniteSet(P \ {1})
       /\ Cardinality(P \ {1}) = IF 1 \in P THEN Cardinality(P) - 1 ELSE Cardinality(P)
  BY <1>5, FS_RemoveElement
<1>11. Cardinality(T) <= Cardinality(P \ {1})
  BY <1>9, <1>10, FS_Injection
<1> QED BY <1>5, <1>6, <1>10, <1>11 DEF P, T, t

\* The queue when a key is pressed: nothing is queued, or the key is, and perhaps the oldest one makes room.
LEMMA QueuedNothing ==
  ASSUME NEW S, NEW q \in Seq(S), Len(q) <= QueueMax, NEW k
  PROVE  Queued(q, k, 0) = q
<1>1. Len(q) \in Nat /\ QueueMax \in Nat
  BY LenProperties, DriverAssumption DEF DriverAssumption
<1>2. [i \in 1 .. 0 |-> k] = <<>>
  OBVIOUS
<1>3. q \o <<>> = q
  BY ConcatEmptySeq
<1>4. SubSeq(q, 0 + 1, Len(q)) = q
  BY SubSeqFull
<1>5. ~(Len(q) > QueueMax)
  BY <1>1
<1> QED BY <1>2, <1>3, <1>4, <1>5 DEF Queued

LEMMA QueuedOne ==
  ASSUME NEW S, NEW q \in Seq(S), Len(q) <= QueueMax, NEW k \in S
  PROVE  /\ Queued(q, k, 1) \in Seq(S) /\ Len(Queued(q, k, 1)) <= QueueMax
         /\ Queued(q, k, 1) = Append(q, k) \/ Queued(q, k, 1) = Tail(Append(q, k))
<1> DEFINE s == Append(q, k)
           d == IF Len(s) > QueueMax THEN Len(s) - QueueMax ELSE 0
<1>1. Len(q) \in Nat /\ QueueMax \in Nat \ {0}
  BY LenProperties, DriverAssumption DEF DriverAssumption
<1>2. s \in Seq(S) /\ Len(s) = Len(q) + 1 /\ s # <<>>
  BY AppendProperties
<1>3. Queued(q, k, 1) = SubSeq(s, d + 1, Len(s))
  <2>1. [i \in 1 .. 1 |-> k] = <<k>>
    OBVIOUS
  <2>2. q \o <<k>> = s
    BY AppendIsConcat
  <2> QED BY <2>1, <2>2 DEF Queued
<1>4. d \in {0, 1} /\ d \in 0 .. Len(s) /\ Len(s) - d <= QueueMax
  <2> DEFINE l == Len(s)
  <2>1. l \in Nat \ {0} /\ l - 1 <= QueueMax
    BY <1>1, <1>2
  <2> HIDE DEF l
  <2>2. d = IF l > QueueMax THEN l - QueueMax ELSE 0
    BY DEF l
  <2> HIDE DEF d
  <2>3. d \in {0, 1} /\ d \in 0 .. l /\ l - d <= QueueMax
    BY <1>1, <2>1, <2>2
  <2> QED BY <2>3 DEF l
<1> HIDE DEF s, d
<1>5. Queued(q, k, 1) \in Seq(S) /\ Len(Queued(q, k, 1)) = Len(s) - d
  <2>1. SubSeq(s, d + 1, Len(s)) \in Seq(S) /\ Len(SubSeq(s, d + 1, Len(s))) = Len(s) - d
    <3>1. s \in Seq(S) /\ d \in 0 .. Len(s)
      BY <1>2, <1>4
    <3> QED BY <3>1, Cut
  <2> QED BY <1>3, <2>1
<1>6. CASE d = 0
  <2>1. SubSeq(s, 0 + 1, Len(s)) = s
    BY <1>2, SubSeqFull
  <2> QED BY <1>3, <1>4, <1>5, <1>6, <2>1 DEF s
<1>7. CASE d = 1
  <2>1. SubSeq(s, 2, Len(s)) = Tail(s) /\ 1 + 1 = 2
    BY <1>2, TailIsSubSeq
  <2> QED BY <1>3, <1>4, <1>5, <1>7, <2>1 DEF s
<1> QED BY <1>4, <1>6, <1>7

\* The registrations that a key matches: one at most.
LEMMA MatchingOne ==
  ASSUME OneFunctionPerKey, NotifyInv, NEW k
  PROVE  \/ Matching(k) = {} /\ \A r \in Regs : r.key = k => ~Registered(r)
         \/ /\ Cardinality(Matching(k)) = 1
            /\ \A r \in Regs : r.key = k => Registered(r)
<1>1. DOMAIN list = 1 .. Len(list) /\ \A i \in DOMAIN list : list[i] \in Regs
  BY LenProperties, ElementOfSeq DEF NotifyInv
<1>2. CASE Matching(k) = {}
  BY <1>1, <1>2 DEF Matching, Registered
<1>3. CASE Matching(k) # {}
  <2>1. PICK i \in DOMAIN list : list[i].key = k
    BY <1>3 DEF Matching
  <2>2. Matching(k) = {i}
    <3>1. ASSUME NEW j \in DOMAIN list, list[j].key = k PROVE j = i
      <4>1. list[i] = list[j]
        BY <1>1, <2>1, <3>1 DEF OneFunctionPerKey
      <4> QED BY <1>1, <4>1 DEF NotifyInv
    <3> QED BY <2>1, <3>1 DEF Matching
  <2>3. Cardinality(Matching(k)) = 1
    BY <2>2, FS_Singleton
  <2>4. \A r \in Regs : r.key = k => Registered(r)
    BY <1>1, <2>1 DEF Registered, OneFunctionPerKey
  <2> QED BY <2>3, <2>4
<1> QED BY <1>2, <1>3

LEMMA PressedCounts ==
  ASSUME OneFunctionPerKey, NotifyInv, NEW r0 \in Regs, KeyPressed(r0.key)
  PROVE  NotifyInv'
<1> DEFINE k == r0.key
<1>1. /\ nq' = Queued(nq, k, Cardinality(Matching(k))) /\ list' = list
      /\ balance' = [r \in Regs |-> IF r.key = k /\ Registered(r) THEN balance[r] + 1 ELSE balance[r]]
  BY DEF KeyPressed
<1>2. /\ nq \in Seq(RegKeys) /\ Len(nq) <= QueueMax /\ k \in RegKeys
      /\ balance \in [Regs -> Int] /\ \A r \in Regs : Cardinality(Places(nq, r.key)) <= balance[r]
  BY DEF NotifyInv, RegKeys
<1>3. balance' \in [Regs -> Int]
  BY <1>1, <1>2
<1>4. \/ Matching(k) = {} /\ \A r \in Regs : r.key = k => ~Registered(r)
      \/ Cardinality(Matching(k)) = 1 /\ \A r \in Regs : r.key = k => Registered(r)
  BY MatchingOne
<1>5. ASSUME NEW r \in Regs PROVE Cardinality(Places(nq, r.key)) \in Nat
  BY <1>2, PlacesFinite
<1>6. CASE Matching(k) = {} /\ \A r \in Regs : r.key = k => ~Registered(r)
  <2>1. nq' = nq
    BY <1>1, <1>2, <1>6, FS_EmptySet, QueuedNothing
  <2>2. \A r \in Regs : balance'[r] = balance[r]
    BY <1>1, <1>6
  <2> QED BY <1>1, <1>2, <1>3, <2>1, <2>2 DEF NotifyInv
<1>7. CASE Cardinality(Matching(k)) = 1 /\ \A r \in Regs : r.key = k => Registered(r)
  <2> DEFINE q == Append(nq, k)
  <2>1. nq' \in Seq(RegKeys) /\ Len(nq') <= QueueMax /\ (nq' = q \/ nq' = Tail(q))
    BY <1>1, <1>2, <1>7, QueuedOne
  <2>2. q \in Seq(RegKeys) /\ q # <<>>
    BY <1>2, AppendProperties
  <2>3. ASSUME NEW r \in Regs PROVE Cardinality(Places(nq', r.key)) <= balance'[r]
    <3>1. balance'[r] = IF r.key = k THEN balance[r] + 1 ELSE balance[r]
      BY <1>1, <1>7
    <3>2. Cardinality(Places(q, r.key)) = Cardinality(Places(nq, r.key)) + (IF k = r.key THEN 1 ELSE 0)
      BY <1>2, PlacesAppend
    <3>3. balance[r] \in Int /\ Cardinality(Places(nq, r.key)) <= balance[r] /\ Cardinality(Places(nq, r.key)) \in Nat
      BY <1>2, <1>5
    <3> HIDE DEF q, k
    <3>4. Cardinality(Places(q, r.key)) <= balance'[r] /\ Cardinality(Places(q, r.key)) \in Nat
      BY <3>1, <3>2, <3>3
    <3>5. CASE nq' = q
      BY <3>4, <3>5
    <3>6. CASE nq' = Tail(q)
      <4> DEFINE c == Cardinality(Places(q, r.key))
                 d == Cardinality(Places(Tail(q), r.key))
      <4>1. d <= c - (IF Head(q) = r.key THEN 1 ELSE 0)
        BY <2>2, PlacesTail
      <4>2. Tail(q) \in Seq(RegKeys)
        BY <2>2, HeadTailProperties
      <4>3. d \in Nat
        BY <4>2, PlacesFinite
      <4>4. balance'[r] \in Int /\ c <= balance'[r] /\ c \in Nat
        BY <3>1, <3>3, <3>4
      <4> HIDE DEF c, d
      <4>5. d <= balance'[r]
        BY <4>1, <4>3, <4>4
      <4> QED BY <3>6, <4>5 DEF d
    <3> QED BY <2>1, <3>5, <3>6
  <2> QED BY <1>1, <1>2, <1>3, <2>1, <2>3 DEF NotifyInv
<1> QED BY <1>4, <1>6, <1>7

LEMMA HandledCounts ==
  ASSUME NotifyInv, KeyNotifyProcessHandler
  PROVE  NotifyInv'
<1>1. CASE nq = <<>>
  BY <1>1 DEF KeyNotifyProcessHandler, NotifyInv
<1>2. CASE nq # <<>>
  <2> DEFINE called(r) == {i \in DOMAIN list : list[i] = r /\ r.key = Head(nq)}
  <2>1. /\ nq' = Tail(nq) /\ list' = list
        /\ balance' = [r \in Regs |-> balance[r] - Cardinality(called(r))]
    BY <1>2 DEF KeyNotifyProcessHandler
  <2>2. /\ nq \in Seq(RegKeys) /\ Len(nq) <= QueueMax /\ Len(nq) \in Nat /\ QueueMax \in Nat
        /\ balance \in [Regs -> Int] /\ \A r \in Regs : Cardinality(Places(nq, r.key)) <= balance[r]
    BY LenProperties, DriverAssumption DEF NotifyInv, DriverAssumption
  <2>3. ASSUME NEW r \in Regs
        PROVE  Cardinality(called(r)) \in Nat /\ Cardinality(called(r)) <= IF Head(nq) = r.key THEN 1 ELSE 0
    <3>1. CASE called(r) = {}
      BY <3>1, FS_EmptySet
    <3>2. CASE called(r) # {}
      <4>1. PICK i : i \in called(r)
        BY <3>2
      <4>2. called(r) = {i}
        BY <4>1, LenProperties DEF NotifyInv
      <4>3. Cardinality({i}) = 1
        BY FS_Singleton
      <4>4. Head(nq) = r.key
        BY <4>1
      <4> HIDE DEF called
      <4> QED BY <4>2, <4>3, <4>4
    <3> QED BY <3>1, <3>2
  <2> HIDE DEF called
  <2>4. Tail(nq) \in Seq(RegKeys) /\ Len(Tail(nq)) = Len(nq) - 1
    BY <1>2, <2>2, HeadTailProperties
  <2>5. Len(Tail(nq)) <= QueueMax
    BY <2>2, <2>4
  <2>6. balance' \in [Regs -> Int]
    BY <2>1, <2>2, <2>3
  <2>7. ASSUME NEW r \in Regs PROVE Cardinality(Places(Tail(nq), r.key)) <= balance'[r]
    <3> DEFINE c == Cardinality(Places(nq, r.key))
               d == Cardinality(Places(Tail(nq), r.key))
               e == Cardinality(called(r))
    <3>1. d <= c - (IF Head(nq) = r.key THEN 1 ELSE 0)
      BY <1>2, <2>2, PlacesTail
    <3>2. c \in Nat /\ d \in Nat /\ e \in Nat /\ e <= (IF Head(nq) = r.key THEN 1 ELSE 0)
      BY <2>2, <2>3, <2>4, PlacesFinite
    <3>3. c <= balance[r] /\ balance[r] \in Int /\ balance'[r] = balance[r] - e
      BY <2>1, <2>2
    <3> HIDE DEF c, d, e
    <3>4. d <= balance'[r]
      BY <3>1, <3>2, <3>3
    <3> QED BY <3>4 DEF d
  <2> QED BY <2>1, <2>4, <2>5, <2>6, <2>7 DEF NotifyInv
<1> QED BY <1>1, <1>2

LEMMA RegisterCounts ==
  ASSUME NotifyInv, NEW r \in Regs, KeyboardRegisterKeyNotify(r)
  PROVE  NotifyInv'
<1>1. UNCHANGED <<nq, balance>> /\ list' = IF Registered(r) THEN list ELSE Append(list, r)
  BY DEF KeyboardRegisterKeyNotify, RegisterNew
<1>2. CASE Registered(r)
  BY <1>1, <1>2 DEF NotifyInv
<1>3. CASE ~Registered(r)
  <2> DEFINE n == Len(list)
             t == Append(list, r)
  <2>1. /\ n \in Nat /\ DOMAIN list = 1 .. n /\ t \in Seq(Regs) /\ Len(t) = n + 1
        /\ t[n + 1] = r /\ \A i \in 1 .. n : t[i] = list[i]
    BY LenProperties, AppendProperties DEF NotifyInv
  <2>2. \A i, j \in 1 .. n : list[i] = list[j] => i = j
    BY DEF NotifyInv
  <2> HIDE DEF n, t
  <2>3. \A i, j \in 1 .. n + 1 : t[i] = t[j] => i = j
    <3>1. \A i \in 1 .. n + 1 : i = n + 1 \/ i \in 1 .. n
      BY <2>1
    <3>2. \A i \in 1 .. n : list[i] # r
      BY <1>3, <2>1 DEF Registered
    <3> QED BY <2>1, <2>2, <3>1, <3>2
  <2> QED BY <1>1, <1>3, <2>1, <2>3 DEF NotifyInv, t
<1> QED BY <1>2, <1>3

\* A list without one of its elements.
LEMMA Removed ==
  ASSUME NEW S, NEW s \in Seq(S), NEW i \in DOMAIN s
  PROVE  /\ RemoveAt(s, i) \in Seq(S) /\ Len(RemoveAt(s, i)) = Len(s) - 1
         /\ \A j \in 1 .. Len(s) - 1 : RemoveAt(s, i)[j] = s[IF j < i THEN j ELSE j + 1]
<1> DEFINE n == Len(s)
           a == SubSeq(s, 1, i - 1)
           b == SubSeq(s, i + 1, Len(s))
           t == a \o b
<1>1. n \in Nat /\ i \in 1 .. n /\ \A j \in 1 .. n : s[j] \in S
  BY LenProperties, ElementOfSeq
<1>2. i - 1 \in 0 .. n /\ i \in 0 .. n
  BY <1>1
<1>3. a \in Seq(S) /\ Len(a) = i - 1 /\ b \in Seq(S) /\ Len(b) = n - i
  BY <1>2, Cut
<1>4. /\ \A j \in 1 .. i - 1 - 1 + 1 : a[j] = s[1 + j - 1]
      /\ \A j \in 1 .. n - (i + 1) + 1 : b[j] = s[i + 1 + j - 1]
  BY <1>1, SubSeqProperties
<1> HIDE DEF a, b, n
<1>5. /\ t \in Seq(S) /\ Len(t) = (i - 1) + (n - i)
      /\ \A j \in 1 .. (i - 1) + (n - i) : t[j] = IF j <= i - 1 THEN a[j] ELSE b[j - (i - 1)]
  <2>1. /\ t \in Seq(S) /\ Len(t) = Len(a) + Len(b)
        /\ \A j \in 1 .. Len(a) + Len(b) : t[j] = IF j <= Len(a) THEN a[j] ELSE b[j - Len(a)]
    BY <1>3, ConcatProperties
  <2> HIDE DEF t
  <2> QED BY <1>3, <2>1
<1> HIDE DEF t
<1>6. Len(t) = n - 1
  BY <1>1, <1>5
<1>7. ASSUME NEW j \in 1 .. n - 1 PROVE t[j] = s[IF j < i THEN j ELSE j + 1]
  <2>1. t[j] = IF j <= i - 1 THEN a[j] ELSE b[j - (i - 1)]
    BY <1>1, <1>5
  <2>2. CASE j < i
    <3>1. j <= i - 1 /\ j \in 1 .. i - 1 - 1 + 1 /\ 1 + j - 1 = j
      BY <1>1, <2>2
    <3> QED BY <1>4, <2>1, <2>2, <3>1
  <2>3. CASE ~(j < i)
    <3> DEFINE h == j - (i - 1)
    <3>1. ~(j <= i - 1) /\ h \in 1 .. n - (i + 1) + 1 /\ i + 1 + h - 1 = j + 1
      BY <1>1, <2>3
    <3> HIDE DEF h
    <3>2. b[h] = s[i + 1 + h - 1]
      BY <1>4, <3>1
    <3> QED BY <2>1, <2>3, <3>1, <3>2 DEF h
  <2> QED BY <2>2, <2>3
<1>8. RemoveAt(s, i) = t
  BY DEF RemoveAt, t, a, b
<1> QED BY <1>5, <1>6, <1>7, <1>8 DEF n

LEMMA UnregisterCounts ==
  ASSUME NotifyInv, NEW r \in Regs, KeyboardUnregisterKeyNotify(r)
  PROVE  NotifyInv'
<1>1. UNCHANGED <<nq, balance>> /\ \E i \in DOMAIN list : list' = RemoveAt(list, i)
  BY DEF KeyboardUnregisterKeyNotify, Registered
<1>2. PICK i \in DOMAIN list : list' = RemoveAt(list, i)
  BY <1>1
<1> DEFINE n == Len(list)
<1>3. /\ list \in Seq(Regs) /\ n \in Nat /\ i \in 1 .. n
      /\ \A j, h \in 1 .. n : list[j] = list[h] => j = h
  BY LenProperties DEF NotifyInv
<1>4. /\ list' \in Seq(Regs) /\ Len(list') = n - 1
      /\ \A j \in 1 .. n - 1 : list'[j] = list[IF j < i THEN j ELSE j + 1]
  BY <1>2, <1>3, Removed
<1> HIDE DEF n
<1>5. ASSUME NEW j \in 1 .. n - 1, NEW h \in 1 .. n - 1, list'[j] = list'[h] PROVE j = h
  <2> DEFINE f(x) == IF x < i THEN x ELSE x + 1
  <2>1. f(j) \in 1 .. n /\ f(h) \in 1 .. n /\ (f(j) = f(h) => j = h)
    BY <1>3
  <2>2. list[f(j)] = list[f(h)]
    BY <1>4, <1>5
  <2> HIDE DEF f
  <2> QED BY <1>3, <2>1, <2>2
<1> QED BY <1>1, <1>4, <1>5 DEF NotifyInv

LEMMA NotifyStep ==
  ASSUME OneFunctionPerKey, NotifyInv, [KbdNext]_kbdVars
  PROVE  NotifyInv'
<1>1. ASSUME list' = <<>> \/ list' = list, nq' = <<>>, balance' = None \/ balance' = balance PROVE NotifyInv'
  <2>1. list' \in Seq(Regs) /\ \A i, j \in 1 .. Len(list') : list'[i] = list'[j] => i = j
    <3>1. CASE list' = <<>>
      <4>1. Len(<<>>) = 0 /\ <<>> \in Seq(Regs)
        BY EmptySeq
      <4> QED BY <3>1, <4>1
    <3>2. CASE list' = list
      BY <3>2 DEF NotifyInv
    <3> QED BY <1>1, <3>1, <3>2
  <2>2. nq' \in Seq(RegKeys) /\ Len(nq') <= QueueMax
    <3>1. Len(<<>>) = 0 /\ <<>> \in Seq(RegKeys) /\ QueueMax \in Nat
      BY EmptySeq, DriverAssumption DEF DriverAssumption
    <3> QED BY <1>1, <3>1
  <2>3. balance' \in [Regs -> Int] /\ \A r \in Regs : 0 <= balance'[r]
    <3>1. CASE balance' = None
      BY <3>1 DEF None
    <3>2. CASE balance' = balance
      <4>1. ASSUME NEW r \in Regs PROVE Cardinality(Places(nq, r.key)) \in Nat
        BY PlacesFinite DEF NotifyInv
      <4> QED BY <3>2, <4>1 DEF NotifyInv
    <3> QED BY <1>1, <3>1, <3>2
  <2>4. \A r \in Regs : Cardinality(Places(nq', r.key)) = 0
    BY <1>1, PlacesNone
  <2> QED BY <2>1, <2>2, <2>3, <2>4 DEF NotifyInv
<1>2. ASSUME UNCHANGED <<list, nq, balance>> PROVE NotifyInv'
  BY <1>2 DEF NotifyInv
<1>3. ASSUME DriverStart \/ DriverStop PROVE NotifyInv'
  BY <1>1, <1>2, <1>3 DEF DriverStart, DriverStop, FreeDev
<1>4. ASSUME StartFails \/ Replug PROVE NotifyInv'
  BY <1>2, <1>4 DEF StartFails, Replug
<1>5. ASSUME NEW ext, KeyboardEfiReset(ext) PROVE NotifyInv'
  BY <1>1, <1>2, <1>5 DEF KeyboardEfiReset
<1>6. CASE UNCHANGED kbdVars
  BY <1>2, <1>6 DEF kbdVars
<1> QED BY <1>3, <1>4, <1>5, <1>6, PressedCounts, HandledCounts, RegisterCounts, UnregisterCounts DEF KbdNext

\* However registrations, key strokes, resets, restarts and the handler interleave, and however long the queue is,
\* no function is called more often than its key was pressed while it was registered, if each key has one function
\* (KeyGetchar, KeyNotifyProcessHandler, KeyboardRegisterKeyNotify).
THEOREM FunctionsCalledOnce == OneFunctionPerKey /\ KbdSpec => []NotifiedOncePerKey
<1> SUFFICES ASSUME OneFunctionPerKey PROVE KbdSpec => []NotifiedOncePerKey
  OBVIOUS
<1>1. KbdInit => NotifyInv
  <2> SUFFICES ASSUME KbdInit PROVE NotifyInv
    OBVIOUS
  <2>1. <<>> \in Seq(Regs) /\ <<>> \in Seq(RegKeys) /\ Len(<<>>) = 0 /\ QueueMax \in Nat
    BY EmptySeq, DriverAssumption DEF DriverAssumption
  <2>2. list = <<>> /\ nq = <<>> /\ balance = None
    BY DEF KbdInit
  <2>3. \A r \in Regs : Cardinality(Places(<<>>, r.key)) = 0
    BY PlacesNone
  <2> QED BY <2>1, <2>2, <2>3 DEF NotifyInv, None
<1>2. NotifyInv /\ [KbdNext]_kbdVars => NotifyInv'
  BY NotifyStep
<1>3. NotifyInv => NotifiedOncePerKey
  <2> SUFFICES ASSUME NotifyInv, NEW r \in Regs PROVE balance[r] >= 0
    BY DEF NotifiedOncePerKey
  <2>1. Cardinality(Places(nq, r.key)) \in Nat /\ Cardinality(Places(nq, r.key)) <= balance[r] /\ balance[r] \in Int
    BY PlacesFinite DEF NotifyInv
  <2> QED BY <2>1
<1> QED BY <1>1, <1>2, <1>3, PTL DEF KbdSpec
=============================================================================
