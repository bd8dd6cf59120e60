----------------------- MODULE SmcFlashBlockIo_proofs -----------------------
(***************************************************************************)
(* What one monitor call does, for every flash, buffer and set of clients: *)
(* calls stay well formed, and the flash changes only in the range of a    *)
(* call that is erasing or programming.  Then the block device on top of   *)
(* it: it keeps to its area of the flash, and implements BlockDevice       *)
(* (BlkSpec => DeviceSpec), for every geometry, every flash content,       *)
(* failing calls and power losses included.                                *)
(***************************************************************************)
EXTENDS SmcFlashBlockIoDxe, FiniteSetTheorems, TLAPS

\* The cells a call may change.
Footprint(c) == call[c].addr .. call[c].addr + call[c].size - 1

\* NewCall builds a well formed call (every entry to SmcFlashLib).
LEMMA NewCallOK ==
  ASSUME NEW op \in {"erase", "read", "write"}, NEW addr \in Nat,
         NEW size \in Nat, NEW buf,
         op # "erase" => buf \in Memory(size)
  PROVE  /\ CallOK(NewCall(op, addr, size, buf))
         /\ NewCall(op, addr, size, buf).addr = addr
         /\ NewCall(op, addr, size, buf).size = size
         /\ NewCall(op, addr, size, buf).op = op
         /\ NewCall(op, addr, size, buf).buf = buf
         /\ NewCall(op, addr, size, buf).pc # "idle"
<1>1. CASE op = "erase"
  BY <1>1 DEF NewCall, FirstStep, CallOK, NoCall
<1>2. CASE op = "read"
  BY <1>2 DEF NewCall, FirstStep, CallOK, NoCall
<1>3. CASE op = "write"
  BY <1>3 DEF NewCall, FirstStep, CallOK, NoCall
<1> QED BY <1>1, <1>2, <1>3

\* An idle call is well formed.
LEMMA NoCallOK == CallOK(NoCall)
  BY DEF CallOK, NoCall

\* The next part of a call that is not finished is not empty and fits.
LEMMA PartFits ==
  ASSUME NEW j, CallOK(j), j.base < j.size
  PROVE  /\ PartSize(j) \in Nat \ {0}
         /\ j.base + PartSize(j) <= j.size
  BY BounceSizeAssumption DEF CallOK, PartSize, SmallerOf

\* Erasing and programming yield a flash.
LEMMA FlashTyped ==
  ASSUME LibTypeOK, NEW a \in Nat, NEW n \in Nat
  PROVE  /\ ErasedFlash(a, n) \in [Addr -> Cell]
         /\ n <= BounceSize => ProgrammedFlash(a, n) \in [Addr -> Cell]
<1>1. ErasedFlash(a, n) \in [Addr -> Cell]
  BY DEF LibTypeOK, ErasedFlash, Erased, Cell
<1>2. ASSUME n <= BounceSize, NEW x \in Addr, x \in a .. a + n - 1
      PROVE  Program(flash[x], bounce[x - a]) \in Cell
  <2>1. x - a \in Slot
    BY <1>2, BounceSizeAssumption DEF Slot, Addr
  <2> QED BY <2>1 DEF LibTypeOK, Program, Cell
<1> QED BY <1>1, <1>2 DEF LibTypeOK, ProgrammedFlash

\* Returning keeps a call well formed.
LEMMA ReturnOK ==
  ASSUME NEW j, CallOK(j), NEW e \in {0, -1}
  PROVE  CallOK([j EXCEPT !.pc = "return", !.err = e])
  BY DEF CallOK, NoCall

\* What a step of client c does to the calls: c's own stays well formed and
\* keeps its range, the others' stay as they are.
Advances(c) ==
  /\ DOMAIN call' = Client
  /\ CallOK(call'[c])
  /\ call'[c].op = call[c].op
  /\ call'[c].addr = call[c].addr
  /\ call'[c].size = call[c].size
  /\ call'[c].pc # "idle"
  /\ \A d \in Client \ {c} : call'[d] = call[d]

\* The step of c leaves its call at pc with result e, and all else in place.
StepsTo(c, pc, e) ==
  /\ DOMAIN call' = Client
  /\ \A d \in Client \ {c} : call'[d] = call[d]
  /\ DOMAIN call'[c] = DOMAIN NoCall
  /\ call'[c].pc = pc /\ call'[c].err = e
  /\ call'[c].op = call[c].op /\ call'[c].addr = call[c].addr
  /\ call'[c].size = call[c].size /\ call'[c].buf = call[c].buf
  /\ call'[c].base = call[c].base /\ call'[c].moved = call[c].moved

LEMMA ReturnSteps ==
  ASSUME LibTypeOK, NEW c \in Client, NEW e, Return(c, e)
  PROVE  StepsTo(c, "return", e)
<1>1. CallOK(call[c]) /\ DOMAIN call = Client
  BY DEF LibTypeOK
<1> QED BY <1>1 DEF Return, StepsTo, CallOK, NoCall

LEMMA GoToSteps ==
  ASSUME LibTypeOK, NEW c \in Client, NEW step, GoTo(c, step)
  PROVE  StepsTo(c, step, call[c].err)
<1>1. CallOK(call[c]) /\ DOMAIN call = Client
  BY DEF LibTypeOK
<1> QED BY <1>1 DEF GoTo, StepsTo, CallOK, NoCall

LEMMA ReturnAdvances ==
  ASSUME LibTypeOK, NEW c \in Client, NEW e \in {0, -1}, Return(c, e)
  PROVE  Advances(c)
<1>1. CallOK(call[c])
  BY DEF LibTypeOK
<1>2. StepsTo(c, "return", e)
  BY ReturnSteps
<1> QED BY <1>1, <1>2 DEF StepsTo, Advances, CallOK

LEMMA OutcomeOK ==
  ASSUME NEW a \in Nat, NEW n \in Nat, NEW o \in Outcome(a, n)
  PROVE  o.cells \in 0 .. n /\ o.err \in {0, -1}
  BY DEF Outcome

LEMMA EraseOK ==
  ASSUME LibTypeOK, NEW c \in Client, SmcErase(c)
  PROVE  /\ Advances(c) /\ flash' \in [Addr -> Cell]
         /\ \A a \in Addr : flash'[a] # flash[a] => a \in Footprint(c)
<1> DEFINE j == call[c]
<1>1. CallOK(j) /\ j.addr \in Nat /\ j.size \in Nat
  BY DEF LibTypeOK, CallOK
<1>2. PICK o \in Outcome(j.addr, j.size) :
        flash' = ErasedFlash(j.addr, o.cells) /\ Return(c, o.err)
  BY DEF SmcErase
<1>3. o.cells \in 0 .. j.size /\ o.err \in {0, -1}
  BY <1>1, <1>2, OutcomeOK
<1>4. Advances(c)
  BY <1>2, <1>3, ReturnAdvances
<1>5. flash' \in [Addr -> Cell]
  BY <1>1, <1>2, <1>3, FlashTyped
<1>6. ASSUME NEW a \in Addr, flash'[a] # flash[a]
      PROVE  a \in Footprint(c)
  BY <1>1, <1>2, <1>3, <1>6 DEF ErasedFlash, Footprint, Addr
<1> QED BY <1>4, <1>5, <1>6

LEMMA ReadBufOK ==
  ASSUME LibTypeOK, NEW c \in Client, SmcReadBuf(c)
  PROVE  Advances(c) /\ bounce' \in [Slot -> Cell]
<1> DEFINE j == call[c]
<1>1. CallOK(j) /\ DOMAIN call = Client
  BY DEF LibTypeOK
<1>2. PartSize(j) \in Nat \ {0} /\ PartAddr(j) \in Nat
  <2>1. j.base < j.size
    BY <1>1 DEF SmcReadBuf, CallOK
  <2> QED BY <1>1, <2>1, PartFits DEF PartAddr, CallOK
<1>3. PICK o \in Outcome(PartAddr(j), PartSize(j)) :
        /\ bounce' = [i \in Slot |-> IF i < o.cells THEN flash[PartAddr(j) + i]
                                                    ELSE bounce[i]]
        /\ IF o.err # 0 THEN Return(c, o.err) ELSE GoTo(c, "position")
  BY DEF SmcReadBuf
<1>4. o.cells \in 0 .. PartSize(j) /\ o.err \in {0, -1}
  BY <1>2, <1>3, OutcomeOK
<1>5. Advances(c)
  <2>1. CASE o.err # 0
    BY <1>3, <1>4, <2>1, ReturnAdvances
  <2>2. CASE o.err = 0
    <3>1. StepsTo(c, "position", j.err)
      BY <1>3, <2>2, GoToSteps
    <3>2. CallOK(call'[c])
      BY <1>1, <3>1 DEF StepsTo, CallOK, SmcReadBuf
    <3> QED BY <3>1, <3>2 DEF StepsTo, Advances
  <2> QED BY <2>1, <2>2
<1>6. ASSUME NEW i \in Slot, i < o.cells
      PROVE  PartAddr(j) + i \in Addr
  <2>1. InFlash(PartAddr(j), PartSize(j))
    BY <1>3, <1>6 DEF Outcome, Slot
  <2> QED BY <1>2, <1>4, <1>6, <2>1, FlashSizeAssumption DEF InFlash, Addr, Slot
<1>7. bounce' \in [Slot -> Cell]
  BY <1>3, <1>6 DEF LibTypeOK
<1> QED BY <1>5, <1>7

LEMMA PositionOK ==
  ASSUME LibTypeOK, NEW c \in Client, SmcPosition(c)
  PROVE  Advances(c) /\ position' \in 0 .. BounceSize
<1> DEFINE j == call[c]
<1>1. CallOK(j) /\ DOMAIN call = Client /\ position \in 0 .. BounceSize
  BY DEF LibTypeOK
<1>2. j.pc = "position" /\ j.op \in {"read", "write"} /\ j.base < j.size
  BY <1>1 DEF SmcPosition, CallOK
<1>3. CASE GoTo(c, IF j.op = "read" THEN "pull" ELSE "push") /\ position' = 0
  <2>1. PICK step \in {"pull", "push"} :
          /\ step = IF j.op = "read" THEN "pull" ELSE "push"
          /\ GoTo(c, step)
    BY <1>3
  <2>2. StepsTo(c, step, j.err)
    BY <2>1, GoToSteps
  <2>3. PartSize(call'[c]) = PartSize(j) /\ PartSize(j) > 0
    BY <1>1, <1>2, <2>2, PartFits DEF PartSize, StepsTo
  <2>4. CallOK(call'[c])
    BY <1>1, <1>2, <2>1, <2>2, <2>3 DEF StepsTo, CallOK
  <2> QED BY <1>3, <2>1, <2>2, <2>4, BounceSizeAssumption DEF StepsTo, Advances
<1>4. CASE Return(c, -1) /\ position' = position
  BY <1>1, <1>4, ReturnAdvances
<1> QED BY <1>3, <1>4 DEF SmcPosition

\* What a call that transfers words looks like, and the part it is in.
LEMMA PartFacts ==
  ASSUME LibTypeOK, NEW c \in Client,
         call[c].pc \in {"readbuf", "position", "pull", "push", "writebuf"}
  PROVE  /\ CallOK(call[c]) /\ DOMAIN call = Client
         /\ call[c].base \in Nat /\ call[c].size \in Nat /\ call[c].addr \in Nat
         /\ call[c].moved \in Nat /\ call[c].base < call[c].size
         /\ call[c].op \in {"read", "write"} /\ call[c].buf \in Memory(call[c].size)
         /\ PartSize(call[c]) \in Nat \ {0} /\ PartSize(call[c]) <= BounceSize
         /\ call[c].base + PartSize(call[c]) <= call[c].size
         /\ PartAddr(call[c]) = call[c].addr + call[c].base /\ PartAddr(call[c]) \in Nat
         /\ call[c].pc \in {"pull", "push"} => call[c].moved < PartSize(call[c])
         /\ call[c].pc \notin {"pull", "push"} => call[c].moved = 0
<1> DEFINE j == call[c]
<1>1. CallOK(j) /\ DOMAIN call = Client
  BY DEF LibTypeOK
<1>2. /\ j.base \in Nat /\ j.size \in Nat /\ j.addr \in Nat /\ j.moved \in Nat
      /\ j.base < j.size /\ j.op \in {"read", "write"} /\ j.buf \in Memory(j.size)
      /\ j.pc \in {"pull", "push"} => j.moved < PartSize(j)
      /\ j.pc \notin {"pull", "push"} => j.moved = 0
  BY <1>1 DEF CallOK
<1>3. PartSize(j) \in Nat \ {0} /\ j.base + PartSize(j) <= j.size
  BY <1>1, <1>2, PartFits
<1>4. PartSize(j) <= BounceSize
  BY <1>2, BounceSizeAssumption DEF PartSize, SmallerOf
<1>5. PartAddr(j) = j.addr + j.base /\ PartAddr(j) \in Nat
  BY <1>2 DEF PartAddr
<1> QED BY <1>1, <1>2, <1>3, <1>4, <1>5

\* What a pull does to the call, field by field.
LEMMA PullFields ==
  ASSUME LibTypeOK, NEW c \in Client, SmcPull(c)
  PROVE  LET j    == call[c]
             at   == j.base + j.moved
             last == j.moved + 1 = PartSize(j)
         IN  /\ DOMAIN call' = Client
             /\ \A d \in Client \ {c} : call'[d] = call[d]
             /\ DOMAIN call'[c] = DOMAIN NoCall
             /\ call'[c].op = j.op /\ call'[c].addr = j.addr
             /\ call'[c].size = j.size /\ call'[c].err = j.err
             /\ \E w \in Cell :
                  /\ call'[c].buf = [j.buf EXCEPT ![at] = w]
                  /\ position \in Slot => w = bounce[position]
             /\ call'[c].moved = IF last THEN 0 ELSE j.moved + 1
             /\ call'[c].base = IF last THEN j.base + PartSize(j) ELSE j.base
             /\ call'[c].pc = IF ~last THEN "pull"
                              ELSE IF at + 1 = j.size THEN "return" ELSE "readbuf"
<1> DEFINE j    == call[c]
           at   == j.base + j.moved
           last == j.moved + 1 = PartSize(j)
           next == IF ~last THEN "pull"
                   ELSE IF at + 1 = j.size THEN "return" ELSE "readbuf"
<1>1. CallOK(j) /\ DOMAIN call = Client /\ bounce \in [Slot -> Cell]
  BY DEF LibTypeOK
<1>2. PICK w \in Cell :
        /\ position \in Slot => w = bounce[position]
        /\ call' = [call EXCEPT ![c] =
                     [j EXCEPT !.buf[at] = w,
                               !.moved = IF last THEN 0 ELSE @ + 1,
                               !.base  = IF last THEN @ + PartSize(j) ELSE @,
                               !.pc    = next]]
  BY <1>1 DEF SmcPull
<1> QED BY <1>1, <1>2 DEF CallOK, NoCall

LEMMA PullOK ==
  ASSUME LibTypeOK, NEW c \in Client, SmcPull(c)
  PROVE  Advances(c) /\ position' \in 0 .. BounceSize
<1> DEFINE j    == call[c]
           at   == j.base + j.moved
           last == j.moved + 1 = PartSize(j)
<1>1. j.pc = "pull" /\ position \in 0 .. BounceSize /\ j.op = "read"
  BY DEF LibTypeOK, SmcPull, CallOK
<1>2. /\ CallOK(j) /\ j.base \in Nat /\ j.size \in Nat /\ j.moved \in Nat
      /\ j.base < j.size /\ j.moved < PartSize(j) /\ j.buf \in Memory(j.size)
      /\ PartSize(j) \in Nat \ {0} /\ j.base + PartSize(j) <= j.size
  BY <1>1, PartFacts
<1>3. PICK w \in Cell :
        /\ DOMAIN call' = Client
        /\ \A d \in Client \ {c} : call'[d] = call[d]
        /\ DOMAIN call'[c] = DOMAIN NoCall
        /\ call'[c].op = j.op /\ call'[c].addr = j.addr
        /\ call'[c].size = j.size /\ call'[c].err = j.err
        /\ call'[c].buf = [j.buf EXCEPT ![at] = w]
        /\ call'[c].moved = IF last THEN 0 ELSE j.moved + 1
        /\ call'[c].base = IF last THEN j.base + PartSize(j) ELSE j.base
        /\ call'[c].pc = IF ~last THEN "pull"
                         ELSE IF at + 1 = j.size THEN "return" ELSE "readbuf"
  BY PullFields
<1>4. call'[c].buf \in Memory(j.size)
  <2> DEFINE n == j.size
             b == j.buf
  <2>1. b \in [0 .. n - 1 -> Cell] /\ call'[c].buf = [b EXCEPT ![at] = w]
    BY <1>2, <1>3 DEF Memory
  <2> HIDE DEF b, n, at
  <2>2. call'[c].buf \in [0 .. n - 1 -> Cell]
    BY <2>1
  <2> QED BY <2>2 DEF Memory, n
<1>5. CallOK(call'[c])
  <2>1. CASE last
    BY <1>1, <1>2, <1>3, <1>4, <2>1 DEF CallOK
  <2>2. CASE ~last
    <3>1. PartSize(call'[c]) = PartSize(j)
      BY <1>3, <2>2 DEF PartSize
    <3> QED BY <1>1, <1>2, <1>3, <1>4, <2>2, <3>1 DEF CallOK
  <2> QED BY <2>1, <2>2
<1>6. position' \in 0 .. BounceSize
  BY <1>1, BounceSizeAssumption DEF SmcPull, SmallerOf
<1> QED BY <1>3, <1>5, <1>6 DEF Advances

\* What a push that TF-A accepts does to the call, field by field.
PushSteps(c) ==
  LET j    == call[c]
      last == j.moved + 1 = PartSize(j)
  IN  /\ position \in Slot /\ position' = position + 1
      /\ bounce' = [bounce EXCEPT ![position] = j.buf[j.base + j.moved]]
      /\ DOMAIN call' = Client
      /\ \A d \in Client \ {c} : call'[d] = call[d]
      /\ DOMAIN call'[c] = DOMAIN NoCall
      /\ call'[c].op = j.op /\ call'[c].addr = j.addr /\ call'[c].size = j.size
      /\ call'[c].err = j.err /\ call'[c].buf = j.buf /\ call'[c].base = j.base
      /\ call'[c].moved = IF last THEN 0 ELSE j.moved + 1
      /\ call'[c].pc = IF last THEN "writebuf" ELSE "push"

LEMMA PushFields ==
  ASSUME LibTypeOK, NEW c \in Client, SmcPush(c)
  PROVE  PushSteps(c) \/ (Return(c, -1) /\ UNCHANGED <<bounce, position>>)
<1> DEFINE j    == call[c]
           last == j.moved + 1 = PartSize(j)
<1>1. CallOK(j) /\ DOMAIN call = Client
  BY DEF LibTypeOK
<1>2. CASE /\ position \in Slot
           /\ bounce' = [bounce EXCEPT ![position] = j.buf[j.base + j.moved]]
           /\ position' = position + 1
           /\ call' = [call EXCEPT ![c] =
                        [j EXCEPT !.moved = IF last THEN 0 ELSE @ + 1,
                                  !.pc = IF last THEN "writebuf" ELSE "push"]]
  BY <1>1, <1>2 DEF PushSteps, CallOK, NoCall
<1>3. CASE Return(c, -1) /\ UNCHANGED <<bounce, position>>
  BY <1>3
<1> QED BY <1>2, <1>3 DEF SmcPush

LEMMA PushOK ==
  ASSUME LibTypeOK, NEW c \in Client, SmcPush(c)
  PROVE  /\ Advances(c) /\ position' \in 0 .. BounceSize
         /\ bounce' \in [Slot -> Cell]
<1> DEFINE j    == call[c]
           last == j.moved + 1 = PartSize(j)
<1>1. /\ j.pc = "push" /\ j.op = "write"
      /\ position \in 0 .. BounceSize /\ bounce \in [Slot -> Cell]
  BY DEF LibTypeOK, SmcPush, CallOK
<1>2. /\ CallOK(j) /\ j.base \in Nat /\ j.size \in Nat /\ j.moved \in Nat
      /\ j.base < j.size /\ j.moved < PartSize(j) /\ j.buf \in Memory(j.size)
      /\ PartSize(j) \in Nat \ {0} /\ j.base + PartSize(j) <= j.size
  BY <1>1, PartFacts
<1>3. CASE PushSteps(c)
  <2>1. PartSize(call'[c]) = PartSize(j)
    BY <1>3 DEF PushSteps, PartSize
  <2>2. CallOK(call'[c])
    BY <1>1, <1>2, <1>3, <2>1 DEF PushSteps, CallOK
  <2>3. j.buf[j.base + j.moved] \in Cell
    <3>1. j.base + j.moved \in 0 .. j.size - 1
      BY <1>2
    <3> QED BY <1>2, <3>1 DEF Memory
  <2>4. bounce' \in [Slot -> Cell]
    BY <1>1, <1>3, <2>3 DEF PushSteps
  <2> QED BY <1>3, <2>2, <2>4, BounceSizeAssumption DEF PushSteps, Advances, Slot
<1>4. CASE Return(c, -1) /\ UNCHANGED <<bounce, position>>
  BY <1>1, <1>4, ReturnAdvances
<1> QED BY <1>3, <1>4, PushFields

\* A part has been written and another follows: what that does to the call.
NextPart(c) ==
  LET j == call[c] IN
  /\ DOMAIN call' = Client
  /\ \A d \in Client \ {c} : call'[d] = call[d]
  /\ DOMAIN call'[c] = DOMAIN NoCall
  /\ call'[c].op = j.op /\ call'[c].addr = j.addr /\ call'[c].size = j.size
  /\ call'[c].err = j.err /\ call'[c].buf = j.buf /\ call'[c].moved = j.moved
  /\ call'[c].base = j.base + PartSize(j) /\ call'[c].pc = "position"

LEMMA WriteBufFields ==
  ASSUME LibTypeOK, NEW c \in Client, SmcWriteBuf(c)
  PROVE  \E o \in Outcome(PartAddr(call[c]), PartSize(call[c])) :
           /\ flash' = ProgrammedFlash(PartAddr(call[c]), o.cells)
           /\ \/ /\ o.err # 0 \/ call[c].base + PartSize(call[c]) = call[c].size
                 /\ Return(c, o.err)
              \/ /\ o.err = 0 /\ call[c].base + PartSize(call[c]) # call[c].size
                 /\ NextPart(c)
<1> DEFINE j    == call[c]
           part == PartSize(j)
<1>1. CallOK(j) /\ DOMAIN call = Client
  BY DEF LibTypeOK
<1>2. PICK o \in Outcome(PartAddr(j), part) :
        /\ flash' = ProgrammedFlash(PartAddr(j), o.cells)
        /\ IF o.err # 0 \/ j.base + part = j.size
             THEN Return(c, o.err)
             ELSE call' = [call EXCEPT ![c] = [j EXCEPT !.base = @ + part,
                                                        !.pc = "position"]]
  BY DEF SmcWriteBuf
<1>3. CASE o.err # 0 \/ j.base + part = j.size
  BY <1>2, <1>3
<1>4. CASE ~(o.err # 0 \/ j.base + part = j.size)
  <2>1. call' = [call EXCEPT ![c] = [j EXCEPT !.base = @ + part, !.pc = "position"]]
    BY <1>2, <1>4
  <2>2. NextPart(c)
    BY <1>1, <2>1 DEF CallOK, NoCall, NextPart
  <2> QED BY <1>2, <1>4, <2>2
<1> QED BY <1>3, <1>4

LEMMA WriteBufOK ==
  ASSUME LibTypeOK, NEW c \in Client, SmcWriteBuf(c)
  PROVE  /\ Advances(c) /\ flash' \in [Addr -> Cell]
         /\ \A a \in Addr : flash'[a] # flash[a] => a \in Footprint(c)
<1> DEFINE j    == call[c]
           part == PartSize(j)
<1>1. j.pc = "writebuf" /\ j.op = "write"
  BY DEF LibTypeOK, SmcWriteBuf, CallOK
<1>2. /\ CallOK(j) /\ j.base \in Nat /\ j.size \in Nat /\ j.addr \in Nat /\ j.moved = 0
      /\ j.base < j.size /\ j.buf \in Memory(j.size)
      /\ part \in Nat \ {0} /\ part <= BounceSize /\ j.base + part <= j.size
      /\ PartAddr(j) = j.addr + j.base /\ PartAddr(j) \in Nat
  BY <1>1, PartFacts
<1>3. PICK o \in Outcome(PartAddr(j), part) :
        /\ flash' = ProgrammedFlash(PartAddr(j), o.cells)
        /\ \/ Return(c, o.err)
           \/ o.err = 0 /\ j.base + part # j.size /\ NextPart(c)
  BY WriteBufFields
<1>4. o.cells \in 0 .. part /\ o.err \in {0, -1}
  BY <1>2, <1>3, OutcomeOK
<1>5. Advances(c)
  <2>1. CASE Return(c, o.err)
    BY <1>4, <2>1, ReturnAdvances
  <2>2. CASE j.base + part # j.size /\ NextPart(c)
    <3>1. CallOK(call'[c])
      BY <1>1, <1>2, <2>2 DEF CallOK, NextPart
    <3> QED BY <2>2, <3>1 DEF Advances, NextPart
  <2> QED BY <1>3, <2>1, <2>2
<1>6. flash' \in [Addr -> Cell]
  <2>1. o.cells \in Nat /\ o.cells <= BounceSize
    BY <1>2, <1>4, BounceSizeAssumption
  <2> QED BY <1>2, <1>3, <2>1, FlashTyped
<1>7. ASSUME NEW a \in Addr, flash'[a] # flash[a]
      PROVE  a \in Footprint(c)
  <2>1. a \in PartAddr(j) .. PartAddr(j) + o.cells - 1
    BY <1>3, <1>7 DEF ProgrammedFlash
  <2> HIDE DEF part
  <2> QED BY <1>2, <1>4, <2>1 DEF Footprint
<1> QED BY <1>5, <1>6, <1>7

\* One monitor call of c keeps everything well typed, leaves the other calls
\* alone, and changes the flash only where c erases or programs.
LEMMA LibStepOK ==
  ASSUME LibTypeOK, NEW c \in Client, LibStep(c)
  PROVE  /\ LibTypeOK' /\ Advances(c)
         /\ \A a \in Addr :
              flash'[a] # flash[a] => a \in Footprint(c) /\ Changing(c)
<1>1. SUFFICES /\ Advances(c) /\ flash' \in [Addr -> Cell]
               /\ bounce' \in [Slot -> Cell] /\ position' \in 0 .. BounceSize
               /\ \A a \in Addr :
                    flash'[a] # flash[a] => a \in Footprint(c) /\ Changing(c)
  BY <1>1 DEF LibTypeOK, Advances
<1>2. CASE SmcErase(c)
  BY <1>2, EraseOK DEF SmcErase, LibTypeOK, Changing
<1>3. CASE SmcReadBuf(c)
  BY <1>3, ReadBufOK DEF SmcReadBuf, LibTypeOK
<1>4. CASE SmcPosition(c)
  BY <1>4, PositionOK DEF SmcPosition, LibTypeOK
<1>5. CASE SmcPull(c)
  BY <1>5, PullOK DEF SmcPull, LibTypeOK
<1>6. CASE SmcPush(c)
  BY <1>6, PushOK DEF SmcPush, LibTypeOK
<1>7. CASE SmcWriteBuf(c)
  BY <1>7, WriteBufOK DEF SmcWriteBuf, LibTypeOK, Changing
<1> QED BY <1>2, <1>3, <1>4, <1>5, <1>6, <1>7 DEF LibStep

\* After a power loss no call is left, and the flash has changed at most where
\* a call was erasing or programming.
LEMMA LibPowerLossOK ==
  ASSUME LibTypeOK, LibPowerLoss
  PROVE  /\ LibTypeOK' /\ call' = [c \in Client |-> NoCall]
         /\ \A a \in Addr : flash'[a] # flash[a] =>
              \E c \in Client : a \in Footprint(c) /\ Changing(c)
<1>1. /\ bounce' \in [Slot -> Cell] /\ position' \in 0 .. BounceSize
      /\ call' = [c \in Client |-> NoCall]
  BY BounceSizeAssumption DEF LibPowerLoss, LibReset, Cell
<1>2. CASE flash' = flash
  BY <1>1, <1>2, NoCallOK DEF LibTypeOK
<1>3. ASSUME NEW c \in Client, call[c].pc = "erase",
             NEW n \in 0 .. call[c].size,
             flash' = ErasedFlash(call[c].addr, n)
      PROVE  /\ LibTypeOK'
             /\ \A a \in Addr : flash'[a] # flash[a] => a \in Footprint(c)
  <2>1. call[c].addr \in Nat /\ call[c].size \in Nat /\ n \in Nat
    BY <1>3 DEF LibTypeOK, CallOK
  <2>2. flash' \in [Addr -> Cell]
    BY <1>3, <2>1, FlashTyped
  <2>3. LibTypeOK'
    BY <1>1, <2>2, NoCallOK DEF LibTypeOK
  <2>4. \A a \in Addr : flash'[a] # flash[a] => a \in Footprint(c)
    BY <1>3, <2>1 DEF ErasedFlash, Footprint, Addr
  <2> QED BY <2>3, <2>4
<1>4. ASSUME NEW c \in Client, call[c].pc = "writebuf",
             NEW n \in 0 .. PartSize(call[c]),
             flash' = ProgrammedFlash(PartAddr(call[c]), n)
      PROVE  /\ LibTypeOK'
             /\ \A a \in Addr : flash'[a] # flash[a] => a \in Footprint(c)
  <2> DEFINE j == call[c]
  <2>1. CallOK(j) /\ j.addr \in Nat /\ j.size \in Nat /\ j.base \in Nat /\ j.base < j.size
    BY <1>4 DEF LibTypeOK, CallOK
  <2>2. PartSize(j) \in Nat \ {0} /\ j.base + PartSize(j) <= j.size
    BY <2>1, PartFits
  <2>3. PartSize(j) <= BounceSize
    BY <2>1, BounceSizeAssumption DEF PartSize, SmallerOf
  <2>4. flash' \in [Addr -> Cell]
    <3>1. PartAddr(j) \in Nat /\ n \in Nat /\ n <= BounceSize
      BY <2>1, <2>2, <2>3, BounceSizeAssumption DEF PartAddr
    <3> QED BY <1>4, <3>1, FlashTyped
  <2>5. LibTypeOK'
    BY <1>1, <2>4, NoCallOK DEF LibTypeOK
  <2>6. \A a \in Addr : flash'[a] # flash[a] => a \in Footprint(c)
    <3>1. SUFFICES ASSUME NEW a \in Addr, flash'[a] # flash[a]
                   PROVE  a \in Footprint(c)
      OBVIOUS
    <3>2. a \in PartAddr(j) .. PartAddr(j) + n - 1
      BY <1>4, <3>1 DEF ProgrammedFlash
    <3>3. n \in Int /\ n <= PartSize(j)
      BY <2>2
    <3>4. PartAddr(j) = j.addr + j.base
      BY DEF PartAddr
    <3> HIDE DEF j
    <3> QED BY <2>1, <2>2, <3>2, <3>3, <3>4 DEF Footprint, j
  <2> QED BY <2>5, <2>6
<1>5. \/ flash' = flash
      \/ \E c \in Client : /\ call[c].pc = "erase"
                          /\ \E n \in 0 .. call[c].size :
                               flash' = ErasedFlash(call[c].addr, n)
      \/ \E c \in Client : /\ call[c].pc = "writebuf"
                          /\ \E n \in 0 .. PartSize(call[c]) :
                               flash' = ProgrammedFlash(PartAddr(call[c]), n)
  <2> DEFINE Erases(d) == {ErasedFlash(call[d].addr, n) : n \in 0 .. call[d].size}
             Writes(d) == {ProgrammedFlash(PartAddr(call[d]), n) :
                             n \in 0 .. PartSize(call[d])}
             Erasing   == {d \in Client : /\ call[d].pc = "erase"
                                          /\ InFlash(call[d].addr, call[d].size)}
             Writing   == {d \in Client :
                             /\ call[d].pc = "writebuf"
                             /\ InFlash(PartAddr(call[d]), PartSize(call[d]))}
  <2>1. flash' \in {flash} \cup (UNION {Erases(d) : d \in Erasing})
                          \cup (UNION {Writes(d) : d \in Writing})
    BY Zenon DEF LibPowerLoss, TornFlash
  <2>2. \/ flash' = flash
        \/ \E d \in Erasing : flash' \in Erases(d)
        \/ \E d \in Writing : flash' \in Writes(d)
    <3> HIDE DEF Erases, Writes, Erasing, Writing
    <3>1. CASE flash' \in UNION {Erases(d) : d \in Erasing}
      BY <3>1, Zenon
    <3>2. CASE flash' \in UNION {Writes(d) : d \in Writing}
      BY <3>2, Zenon
    <3> QED BY <2>1, <3>1, <3>2, Zenon
  <2>3. ASSUME NEW d \in Erasing, flash' \in Erases(d)
        PROVE  /\ d \in Client /\ call[d].pc = "erase"
               /\ \E n \in 0 .. call[d].size : flash' = ErasedFlash(call[d].addr, n)
    BY <2>3
  <2>4. ASSUME NEW d \in Writing, flash' \in Writes(d)
        PROVE  /\ d \in Client /\ call[d].pc = "writebuf"
               /\ \E n \in 0 .. PartSize(call[d]) :
                    flash' = ProgrammedFlash(PartAddr(call[d]), n)
    BY <2>4
  <2> HIDE DEF Erases, Writes, Erasing, Writing
  <2> QED BY <2>2, <2>3, <2>4
<1>6. LibTypeOK'
  BY <1>2, <1>3, <1>4, <1>5
<1>7. ASSUME NEW a \in Addr, flash'[a] # flash[a]
      PROVE  \E c \in Client : a \in Footprint(c) /\ Changing(c)
  BY <1>3, <1>4, <1>5, <1>7 DEF Changing
<1> QED BY <1>1, <1>6, <1>7

\* The library starts with no call, whatever the flash holds.
LEMMA LibInitOK ==
  ASSUME NEW f \in [Addr -> Cell], LibInit(f)
  PROVE  LibTypeOK
  BY NoCallOK, BounceSizeAssumption DEF LibInit, LibTypeOK, Cell

\* The empty buffer is memory of no cells.
LEMMA NoBufOK == NoBuf \in Memory(0)
  BY DEF NoBuf, Memory

\* Entering the library, chaining a call to the last one, and leaving.
NewCallOf(c, op, addr, size) ==
  /\ DOMAIN call' = Client
  /\ \A d \in Client \ {c} : call'[d] = call[d]
  /\ CallOK(call'[c]) /\ call'[c].pc # "idle"
  /\ call'[c].op = op /\ call'[c].addr = addr /\ call'[c].size = size

LEMMA NewCallMade ==
  ASSUME LibTypeOK, NEW c \in Client, NEW op \in {"erase", "read", "write"},
         NEW addr \in Nat, NEW size \in Nat, NEW buf,
         op # "erase" => buf \in Memory(size),
         Enter(c, op, addr, size, buf) \/ Chain(c, op, addr, size, buf)
  PROVE  NewCallOf(c, op, addr, size)
<1>1. call' = [call EXCEPT ![c] = NewCall(op, addr, size, buf)] /\ DOMAIN call = Client
  BY DEF Enter, Chain, LibTypeOK
<1>2. call'[c] = NewCall(op, addr, size, buf)
  BY <1>1
<1> QED BY <1>1, <1>2, NewCallOK DEF NewCallOf

LEMMA CallLeft ==
  ASSUME LibTypeOK, NEW c \in Client, Leave(c)
  PROVE  /\ DOMAIN call' = Client /\ \A d \in Client \ {c} : call'[d] = call[d]
         /\ call'[c] = NoCall
  BY DEF Leave, LibTypeOK

\* A call of c that is well formed is all that has changed in the library.
LEMMA CallsTyped ==
  ASSUME LibTypeOK, NEW c \in Client, DOMAIN call' = Client, CallOK(call'[c]),
         \A d \in Client \ {c} : call'[d] = call[d],
         UNCHANGED <<flash, bounce, position>>
  PROVE  LibTypeOK'
  BY DEF LibTypeOK

----------------------------------------------------------------------------
(***************************************************************************)
(* The contents of a transfer.  As long as nobody else touches TF-A's      *)
(* buffer, what a call has pulled is what the flash holds, and what it has *)
(* stored was programmed from its own memory.                              *)
(***************************************************************************)

\* The cells of call j that have been pulled, that are stored in the flash or
\* erased, and those of its part that have been pushed.
Pulled(j) == IF j.pc = "return" THEN j.size ELSE j.base + j.moved
Stored(j) == IF j.pc = "return" THEN j.size ELSE j.base
Pushed(j) == IF j.pc = "push" THEN j.moved ELSE PartSize(j)

\* Programming clears bits only, so a stored cell has no bit the caller's
\* memory does not have; that it has them all depends on what was there.
TransferOK(c) ==
  LET j == call[c] IN
  /\ j.pc # "return" => j.err = 0
  /\ j.op = "read" /\ j.err = 0 =>
       \A i \in 0 .. Pulled(j) - 1 : j.buf[i] = flash[j.addr + i]
  /\ j.op = "write" /\ j.err = 0 =>
       \A i \in 0 .. Stored(j) - 1 : flash[j.addr + i] \subseteq j.buf[i]
  /\ j.op = "erase" /\ j.err = 0 =>
       \A i \in 0 .. Stored(j) - 1 : flash[j.addr + i] = Erased
  /\ j.op = "read" /\ j.pc \in {"position", "pull"} =>
       \A i \in 0 .. PartSize(j) - 1 : bounce[i] = flash[PartAddr(j) + i]
  /\ j.pc \in {"pull", "push"} => position = j.moved
  /\ j.pc \in {"push", "writebuf"} =>
       \A i \in 0 .. Pushed(j) - 1 : bounce[i] = j.buf[j.base + i]

\* What a monitor call of c does to the flash: nothing while it reads; a cell
\* of the call keeps its contents, or becomes erased or programmed.
ErasesOnly(c)   == \A a \in Addr : flash'[a] \in {flash[a], Erased}
ProgramsOnly(c) == \A a \in Addr :
  \/ flash'[a] = flash[a]
  \/ /\ a \in Footprint(c)
     /\ flash'[a] = Program(flash[a], call[c].buf[a - call[c].addr])

FlashEffect(c) ==
  /\ call[c].op \notin {"erase", "write"} => flash' = flash
  /\ call[c].op # "read" => call'[c].buf = call[c].buf
  /\ call[c].op = "erase" => ErasesOnly(c)
  /\ call[c].op = "write" => ProgramsOnly(c)

\* SmcFlashErase: a call that reports no error has erased all of its range.
LEMMA EraseTransfer ==
  ASSUME LibTypeOK, NEW c \in Client, SmcErase(c)
  PROVE  TransferOK(c)' /\ FlashEffect(c)
<1> DEFINE j == call[c]
<1>1. j.addr \in Nat /\ j.size \in Nat /\ j.op = "erase"
  BY DEF LibTypeOK, CallOK, SmcErase
<1>2. PICK o \in Outcome(j.addr, j.size) :
        flash' = ErasedFlash(j.addr, o.cells) /\ Return(c, o.err)
  BY DEF SmcErase
<1>3. StepsTo(c, "return", o.err)
  BY <1>2, ReturnSteps
<1>4. ASSUME o.err = 0, NEW i \in 0 .. j.size - 1
      PROVE  flash'[j.addr + i] = Erased
  <2>1. InFlash(j.addr, j.size) /\ o.cells = j.size
    BY <1>2, <1>4 DEF Outcome
  <2>2. j.addr + i \in Addr /\ j.addr + i \in j.addr .. j.addr + o.cells - 1
    BY <1>1, <2>1, FlashSizeAssumption DEF InFlash, Addr
  <2> QED BY <1>2, <2>2 DEF ErasedFlash
<1>5. TransferOK(c)'
  BY <1>1, <1>3, <1>4 DEF TransferOK, StepsTo, Stored
<1>6. FlashEffect(c)
  BY <1>1, <1>2, <1>3 DEF FlashEffect, ErasesOnly, StepsTo, ErasedFlash
<1> QED BY <1>5, <1>6

\* SmcFlashReadBuf: without an error the buffer holds the part.
LEMMA ReadBufTransfer ==
  ASSUME LibTypeOK, NEW c \in Client, TransferOK(c), SmcReadBuf(c)
  PROVE  TransferOK(c)' /\ FlashEffect(c)
<1> DEFINE j == call[c]
<1>1. j.pc = "readbuf" /\ j.op = "read" /\ j.err = 0 /\ flash' = flash
  BY DEF LibTypeOK, CallOK, SmcReadBuf, TransferOK
<1>2. /\ PartSize(j) \in Nat \ {0} /\ PartSize(j) <= BounceSize /\ PartAddr(j) \in Nat
      /\ j.base \in Nat /\ j.moved = 0 /\ j.size \in Nat
  BY <1>1, PartFacts
<1>3. PICK o \in Outcome(PartAddr(j), PartSize(j)) :
        /\ bounce' = [i \in Slot |-> IF i < o.cells THEN flash[PartAddr(j) + i]
                                                    ELSE bounce[i]]
        /\ IF o.err # 0 THEN Return(c, o.err) ELSE GoTo(c, "position")
  BY DEF SmcReadBuf
<1>4. CASE o.err # 0
  <2>1. StepsTo(c, "return", o.err)
    BY <1>3, <1>4, ReturnSteps
  <2> QED BY <1>1, <1>4, <2>1 DEF TransferOK, FlashEffect, ErasesOnly, ProgramsOnly, StepsTo
<1>5. CASE o.err = 0
  <2>1. StepsTo(c, "position", 0)
    BY <1>1, <1>3, <1>5, GoToSteps
  <2>2. o.cells = PartSize(j)
    BY <1>3, <1>5 DEF Outcome
  <2>3. \A i \in 0 .. PartSize(j) - 1 : bounce'[i] = flash[PartAddr(j) + i]
    BY <1>2, <1>3, <2>2, BounceSizeAssumption DEF Slot
  <2>4. PartSize(call'[c]) = PartSize(j) /\ PartAddr(call'[c]) = PartAddr(j)
    BY <2>1 DEF StepsTo, PartSize, PartAddr
  <2>5. \A i \in 0 .. j.base - 1 : j.buf[i] = flash[j.addr + i]
    BY <1>1, <1>2 DEF TransferOK, Pulled
  <2> QED BY <1>1, <1>2, <2>1, <2>3, <2>4, <2>5 DEF TransferOK, FlashEffect, ErasesOnly, ProgramsOnly, StepsTo, Pulled
<1> QED BY <1>4, <1>5

\* SmcFlashPosition (0): the next word moved is the first of the part.
LEMMA PositionTransfer ==
  ASSUME LibTypeOK, NEW c \in Client, TransferOK(c), SmcPosition(c)
  PROVE  TransferOK(c)' /\ FlashEffect(c)
<1> DEFINE j == call[c]
<1>1. /\ j.pc = "position" /\ j.op \in {"read", "write"} /\ j.err = 0
      /\ flash' = flash /\ bounce' = bounce
  BY DEF LibTypeOK, CallOK, SmcPosition, TransferOK
<1>2. j.base \in Nat /\ j.moved = 0 /\ j.size \in Nat /\ PartSize(j) \in Nat
  BY <1>1, PartFacts
<1>3. CASE Return(c, -1)
  <2>1. StepsTo(c, "return", -1)
    BY <1>3, ReturnSteps
  <2> QED BY <1>1, <2>1 DEF TransferOK, FlashEffect, ErasesOnly, ProgramsOnly, StepsTo
<1>4. CASE position' = 0 /\ GoTo(c, IF j.op = "read" THEN "pull" ELSE "push")
  <2>1. StepsTo(c, IF j.op = "read" THEN "pull" ELSE "push", 0)
    BY <1>1, <1>4, GoToSteps
  <2>2. PartSize(call'[c]) = PartSize(j) /\ PartAddr(call'[c]) = PartAddr(j)
    BY <2>1 DEF StepsTo, PartSize, PartAddr
  <2>3. CASE j.op = "read"
    <3>1. /\ \A i \in 0 .. j.base - 1 : j.buf[i] = flash[j.addr + i]
          /\ \A i \in 0 .. PartSize(j) - 1 : bounce[i] = flash[PartAddr(j) + i]
      BY <1>1, <1>2, <2>3 DEF TransferOK, Pulled
    <3> QED BY <1>1, <1>2, <1>4, <2>1, <2>2, <2>3, <3>1 DEF TransferOK, FlashEffect, ErasesOnly, ProgramsOnly, StepsTo, Pulled
  <2>4. CASE j.op = "write"
    <3>1. \A i \in 0 .. j.base - 1 : flash[j.addr + i] \subseteq j.buf[i]
      BY <1>1, <2>4 DEF TransferOK, Stored
    <3> QED BY <1>1, <1>2, <1>4, <2>1, <2>4, <3>1 DEF TransferOK, FlashEffect, ErasesOnly, ProgramsOnly, StepsTo, Stored, Pushed
  <2> QED BY <1>1, <2>3, <2>4
<1> QED BY <1>3, <1>4 DEF SmcPosition

\* SmcFlashPull4Words: one more cell of the caller's memory is the flash's.
LEMMA PullTransfer ==
  ASSUME LibTypeOK, NEW c \in Client, TransferOK(c), SmcPull(c)
  PROVE  TransferOK(c)' /\ FlashEffect(c)
<1> DEFINE j    == call[c]
           at   == j.base + j.moved
           last == j.moved + 1 = PartSize(j)
<1>1. /\ j.pc = "pull" /\ j.op = "read" /\ j.err = 0 /\ position = j.moved
      /\ flash' = flash /\ bounce' = bounce /\ position' = SmallerOf(position + 1, BounceSize)
  BY DEF LibTypeOK, CallOK, SmcPull, TransferOK
<1>2. /\ j.base \in Nat /\ j.moved \in Nat /\ j.size \in Nat /\ j.addr \in Nat
      /\ PartSize(j) \in Nat \ {0} /\ PartSize(j) <= BounceSize
      /\ j.base + PartSize(j) <= j.size /\ j.moved < PartSize(j)
      /\ j.buf \in Memory(j.size) /\ PartAddr(j) = j.addr + j.base
  BY <1>1, PartFacts
<1>3. PICK w \in Cell :
        /\ position \in Slot => w = bounce[position]
        /\ DOMAIN call'[c] = DOMAIN NoCall
        /\ call'[c].op = j.op /\ call'[c].addr = j.addr
        /\ call'[c].size = j.size /\ call'[c].err = j.err
        /\ call'[c].buf = [j.buf EXCEPT ![at] = w]
        /\ call'[c].moved = IF last THEN 0 ELSE j.moved + 1
        /\ call'[c].base = IF last THEN j.base + PartSize(j) ELSE j.base
        /\ call'[c].pc = IF ~last THEN "pull"
                         ELSE IF at + 1 = j.size THEN "return" ELSE "readbuf"
  BY PullFields
<1>4. w = flash[j.addr + at]
  <2>1. position \in Slot
    BY <1>1, <1>2, BounceSizeAssumption DEF Slot
  <2>2. j.moved \in 0 .. PartSize(j) - 1
    BY <1>2
  <2>3. bounce[j.moved] = flash[PartAddr(j) + j.moved]
    BY <1>1, <2>2 DEF TransferOK
  <2>4. PartAddr(j) + j.moved = j.addr + at
    BY <1>2
  <2> QED BY <1>1, <1>3, <2>1, <2>3, <2>4
<1>5. \A i \in 0 .. at : call'[c].buf[i] = flash[j.addr + i]
  <2>1. \A i \in 0 .. at - 1 : j.buf[i] = flash[j.addr + i]
    BY <1>1 DEF TransferOK, Pulled
  <2>2. DOMAIN j.buf = 0 .. j.size - 1 /\ at \in 0 .. j.size - 1
    BY <1>2 DEF Memory
  <2> DEFINE b == j.buf
  <2>3. call'[c].buf = [b EXCEPT ![at] = w] /\ at \in Int /\ DOMAIN b = 0 .. j.size - 1
    <3>1. call'[c].buf = [b EXCEPT ![at] = w]
      BY <1>3
    <3>2. at \in Int
      BY <1>2
    <3> QED BY <2>2, <3>1, <3>2
  <2>4. \A i \in 0 .. at - 1 : b[i] = flash[j.addr + i]
    BY <2>1
  <2> HIDE DEF b
  <2>5. ASSUME NEW i \in 0 .. at PROVE call'[c].buf[i] = flash[j.addr + i]
    <3>1. CASE i = at
      BY <1>4, <2>2, <2>3, <3>1
    <3>2. CASE i # at
      <4> HIDE DEF at
      <4>1. i \in 0 .. at - 1 /\ i \in DOMAIN b
        BY <1>2, <2>2, <2>3, <3>2
      <4> QED BY <2>3, <2>4, <3>2, <4>1
    <3> QED BY <3>1, <3>2
  <2> QED BY <2>5
<1>6. Pulled(call'[c]) = at + 1
  BY <1>2, <1>3 DEF Pulled
<1>7. /\ call'[c].pc # "return" => call'[c].err = 0
      /\ \A i \in 0 .. Pulled(call'[c]) - 1 : call'[c].buf[i] = flash[call'[c].addr + i]
  BY <1>1, <1>2, <1>3, <1>5, <1>6
<1>8. CASE last
  BY <1>1, <1>3, <1>7, <1>8 DEF TransferOK, FlashEffect, ErasesOnly, ProgramsOnly
<1>9. CASE ~last
  <2>1. PartSize(call'[c]) = PartSize(j) /\ PartAddr(call'[c]) = PartAddr(j)
    BY <1>3, <1>9 DEF PartSize, PartAddr
  <2>2. \A i \in 0 .. PartSize(j) - 1 : bounce[i] = flash[PartAddr(j) + i]
    BY <1>1 DEF TransferOK
  <2>3. position' = call'[c].moved
    BY <1>1, <1>2, <1>3, <1>9, BounceSizeAssumption DEF SmallerOf
  <2> QED BY <1>1, <1>3, <1>7, <1>9, <2>1, <2>2, <2>3 DEF TransferOK, FlashEffect, ErasesOnly, ProgramsOnly
<1> QED BY <1>8, <1>9

\* SmcFlashPush4Words: one more cell of the part is in TF-A's buffer.
LEMMA PushTransfer ==
  ASSUME LibTypeOK, NEW c \in Client, TransferOK(c), SmcPush(c)
  PROVE  TransferOK(c)' /\ FlashEffect(c)
<1> DEFINE j    == call[c]
           last == j.moved + 1 = PartSize(j)
<1>1. /\ j.pc = "push" /\ j.op = "write" /\ j.err = 0 /\ position = j.moved
      /\ flash' = flash /\ bounce \in [Slot -> Cell]
  BY DEF LibTypeOK, CallOK, SmcPush, TransferOK
<1>2. /\ j.base \in Nat /\ j.moved \in Nat /\ j.size \in Nat
      /\ PartSize(j) \in Nat \ {0} /\ PartSize(j) <= BounceSize /\ j.moved < PartSize(j)
  BY <1>1, PartFacts
<1>3. /\ \A i \in 0 .. j.base - 1 : flash[j.addr + i] \subseteq j.buf[i]
      /\ \A i \in 0 .. j.moved - 1 : bounce[i] = j.buf[j.base + i]
  BY <1>1 DEF TransferOK, Stored, Pushed
<1>4. CASE PushSteps(c)
  <2>1. \A i \in 0 .. j.moved : bounce'[i] = j.buf[j.base + i]
    <3>1. bounce' = [bounce EXCEPT ![j.moved] = j.buf[j.base + j.moved]]
      BY <1>1, <1>4 DEF PushSteps
    <3>2. \A i \in 0 .. j.moved : i \in Slot
      BY <1>2, BounceSizeAssumption DEF Slot
    <3>3. bounce'[j.moved] = j.buf[j.base + j.moved]
      BY <1>1, <1>2, <3>1, <3>2
    <3>4. \A i \in 0 .. j.moved - 1 : bounce'[i] = bounce[i]
      BY <1>1, <1>2, <3>1, <3>2
    <3>5. \A i \in 0 .. j.moved : i \in 0 .. j.moved - 1 \/ i = j.moved
      BY <1>2
    <3> QED BY <1>3, <3>3, <3>4, <3>5
  <2>2. Pushed(call'[c]) = j.moved + 1
    BY <1>4 DEF PushSteps, Pushed, PartSize
  <2>3. call'[c].pc = "push" => position' = call'[c].moved
    BY <1>1, <1>4 DEF PushSteps
  <2>4. \A i \in 0 .. Pushed(call'[c]) - 1 : bounce'[i] = call'[c].buf[call'[c].base + i]
    BY <1>2, <1>4, <2>1, <2>2 DEF PushSteps
  <2>5. Stored(call'[c]) = j.base
    BY <1>4 DEF PushSteps, Stored
  <2> QED BY <1>1, <1>3, <1>4, <2>3, <2>4, <2>5 DEF PushSteps, TransferOK, FlashEffect, ErasesOnly, ProgramsOnly
<1>5. CASE Return(c, -1) /\ UNCHANGED <<bounce, position>>
  <2>1. StepsTo(c, "return", -1)
    BY <1>5, ReturnSteps
  <2> QED BY <1>1, <2>1 DEF TransferOK, FlashEffect, ErasesOnly, ProgramsOnly, StepsTo
<1> QED BY <1>4, <1>5, PushFields

\* SmcFlashWriteBuf: the part is programmed from the caller's memory.
LEMMA WriteBufTransfer ==
  ASSUME LibTypeOK, NEW c \in Client, TransferOK(c), SmcWriteBuf(c)
  PROVE  TransferOK(c)' /\ FlashEffect(c)
<1> DEFINE j    == call[c]
           part == PartSize(j)
<1>1. j.pc = "writebuf" /\ j.op = "write" /\ j.err = 0 /\ bounce' = bounce
  BY DEF LibTypeOK, CallOK, SmcWriteBuf, TransferOK
<1>2. /\ j.base \in Nat /\ j.size \in Nat /\ j.addr \in Nat /\ j.moved = 0
      /\ part \in Nat \ {0} /\ part <= BounceSize /\ j.base + part <= j.size
      /\ PartAddr(j) = j.addr + j.base /\ PartAddr(j) \in Nat
  BY <1>1, PartFacts
<1>3. PICK o \in Outcome(PartAddr(j), part) :
        /\ flash' = ProgrammedFlash(PartAddr(j), o.cells)
        /\ \/ (o.err # 0 \/ j.base + part = j.size) /\ Return(c, o.err)
           \/ o.err = 0 /\ j.base + part # j.size /\ NextPart(c)
  BY WriteBufFields
<1>4. o.cells \in 0 .. part /\ o.err \in {0, -1}
  BY <1>2, <1>3, OutcomeOK
<1>5. /\ \A i \in 0 .. j.base - 1 : flash[j.addr + i] \subseteq j.buf[i]
      /\ \A i \in 0 .. part - 1 : bounce[i] = j.buf[j.base + i]
  BY <1>1 DEF TransferOK, Stored, Pushed
<1>6. ASSUME NEW a \in Addr
      PROVE  \/ flash'[a] = flash[a]
             \/ a \in Footprint(c) /\ flash'[a] = Program(flash[a], j.buf[a - j.addr])
  <2>1. CASE a \in PartAddr(j) .. PartAddr(j) + o.cells - 1
    <3>1. flash'[a] = Program(flash[a], bounce[a - PartAddr(j)])
      BY <1>3, <2>1 DEF ProgrammedFlash
    <3> HIDE DEF part
    <3>2. a - PartAddr(j) \in 0 .. part - 1 /\ j.base + (a - PartAddr(j)) = a - j.addr
      BY <1>2, <1>4, <2>1 DEF Addr
    <3>3. a \in Footprint(c)
      BY <1>2, <1>4, <2>1 DEF Footprint, Addr
    <3>4. bounce[a - PartAddr(j)] = j.buf[j.base + (a - PartAddr(j))]
      BY <1>5, <3>2
    <3> QED BY <3>1, <3>2, <3>3, <3>4
  <2>2. CASE a \notin PartAddr(j) .. PartAddr(j) + o.cells - 1
    BY <1>3, <2>2 DEF ProgrammedFlash
  <2> QED BY <2>1, <2>2
<1>7. ASSUME o.err = 0, NEW i \in 0 .. j.base + part - 1
      PROVE  flash'[j.addr + i] \subseteq j.buf[i]
  <2>1. InFlash(PartAddr(j), part) /\ o.cells = part
    BY <1>3, <1>7 DEF Outcome
  <2> HIDE DEF part
  <2>2. j.addr + i \in Addr
    BY <1>2, <2>1, FlashSizeAssumption DEF InFlash, Addr
  <2>3. (j.addr + i) - j.addr = i
    BY <1>2
  <2>4. PICK a \in Addr : a = j.addr + i /\ a - j.addr = i
    BY <2>2, <2>3
  <2>5. CASE i < j.base
    <3>1. flash[a] \subseteq j.buf[i]
      BY <1>2, <1>5, <2>4, <2>5
    <3>2. flash'[a] = flash[a] \/ flash'[a] = Program(flash[a], j.buf[a - j.addr])
      BY <1>6
    <3> QED BY <2>4, <3>1, <3>2 DEF Program
  <2>6. CASE i >= j.base
    <3>1. a \in PartAddr(j) .. PartAddr(j) + o.cells - 1
      BY <1>2, <2>1, <2>4, <2>6
    <3>2. flash'[a] = Program(flash[a], bounce[a - PartAddr(j)])
      BY <1>3, <3>1 DEF ProgrammedFlash
    <3>3. a - PartAddr(j) \in 0 .. part - 1 /\ j.base + (a - PartAddr(j)) = i
      BY <1>2, <2>4, <2>6
    <3>4. bounce[a - PartAddr(j)] = j.buf[i]
      BY <1>5, <3>3
    <3> QED BY <2>4, <3>2, <3>4 DEF Program
  <2> QED BY <1>2, <2>5, <2>6
<1> HIDE DEF part
<1>8. CASE (o.err # 0 \/ j.base + part = j.size) /\ Return(c, o.err)
  <2>1. StepsTo(c, "return", o.err)
    BY <1>8, ReturnSteps
  <2>2. o.err = 0 => \A i \in 0 .. j.size - 1 : flash'[j.addr + i] \subseteq j.buf[i]
    BY <1>2, <1>7, <1>8
  <2>3. TransferOK(c)'
    BY <1>1, <2>1, <2>2 DEF TransferOK, StepsTo, Stored
  <2>4. FlashEffect(c)
    BY <1>1, <1>6, <2>1 DEF FlashEffect, ErasesOnly, ProgramsOnly, StepsTo
  <2> QED BY <2>3, <2>4
<1>9. CASE o.err = 0 /\ NextPart(c)
  <2>1. /\ call'[c].pc = "position" /\ call'[c].op = "write" /\ call'[c].err = 0
        /\ Stored(call'[c]) = j.base + part /\ call'[c].buf = j.buf /\ call'[c].addr = j.addr
    BY <1>1, <1>9 DEF NextPart, Stored, part
  <2>2. \A i \in 0 .. Stored(call'[c]) - 1 : flash'[call'[c].addr + i] \subseteq call'[c].buf[i]
    BY <1>2, <1>7, <1>9, <2>1
  <2>3. TransferOK(c)'
    BY <2>1, <2>2 DEF TransferOK
  <2> QED BY <1>1, <1>6, <2>1, <2>3 DEF FlashEffect, ErasesOnly, ProgramsOnly
<1> QED BY <1>3, <1>8, <1>9

\* One monitor call of c, when nobody else has used TF-A's buffer since its
\* transfer began, keeps the transfer right.
LEMMA LibStepTransfer ==
  ASSUME LibTypeOK, NEW c \in Client, TransferOK(c), LibStep(c)
  PROVE  TransferOK(c)' /\ FlashEffect(c)
  BY EraseTransfer, ReadBufTransfer, PositionTransfer, PullTransfer, PushTransfer,
     WriteBufTransfer DEF LibStep

\* A transfer that begins is right, and it is of the caller's memory.
NewTransfer(c, buf) == TransferOK(c)' /\ call'[c].buf = buf

LEMMA NewTransferMade ==
  ASSUME DOMAIN call = Client, NEW c \in Client, NEW op \in {"erase", "read", "write"},
         NEW addr, NEW size, NEW buf,
         call' = [call EXCEPT ![c] = NewCall(op, addr, size, buf)]
  PROVE  NewTransfer(c, buf)
<1>1. call'[c] = NewCall(op, addr, size, buf)
  OBVIOUS
<1>2. /\ call'[c].op = op /\ call'[c].addr = addr /\ call'[c].size = size
      /\ call'[c].buf = buf /\ call'[c].base = 0 /\ call'[c].moved = 0
      /\ call'[c].pc = IF size = 0 THEN "return" ELSE FirstStep[op]
      /\ call'[c].err = IF size = 0 THEN -1 ELSE 0
  BY <1>1 DEF NewCall
<1>3. /\ op = "erase" => FirstStep[op] = "erase"
      /\ op = "read" => FirstStep[op] = "readbuf"
      /\ op = "write" => FirstStep[op] = "position"
  BY DEF FirstStep
<1>4. CASE size = 0
  BY <1>2, <1>4 DEF TransferOK, NewTransfer
<1>5. CASE size # 0
  <2>1. Pulled(call'[c]) = 0 /\ Stored(call'[c]) = 0
    BY <1>2, <1>3, <1>5 DEF Pulled, Stored
  <2> QED BY <1>2, <1>3, <1>5, <2>1 DEF TransferOK, NewTransfer
<1> QED BY <1>4, <1>5

----------------------------------------------------------------------------
(***************************************************************************)
(* Arithmetic of sectors and blocks.                                       *)
(***************************************************************************)
LEMMA Division ==
  ASSUME NEW a \in Nat, NEW s \in Nat \ {0}
  PROVE  /\ a \div s \in Nat /\ a % s \in 0 .. s - 1
         /\ a = (a \div s) * s + (a % s)
  OBVIOUS

LEMMA TimesMonotone ==
  ASSUME NEW a \in Int, NEW b \in Int, NEW s \in Nat, a <= b
  PROVE  a * s <= b * s
<1>1. PICK d \in Nat : b = a + d
  <2>1. b - a \in Nat
    OBVIOUS
  <2> QED BY <2>1
<1>2. b * s = a * s + d * s
  BY <1>1
<1>3. d * s >= 0
  BY <1>1
<1> QED BY <1>2, <1>3

\* Rounding down to a multiple of s does not pass a multiple below.
LEMMA RoundDown ==
  ASSUME NEW k \in Nat, NEW a \in Nat, NEW s \in Nat \ {0}, k * s <= a
  PROVE  /\ a \div s \in Nat /\ k * s <= (a \div s) * s /\ (a \div s) * s <= a
<1> DEFINE q == a \div s
<1>1. q \in Nat /\ a = q * s + (a % s) /\ a % s \in 0 .. s - 1
  BY Division
<1> HIDE DEF q
<1>2. k <= q
  <2>1. SUFFICES ASSUME q + 1 <= k
                 PROVE  FALSE
    BY <1>1
  <2>2. (q + 1) * s <= k * s
    BY <1>1, <2>1, TimesMonotone
  <2>3. (q + 1) * s = q * s + s
    BY <1>1
  <2>4. q * s \in Int /\ k * s \in Int
    BY <1>1
  <2> QED BY <1>1, <2>2, <2>3, <2>4
<1>3. k * s <= q * s
  BY <1>1, <1>2, TimesMonotone
<1>4. q * s <= a
  BY <1>1
<1> QED BY <1>1, <1>3, <1>4 DEF q

\* Rounding up to a multiple of s does not pass a multiple above.
LEMMA RoundUp ==
  ASSUME NEW m \in Nat, NEW x \in Nat, NEW s \in Nat \ {0}, x <= m * s
  PROVE  /\ (x + s - 1) \div s \in Nat
         /\ x <= ((x + s - 1) \div s) * s /\ ((x + s - 1) \div s) * s <= m * s
<1> DEFINE y == x + s - 1
           q == y \div s
<1>1. y \in Nat
  OBVIOUS
<1>2. q \in Nat /\ y = q * s + (y % s) /\ y % s \in 0 .. s - 1
  BY <1>1, Division
<1> HIDE DEF q
<1>3. q * s \in Int /\ m * s \in Int
  BY <1>2
<1>4. q <= m
  <2>1. SUFFICES ASSUME m + 1 <= q
                 PROVE  FALSE
    BY <1>2
  <2>2. (m + 1) * s <= q * s
    BY <1>2, <2>1, TimesMonotone
  <2>3. (m + 1) * s = m * s + s
    OBVIOUS
  <2> QED BY <1>2, <1>3, <2>2, <2>3
<1>5. q * s <= m * s
  BY <1>2, <1>4, TimesMonotone
<1>6. x <= q * s
  BY <1>2, <1>3
<1> QED BY <1>2, <1>5, <1>6 DEF q

\* The device covers the flash from FLASH_MAP_BLOCK on, in whole blocks.
LEMMA DeviceGeometry ==
  /\ DeviceSize = FlashSize - MapBlock /\ DeviceSize \in Nat
  /\ LastBlock \in Int /\ (LastBlock + 1) * BlockSize = DeviceSize
<1> USE BlkAssumption, FlashSizeAssumption, SectorSizeAssumption
<1>1. DeviceSize = FlashSize - MapBlock /\ DeviceSize \in Nat
  <2>1. SectorSize * SectorCount - MapBlock \in 0 .. Uint32 - 1
    OBVIOUS
  <2> QED BY <2>1 DEF DeviceSize
<1>2. PICK r \in Nat : SectorSize = r * BlockSize
  <2>1. SectorSize = (SectorSize \div BlockSize) * BlockSize
    BY Division
  <2> QED BY <2>1, Division
<1>3. PICK k \in Nat : MapBlock = k * SectorSize
  <2>1. MapBlock = (MapBlock \div SectorSize) * SectorSize
    BY Division
  <2> QED BY <2>1, Division
<1> DEFINE n == SectorCount * r - k * r
<1>4. n \in Int /\ DeviceSize = n * BlockSize
  <2>1. SectorSize * SectorCount = (SectorCount * r) * BlockSize
    BY <1>2
  <2>2. MapBlock = (k * r) * BlockSize
    BY <1>2, <1>3
  <2>3. SectorCount * r \in Int /\ k * r \in Int
    OBVIOUS
  <2> DEFINE p == SectorCount * r
             q == k * r
  <2> HIDE DEF p, q
  <2>4. (p - q) * BlockSize = p * BlockSize - q * BlockSize
    BY <2>3 DEF p, q
  <2> QED BY <1>1, <2>1, <2>2, <2>3, <2>4 DEF p, q
<1> HIDE DEF n
<1>5. n \in Nat
  <2>1. SUFFICES ASSUME n + 1 <= 0
                 PROVE  FALSE
    BY <1>4
  <2>2. (n + 1) * BlockSize <= 0 * BlockSize
    BY <1>4, <2>1, TimesMonotone
  <2>3. (n + 1) * BlockSize = n * BlockSize + BlockSize
    BY <1>4
  <2> QED BY <1>1, <1>4, <2>2, <2>3
<1>6. (n * BlockSize + BlockSize - 1) \div BlockSize = n
  <2> DEFINE m == (n * BlockSize + BlockSize - 1) \div BlockSize
  <2>1. /\ m \in Nat
        /\ n * BlockSize <= m * BlockSize /\ m * BlockSize <= n * BlockSize
    BY <1>5, RoundUp
  <2> HIDE DEF m
  <2>2. m <= n
    <3>1. SUFFICES ASSUME n + 1 <= m
                   PROVE  FALSE
      BY <1>5, <2>1
    <3>2. (n + 1) * BlockSize <= m * BlockSize
      BY <1>5, <2>1, <3>1, TimesMonotone
    <3>3. (n + 1) * BlockSize = n * BlockSize + BlockSize
      BY <1>5
    <3> QED BY <1>5, <2>1, <3>2, <3>3
  <2>3. n <= m
    <3>1. SUFFICES ASSUME m + 1 <= n
                   PROVE  FALSE
      BY <1>5, <2>1
    <3>2. (m + 1) * BlockSize <= n * BlockSize
      BY <1>5, <2>1, <3>1, TimesMonotone
    <3>3. (m + 1) * BlockSize = m * BlockSize + BlockSize
      BY <2>1
    <3> QED BY <1>5, <2>1, <3>2, <3>3
  <2> QED BY <1>5, <2>1, <2>2, <2>3 DEF m
<1>7. LastBlock = n - 1
  BY <1>4, <1>6 DEF LastBlock
<1> QED BY <1>1, <1>4, <1>5, <1>7

\* A request that passes the checks lies in the block area.
LEMMA RequestInArea ==
  ASSUME NEW lba \in Nat, NEW size \in Nat,
         Refusal(FALSE, TRUE, lba, size) = "SUCCESS"
  PROVE  /\ FlashOffset(lba) \in Nat /\ FlashOffset(lba) >= MapBlock
         /\ FlashOffset(lba) + size <= FlashSize
<1> USE BlkAssumption, FlashSizeAssumption
<1>1. size % BlockSize = 0 /\ lba + size \div BlockSize - 1 <= LastBlock
  BY DeviceGeometry DEF Refusal
<1> DEFINE k == size \div BlockSize
<1>2. k \in Nat /\ size = k * BlockSize
  <2>1. BlockSize \in Nat \ {0}
    OBVIOUS
  <2>2. k \in Nat /\ size = k * BlockSize + (size % BlockSize)
    BY <2>1, Division
  <2> HIDE DEF k
  <2> QED BY <1>1, <2>1, <2>2
<1> HIDE DEF k
<1>3. (lba + k) * BlockSize <= (LastBlock + 1) * BlockSize
  BY <1>1, <1>2, DeviceGeometry, TimesMonotone DEF k
<1>4. (lba + k) * BlockSize = lba * BlockSize + size
  BY <1>2
<1>5. lba * BlockSize \in Nat
  OBVIOUS
<1> QED BY <1>3, <1>4, <1>5, DeviceGeometry DEF FlashOffset

\* The sectors around it, too.
LEMMA SectorsInArea ==
  ASSUME NEW lba \in Nat, NEW size \in Nat,
         Refusal(FALSE, TRUE, lba, size) = "SUCCESS"
  PROVE  /\ RmwAddr(lba) \in Nat /\ RmwAddr(lba) >= MapBlock
         /\ RmwSize(lba, size) \in Nat
         /\ RmwAddr(lba) + RmwSize(lba, size) <= FlashSize
         /\ RmwOffset(lba) \in Nat
<1> USE BlkAssumption, FlashSizeAssumption, SectorSizeAssumption
<1> DEFINE f == FlashOffset(lba)
           q == f \div SectorSize
           x == RmwOffset(lba) + size
<1>1. f \in Nat /\ f >= MapBlock /\ f + size <= FlashSize
  BY RequestInArea
<1>2. PICK k \in Nat : MapBlock = k * SectorSize
  <2>1. MapBlock = (MapBlock \div SectorSize) * SectorSize
    BY Division
  <2> QED BY <2>1, Division
<1> HIDE DEF f
<1>3. q \in Nat /\ MapBlock <= q * SectorSize /\ q * SectorSize <= f
  BY <1>1, <1>2, RoundDown
<1>4. RmwAddr(lba) = q * SectorSize /\ RmwOffset(lba) = f - q * SectorSize
  BY DEF RmwAddr, RmwOffset, f
<1> HIDE DEF q
<1>5. q * SectorSize \in Nat /\ x \in Nat /\ q * SectorSize + x = f + size
  BY <1>1, <1>3, <1>4
<1>6. SectorCount - q \in Nat
  <2>1. SUFFICES ASSUME SectorCount + 1 <= q
                 PROVE  FALSE
    BY <1>3
  <2>2. (SectorCount + 1) * SectorSize <= q * SectorSize
    BY <1>3, <2>1, TimesMonotone
  <2>3. (SectorCount + 1) * SectorSize = FlashSize + SectorSize
    OBVIOUS
  <2> QED BY <1>1, <1>3, <1>5, <2>2, <2>3
<1>7. (SectorCount - q) * SectorSize = FlashSize - q * SectorSize
  BY <1>3
<1>8. x <= (SectorCount - q) * SectorSize
  BY <1>1, <1>5, <1>7
<1> DEFINE t == ((x + SectorSize - 1) \div SectorSize) * SectorSize
<1> HIDE DEF x
<1>9. t \in Nat /\ t <= (SectorCount - q) * SectorSize
  <2>1. (x + SectorSize - 1) \div SectorSize \in Nat
    BY <1>5, <1>6, <1>8, RoundUp
  <2>2. t <= (SectorCount - q) * SectorSize
    BY <1>5, <1>6, <1>8, RoundUp
  <2> QED BY <2>1, <2>2
<1>10. RmwSize(lba, size) = t
  BY DEF RmwSize, x
<1> HIDE DEF t
<1> QED BY <1>1, <1>3, <1>4, <1>5, <1>7, <1>9, <1>10

(***************************************************************************)
(* The inductive invariant: while a request is served the call it made     *)
(* lies in the block area and, between the three calls of a rewrite, in    *)
(* the sectors the request began with.  With the driver alone on the flash  *)
(* nobody else calls the library.                                          *)
(***************************************************************************)
Serving == {"read"} \cup Rewriting

InArea(j) == j.addr >= MapBlock /\ j.addr + j.size <= FlashSize

BlkInv ==
  /\ BlkTypeOK
  /\ DOMAIN blk = DOMAIN BlkQuiet("off")
  /\ blk.pc \in Serving => ~Idle(Blk) /\ InArea(call[Blk])
  /\ blk.pc \notin Serving => Idle(Blk)
  /\ blk.pc \in Rewriting => call[Blk].addr = blk.adr
  /\ blk.pc = "rmwread" => call[Blk].op = "read"

BlkAlone == \A c \in Client \ {Blk} : Idle(c)

\* What BlkQuiet leaves in a request.
LEMMA QuietFields ==
  ASSUME NEW pc
  PROVE  /\ BlkQuiet(pc).pc = pc /\ BlkQuiet(pc).lba = 0 /\ BlkQuiet(pc).size = 0
         /\ BlkQuiet(pc).data = NoBuf /\ BlkQuiet(pc).adr = 0
         /\ BlkQuiet(pc).err = 0
         /\ DOMAIN BlkQuiet(pc) = DOMAIN BlkQuiet("off")
  BY DEF BlkQuiet

\* The driver starts with no request.
LEMMA BlkInitInv ==
  ASSUME \E f \in [Addr -> Cell] : LibInit(f), BlkInit
  PROVE  BlkInv
<1>1. LibTypeOK
  BY LibInitOK
<1>2. \A c \in Client : call[c].pc = "idle"
  BY DEF LibInit, NoCall
<1> QED BY <1>1, <1>2, QuietFields, NoBufOK, BlkAssumption
        DEF BlkInit, BlkInv, BlkTypeOK, Idle, Serving, Rewriting

LEMMA BlkLibStepInv ==
  ASSUME BlkInv, LibStep(Blk), UNCHANGED blkVars
  PROVE  BlkInv'
<1>1. LibTypeOK' /\ Advances(Blk)
  BY BlkAssumption, LibStepOK DEF BlkInv, BlkTypeOK
<1>2. ~Idle(Blk)
  BY DEF LibStep, SmcErase, SmcReadBuf, SmcPosition, SmcPull, SmcPush, SmcWriteBuf, Idle
<1> QED BY <1>1, <1>2
        DEF blkVars, BlkInv, BlkTypeOK, Advances, Idle, InArea, Serving, Rewriting

LEMMA BlkEntryInv ==
  ASSUME BlkInv, BlkEntry
  PROVE  BlkInv'
<1>1. PICK pc \in {"ready", "absent"} : blk' = BlkQuiet(pc)
  BY DEF BlkEntry
<1>2. LibTypeOK'
  BY DEF BlkEntry, BlkInv, BlkTypeOK, LibTypeOK, libVars
<1>3. call' = call /\ blkStatus' = blkStatus /\ blk.pc = "off"
  BY DEF BlkEntry, libVars
<1> QED BY <1>1, <1>2, <1>3, QuietFields, NoBufOK
        DEF BlkInv, BlkTypeOK, Idle, Serving, Rewriting

LEMMA BlkRefuseInv ==
  ASSUME BlkInv, NEW null \in BOOLEAN, NEW media \in BOOLEAN, NEW lba, NEW size,
         BlkRefuse(null, media, lba, size)
  PROVE  BlkInv'
<1>1. blkStatus' \in {"INVALID_PARAMETER", "BAD_BUFFER_SIZE", "MEDIA_CHANGED"}
  BY DEF BlkRefuse, Refusal
<1>2. LibTypeOK' /\ call' = call /\ blk' = blk
  BY DEF BlkRefuse, BlkInv, BlkTypeOK, LibTypeOK, libVars
<1> QED BY <1>1, <1>2 DEF BlkInv, BlkTypeOK, Idle, InArea

LEMMA BlkNoMemoryInv ==
  ASSUME BlkInv, NEW lba, NEW size, BlkNoMemory(lba, size)
  PROVE  BlkInv'
<1>1. LibTypeOK' /\ call' = call /\ blk' = blk /\ blkStatus' = "OUT_OF_RESOURCES"
  BY DEF BlkNoMemory, BlkInv, BlkTypeOK, LibTypeOK, libVars
<1> QED BY <1>1 DEF BlkInv, BlkTypeOK, Idle, InArea

LEMMA BlkReadInv ==
  ASSUME BlkInv, NEW lba \in Block, NEW size \in 1 .. MaxBuffer,
         NEW junk \in Junk, BlkRead(lba, size, junk)
  PROVE  BlkInv'
<1> DEFINE buf == [i \in 0 .. size - 1 |-> junk]
<1>1. LibTypeOK /\ lba \in Nat /\ size \in Nat /\ Blk \in Client
  BY BlkAssumption, DeviceGeometry DEF Block, BlkInv, BlkTypeOK
<1>2. buf \in Memory(size)
  BY BlkAssumption DEF Memory
<1> HIDE DEF buf
<1>3. Enter(Blk, "read", FlashOffset(lba), size, buf)
  BY DEF BlkRead, buf
<1>4. /\ FlashOffset(lba) \in Nat /\ FlashOffset(lba) >= MapBlock
      /\ FlashOffset(lba) + size <= FlashSize
  BY <1>1, RequestInArea DEF BlkRead
<1>5. NewCallOf(Blk, "read", FlashOffset(lba), size)
  BY <1>1, <1>2, <1>3, <1>4, NewCallMade
<1>6. LibTypeOK'
  BY <1>1, <1>5, CallsTyped DEF NewCallOf, BlkRead
<1>7. /\ blk'.pc = "read" /\ blk'.lba = lba /\ blk'.size = 0 /\ blk'.adr = 0
      /\ blk'.data = NoBuf /\ blk'.err = 0 /\ DOMAIN blk' = DOMAIN BlkQuiet("off")
  BY DEF BlkRead, BlkQuiet
<1>8. blkStatus' = blkStatus
  BY DEF BlkRead
<1> QED BY <1>1, <1>4, <1>5, <1>6, <1>7, <1>8, NoBufOK
        DEF BlkInv, BlkTypeOK, NewCallOf, Idle, InArea, Serving, Rewriting

LEMMA BlkWriteInv ==
  ASSUME BlkInv, NEW lba \in Block, NEW size \in 1 .. MaxBuffer,
         NEW junk \in Junk, NEW data \in [0 .. size - 1 -> BlkData],
         BlkWrite(lba, size, data, junk)
  PROVE  BlkInv'
<1> DEFINE total == RmwSize(lba, size)
           buf   == [i \in 0 .. total - 1 |-> junk]
<1>1. LibTypeOK /\ lba \in Nat /\ size \in Nat /\ Blk \in Client
  BY BlkAssumption, DeviceGeometry DEF Block, BlkInv, BlkTypeOK
<1>2. /\ RmwAddr(lba) \in Nat /\ RmwAddr(lba) >= MapBlock /\ total \in Nat
      /\ RmwAddr(lba) + total <= FlashSize
  BY <1>1, SectorsInArea DEF BlkWrite
<1> HIDE DEF total
<1>3. buf \in Memory(total) /\ data \in Memory(size)
  BY BlkAssumption DEF Memory
<1> HIDE DEF buf
<1>4. Enter(Blk, "read", RmwAddr(lba), total, buf)
  BY DEF BlkWrite, buf, total
<1>5. NewCallOf(Blk, "read", RmwAddr(lba), total)
  BY <1>1, <1>2, <1>3, <1>4, NewCallMade
<1>6. LibTypeOK'
  BY <1>1, <1>5, CallsTyped DEF NewCallOf, BlkWrite
<1>7. /\ blk'.pc = "rmwread" /\ blk'.lba = lba /\ blk'.size = size
      /\ blk'.adr = RmwAddr(lba) /\ blk'.data = data /\ blk'.err = 0
      /\ DOMAIN blk' = DOMAIN BlkQuiet("off")
  BY DEF BlkWrite, BlkQuiet
<1>8. blkStatus' = blkStatus
  BY DEF BlkWrite
<1> QED BY <1>1, <1>2, <1>3, <1>5, <1>6, <1>7, <1>8
        DEF BlkInv, BlkTypeOK, NewCallOf, Idle, InArea, Serving, Rewriting

\* The last call of a request returns and the driver is ready again.
LEMMA BlkDoneInv ==
  ASSUME BlkInv, Leave(Blk), blk' = BlkQuiet("ready"), blkStatus' = "SUCCESS",
         UNCHANGED <<flash, bounce, position>>
  PROVE  BlkInv'
<1>1. LibTypeOK /\ Blk \in Client
  BY BlkAssumption DEF BlkInv, BlkTypeOK
<1>2. /\ DOMAIN call' = Client /\ call'[Blk] = NoCall
      /\ \A d \in Client \ {Blk} : call'[d] = call[d]
  BY <1>1, CallLeft
<1>3. LibTypeOK'
  BY <1>1, <1>2, NoCallOK, CallsTyped
<1>4. call'[Blk].pc = "idle"
  BY <1>2 DEF NoCall
<1> QED BY <1>2, <1>3, <1>4, QuietFields, NoBufOK
        DEF BlkInv, BlkTypeOK, Idle, Serving, Rewriting

LEMMA BlkSectorsReadInv ==
  ASSUME BlkInv, BlkSectorsRead
  PROVE  BlkInv'
<1> DEFINE j      == call[Blk]
           merged == Overlay(j.buf, RmwOffset(blk.lba), blk.data)
<1>1. /\ LibTypeOK /\ Blk \in Client /\ CallOK(j) /\ blk.pc = "rmwread"
      /\ j.op = "read" /\ j.buf \in Memory(j.size)
      /\ j.size \in Nat /\ j.addr = blk.adr /\ blk.adr \in Nat
  BY BlkAssumption DEF BlkSectorsRead, BlkInv, BlkTypeOK, LibTypeOK, CallOK, Rewriting
<1>2. Chain(Blk, "erase", blk.adr, j.size, NoBuf)
  BY DEF BlkSectorsRead
<1>3. NewCallOf(Blk, "erase", blk.adr, j.size)
  BY <1>1, <1>2, NewCallMade
<1>4. LibTypeOK'
  BY <1>1, <1>3, CallsTyped DEF NewCallOf, BlkSectorsRead
<1>5. merged \in Memory(j.size)
  <2>1. ASSUME NEW i \in DOMAIN blk.data
        PROVE  blk.data[i] \in Cell
    BY <2>1 DEF BlkInv, BlkTypeOK, Memory
  <2>2. DOMAIN j.buf = 0 .. j.size - 1 /\ \A i \in 0 .. j.size - 1 : j.buf[i] \in Cell
    BY <1>1 DEF Memory
  <2> QED BY <2>1, <2>2 DEF Memory, Overlay
<1> HIDE DEF merged
<1>6. /\ blk'.pc = "rmwerase" /\ blk'.lba = blk.lba /\ blk'.size = blk.size
      /\ blk'.adr = blk.adr /\ blk'.data = blk.data /\ blk'.buf = merged
      /\ blk'.err \in Int
      /\ DOMAIN blk' = DOMAIN BlkQuiet("off")
  BY <1>1 DEF BlkSectorsRead, BlkInv, BlkTypeOK, BlkError, BlkQuiet, CallOK, merged
<1>7. blkStatus' = blkStatus
  BY DEF BlkSectorsRead
<1>8. InArea(call'[Blk])
  BY <1>1, <1>3 DEF BlkInv, InArea, NewCallOf, Serving, Rewriting
<1> QED BY <1>1, <1>3, <1>4, <1>5, <1>6, <1>7, <1>8
        DEF BlkInv, BlkTypeOK, NewCallOf, Idle, Serving, Rewriting, InArea

LEMMA BlkSectorsErasedInv ==
  ASSUME BlkInv, BlkSectorsErased
  PROVE  BlkInv'
<1> DEFINE j == call[Blk]
<1>1. /\ LibTypeOK /\ Blk \in Client /\ CallOK(j) /\ blk.pc = "rmwerase"
      /\ blk.buf \in Memory(j.size)
      /\ j.size \in Nat /\ j.addr = blk.adr /\ blk.adr \in Nat
  BY BlkAssumption DEF BlkSectorsErased, BlkInv, BlkTypeOK, LibTypeOK, CallOK, Rewriting
<1>2. Chain(Blk, "write", blk.adr, j.size, blk.buf)
  BY DEF BlkSectorsErased
<1>3. NewCallOf(Blk, "write", blk.adr, j.size)
  BY <1>1, <1>2, NewCallMade
<1>4. LibTypeOK'
  BY <1>1, <1>3, CallsTyped DEF NewCallOf, BlkSectorsErased
<1>5. /\ blk'.pc = "rmwwrite" /\ blk'.lba = blk.lba /\ blk'.size = blk.size
      /\ blk'.adr = blk.adr /\ blk'.data = blk.data /\ blk'.buf = blk.buf
      /\ blk'.err \in Int
      /\ DOMAIN blk' = DOMAIN BlkQuiet("off")
  BY <1>1 DEF BlkSectorsErased, BlkInv, BlkTypeOK, BlkError, BlkQuiet, CallOK
<1>6. blkStatus' = blkStatus
  BY DEF BlkSectorsErased
<1>7. InArea(call'[Blk])
  BY <1>1, <1>3 DEF BlkInv, InArea, NewCallOf, Serving, Rewriting
<1> QED BY <1>1, <1>3, <1>4, <1>5, <1>6, <1>7
        DEF BlkInv, BlkTypeOK, NewCallOf, Idle, Serving, Rewriting, InArea

LEMMA BlkPowerLossInv ==
  ASSUME BlkInv, BlkPowerLoss
  PROVE  BlkInv'
<1>1. LibTypeOK' /\ call' = [c \in Client |-> NoCall]
  BY LibPowerLossOK DEF BlkInv, BlkTypeOK, BlkPowerLoss
<1>2. \A c \in Client : call'[c].pc = "idle"
  BY <1>1 DEF NoCall
<1> QED BY <1>1, <1>2, QuietFields, NoBufOK, BlkAssumption
        DEF BlkPowerLoss, BlkReset, BlkInv, BlkTypeOK, Idle, Serving, Rewriting

LEMMA BlkStepInv ==
  ASSUME BlkInv, [BlkNext]_<<libVars, blkVars>>
  PROVE  BlkInv'
<1>1. CASE BlkEntry
  BY <1>1, BlkEntryInv
<1>2. CASE BlkReadDone
  BY <1>2, BlkDoneInv DEF BlkReadDone
<1>3. CASE BlkSectorsRead
  BY <1>3, BlkSectorsReadInv
<1>4. CASE BlkSectorsErased
  BY <1>4, BlkSectorsErasedInv
<1>5. CASE BlkSectorsWritten
  BY <1>5, BlkDoneInv DEF BlkSectorsWritten
<1>6. CASE LibStep(Blk) /\ UNCHANGED blkVars
  BY <1>6, BlkLibStepInv
<1>7. CASE BlkRequest
  BY <1>7, BlkRefuseInv, BlkReadInv, BlkWriteInv, BlkNoMemoryInv DEF BlkRequest
<1>8. CASE BlkPowerLoss
  BY <1>8, BlkPowerLossInv
<1>9. CASE UNCHANGED <<libVars, blkVars>>
  BY <1>9 DEF libVars, blkVars, BlkInv, BlkTypeOK, LibTypeOK, Idle, InArea
<1> QED BY <1>1, <1>2, <1>3, <1>4, <1>5, <1>6, <1>7, <1>8, <1>9 DEF BlkNext, BlkRun

\* The driver moves no call but its own.
LEMMA BlkOwnCallOnly ==
  ASSUME BlkInv, BlkRun \/ BlkRequest
  PROVE  \A d \in Client \ {Blk} : call'[d] = call[d]
<1>1. Blk \in Client /\ LibTypeOK /\ DOMAIN call = Client
  BY BlkAssumption DEF BlkInv, BlkTypeOK, LibTypeOK
<1>2. CASE LibStep(Blk)
  BY <1>1, <1>2, LibStepOK DEF Advances
<1>3. CASE BlkRequest
  BY <1>1, <1>3 DEF BlkRequest, BlkRefuse, BlkRead, BlkWrite, BlkNoMemory, libVars, Enter
<1>4. CASE BlkEntry \/ BlkReadDone \/ BlkSectorsRead \/ BlkSectorsErased \/ BlkSectorsWritten
  BY <1>1, <1>4 DEF BlkEntry, BlkReadDone, BlkSectorsRead, BlkSectorsErased,
                    BlkSectorsWritten, libVars, Chain, Leave
<1> QED BY <1>2, <1>3, <1>4 DEF BlkRun

LEMMA BlkAloneKept ==
  ASSUME BlkInv, BlkAlone, [BlkNext]_<<libVars, blkVars>>
  PROVE  BlkAlone'
<1>1. CASE BlkRun \/ BlkRequest
  BY <1>1, BlkOwnCallOnly DEF BlkAlone, Idle
<1>2. CASE BlkPowerLoss
  BY <1>2, LibPowerLossOK DEF BlkPowerLoss, BlkInv, BlkTypeOK, BlkAlone, Idle, NoCall
<1>3. CASE UNCHANGED <<libVars, blkVars>>
  BY <1>3 DEF libVars, BlkAlone, Idle
<1> QED BY <1>1, <1>2, <1>3 DEF BlkNext

\* The inductive invariant holds in every state of the driver.
THEOREM BlkInvariant == BlkSpec => [](BlkInv /\ BlkAlone)
<1>1. (\E f \in [Addr -> Cell] : LibInit(f)) /\ BlkInit => BlkInv /\ BlkAlone
  <2>1. (\E f \in [Addr -> Cell] : LibInit(f)) => BlkAlone
    BY DEF LibInit, NoCall, BlkAlone, Idle
  <2> QED BY <2>1, BlkInitInv
<1>2. BlkInv /\ BlkAlone /\ [BlkNext]_<<libVars, blkVars>> => (BlkInv /\ BlkAlone)'
  BY BlkStepInv, BlkAloneKept
<1> QED BY <1>1, <1>2, PTL DEF BlkSpec

\* Type correctness: every request and every call of the block device stays
\* well formed (SmcFlashBlockIoDxe on SmcFlashLib).
THEOREM BlkTypeCorrect == BlkSpec => []BlkTypeOK
<1>1. BlkInv => BlkTypeOK
  BY DEF BlkInv
<1> QED BY <1>1, BlkInvariant, PTL

\* The sectors that WriteBlocks erases lie in the block area, whatever the
\* sizes of sectors, blocks and area.
THEOREM BlkEraseConfined == BlkSpec => []RmwStaysInBlockArea
<1>1. BlkInv => RmwStaysInBlockArea
  BY DEF BlkInv, RmwStaysInBlockArea, InArea, Serving
<1> QED BY <1>1, BlkInvariant, PTL

\* A cell that the driver's call covers is in the block area.
LEMMA BlkFootprint ==
  ASSUME BlkInv, NEW a \in Addr, a \in Footprint(Blk), Changing(Blk)
  PROVE  a >= MapBlock
<1>1. Blk \in Client /\ LibTypeOK
  BY BlkAssumption DEF BlkInv, BlkTypeOK
<1>2. ~Idle(Blk) /\ call[Blk].addr \in Nat /\ call[Blk].size \in Nat
  BY <1>1 DEF Changing, Idle, LibTypeOK, CallOK
<1>3. call[Blk].addr >= MapBlock
  BY <1>2 DEF BlkInv, InArea
<1>4. a \in Int /\ a >= call[Blk].addr
  BY <1>2 DEF Footprint, Addr
<1> QED BY <1>2, <1>3, <1>4, BlkAssumption

\* A cell that the driver changes is in the block area.
LEMMA BlkChanges ==
  ASSUME BlkInv, BlkRun \/ BlkRequest, NEW a \in Addr, flash'[a] # flash[a]
  PROVE  a >= MapBlock /\ Changing(Blk)
<1>1. Blk \in Client /\ LibTypeOK
  BY BlkAssumption DEF BlkInv, BlkTypeOK
<1>2. LibStep(Blk)
  BY DEF BlkRun, BlkRequest, BlkEntry, BlkReadDone, BlkSectorsRead,
         BlkSectorsErased, BlkSectorsWritten, BlkRefuse, BlkRead, BlkWrite,
         BlkNoMemory, libVars
<1>3. a \in Footprint(Blk) /\ Changing(Blk)
  BY <1>1, <1>2, LibStepOK
<1> QED BY <1>3, BlkFootprint

\* And so is one that changes as the power fails.
LEMMA BlkLossChanges ==
  ASSUME BlkInv, BlkAlone, BlkPowerLoss, NEW a \in Addr, flash'[a] # flash[a]
  PROVE  a >= MapBlock
<1>1. PICK c \in Client : a \in Footprint(c) /\ Changing(c)
  BY LibPowerLossOK DEF BlkPowerLoss, BlkInv, BlkTypeOK
<1>2. c = Blk
  BY <1>1 DEF BlkAlone, Changing, Idle
<1> QED BY <1>1, <1>2, BlkFootprint

\* No cell below the block area ever changes: the firmware image and the
\* variable store survive every block request, error and power loss.
THEOREM BlkKeepsFirmware == BlkSpec => BelowBlockAreaKept
<1>1. BlkInv /\ BlkAlone /\ [BlkNext]_<<libVars, blkVars>> =>
        [\A a \in Addr : a < MapBlock => flash'[a] = flash[a]]_flash
  <2>1. SUFFICES ASSUME BlkInv, BlkAlone, BlkNext, NEW a \in Addr, a < MapBlock
                 PROVE  flash'[a] = flash[a]
    BY Zenon DEF libVars
  <2>2. ~(a >= MapBlock)
    BY <2>1, BlkAssumption DEF Addr
  <2> QED BY <2>1, <2>2, BlkChanges, BlkLossChanges DEF BlkNext
<1> QED BY <1>1, BlkInvariant, PTL DEF BlkSpec, BelowBlockAreaKept

----------------------------------------------------------------------------
(***************************************************************************)
(* Which blocks lie in which sectors.                                      *)
(***************************************************************************)
GroupSize == SectorSize \div BlockSize

Accepted(lba, size) ==
  /\ lba \in Block /\ size \in Nat \ {0}
  /\ Refusal(FALSE, TRUE, lba, size) = "SUCCESS"

LEMMA DivisionUnique ==
  ASSUME NEW g \in Nat, NEW s \in Nat \ {0}, NEW r \in 0 .. s - 1
  PROVE  (g * s + r) \div s = g
<1> DEFINE a == g * s + r
           q == a \div s
<1>1. g * s \in Nat /\ a \in Nat
  OBVIOUS
<1>2. q \in Nat /\ a = q * s + (a % s) /\ a % s \in 0 .. s - 1
  BY <1>1, Division
<1> HIDE DEF q
<1>3. q * s \in Nat
  BY <1>2
<1>4. q <= g
  <2>1. SUFFICES ASSUME g + 1 <= q
                 PROVE  FALSE
    BY <1>2
  <2>2. (g + 1) * s <= q * s
    BY <1>2, <2>1, TimesMonotone
  <2>3. (g + 1) * s = g * s + s
    OBVIOUS
  <2> QED BY <1>1, <1>2, <1>3, <2>2, <2>3
<1>5. g <= q
  <2>1. SUFFICES ASSUME q + 1 <= g
                 PROVE  FALSE
    BY <1>2
  <2>2. (q + 1) * s <= g * s
    BY <1>2, <2>1, TimesMonotone
  <2>3. (q + 1) * s = q * s + s
    BY <1>2
  <2> QED BY <1>1, <1>2, <1>3, <2>2, <2>3
<1> QED BY <1>2, <1>4, <1>5 DEF q

\* A product of naturals is below another only if its first factor is.
LEMMA TimesReflects ==
  ASSUME NEW a \in Nat, NEW b \in Nat, NEW s \in Nat \ {0}, a * s < b * s
  PROVE  a + 1 <= b
<1>1. SUFFICES ASSUME b <= a
               PROVE  FALSE
  OBVIOUS
<1>2. b * s <= a * s
  BY <1>1, TimesMonotone
<1>3. a * s \in Nat /\ b * s \in Nat
  OBVIOUS
<1> QED BY <1>2, <1>3

\* Sectors are whole groups of blocks and FLASH_MAP_BLOCK is a whole number
\* of sectors.
LEMMA GroupFacts ==
  /\ GroupSize \in Nat \ {0} /\ SectorSize = GroupSize * BlockSize
  /\ BlockSize \in Nat \ {0} /\ SectorSize \in Nat \ {0}
  /\ \E k \in Nat : MapBlock = k * SectorSize
<1> USE BlkAssumption, SectorSizeAssumption
<1>1. GroupSize \in Nat /\ SectorSize = GroupSize * BlockSize
  <2>1. /\ SectorSize \div BlockSize \in Nat
        /\ SectorSize = (SectorSize \div BlockSize) * BlockSize + (SectorSize % BlockSize)
    BY Division
  <2> QED BY <2>1 DEF GroupSize
<1>2. GroupSize # 0
  <2>1. SUFFICES ASSUME GroupSize = 0
                 PROVE  FALSE
    OBVIOUS
  <2>2. SectorSize = 0 * BlockSize
    BY <1>1, <2>1
  <2> QED BY <2>2
<1>3. MapBlock \div SectorSize \in Nat /\ MapBlock = (MapBlock \div SectorSize) * SectorSize
  BY Division
<1> QED BY <1>1, <1>2, <1>3

\* What a request that passed the checks is: whole blocks of the device.
LEMMA AcceptedFacts ==
  ASSUME NEW lba, NEW size, Accepted(lba, size)
  PROVE  /\ lba \in Nat /\ size \in Nat \ {0}
         /\ size \div BlockSize \in Nat \ {0}
         /\ size = (size \div BlockSize) * BlockSize
         /\ \A a \in lba .. lba + size \div BlockSize - 1 : a \in Block
<1> DEFINE n == size \div BlockSize
<1>1. LastBlock \in Int /\ BlockSize \in Nat \ {0}
  BY DeviceGeometry, GroupFacts
<1>2. lba \in Nat /\ size \in Nat \ {0}
  BY <1>1 DEF Accepted, Block
<1>3. size % BlockSize = 0 /\ lba + n - 1 <= LastBlock
  BY <1>1, <1>2 DEF Accepted, Refusal
<1>4. n \in Nat /\ size = n * BlockSize + (size % BlockSize)
  BY <1>1, <1>2, Division
<1> HIDE DEF n
<1>5. size = n * BlockSize /\ n # 0
  <2>1. n * BlockSize \in Nat /\ 0 * BlockSize = 0
    BY <1>1, <1>4
  <2> QED BY <1>2, <1>3, <1>4, <2>1
<1>6. \A a \in lba .. lba + n - 1 : a \in Block
  BY <1>1, <1>2, <1>3, <1>4 DEF Block
<1> QED BY <1>2, <1>4, <1>5, <1>6 DEF n

\* The sector of a cell of block b is the one of the group of b.
LEMMA SectorOfCell ==
  ASSUME NEW b \in Nat, NEW i \in 0 .. BlockSize - 1,
         NEW k \in Nat, MapBlock = k * SectorSize
  PROVE  /\ b \div GroupSize \in Nat
         /\ \E x \in 0 .. SectorSize - 1 :
              FlashOffset(b) + i = (b \div GroupSize + k) * SectorSize + x
<1> DEFINE g == b \div GroupSize
           r == b % GroupSize
           x == r * BlockSize + i
<1>1. GroupSize \in Nat \ {0} /\ BlockSize \in Nat \ {0} /\ SectorSize = GroupSize * BlockSize
  BY GroupFacts
<1>2. g \in Nat /\ r \in 0 .. GroupSize - 1 /\ b = g * GroupSize + r
  BY <1>1, Division
<1> HIDE DEF g, r
<1>3. x \in 0 .. SectorSize - 1
  <2>1. (r + 1) * BlockSize <= GroupSize * BlockSize
    BY <1>1, <1>2, TimesMonotone
  <2>2. (r + 1) * BlockSize = r * BlockSize + BlockSize /\ r * BlockSize \in Nat
    BY <1>1, <1>2
  <2> QED BY <1>1, <2>1, <2>2
<1>4. b * BlockSize = g * SectorSize + r * BlockSize
  <2>1. (g * GroupSize + r) * BlockSize = g * (GroupSize * BlockSize) + r * BlockSize
    BY <1>1, <1>2
  <2> QED BY <1>1, <1>2, <2>1
<1>5. (g + k) * SectorSize = g * SectorSize + k * SectorSize
  BY <1>1, <1>2, GroupFacts
<1>6. FlashOffset(b) + i = (g + k) * SectorSize + x
  <2>1. g * SectorSize \in Nat /\ k * SectorSize \in Nat /\ r * BlockSize \in Nat
    BY <1>1, <1>2, GroupFacts
  <2> QED BY <1>4, <1>5, <2>1 DEF FlashOffset
<1> HIDE DEF x
<1> QED BY <1>2, <1>3, <1>6 DEF g

\* The sectors of a request begin with the one of its first block and end
\* with the one of its last cell.
LEMMA SectorsOfRequest ==
  ASSUME NEW lba, NEW size, Accepted(lba, size), NEW k \in Nat, MapBlock = k * SectorSize
  PROVE  /\ RmwAddr(lba) = (lba \div GroupSize + k) * SectorSize
         /\ RmwOffset(lba) \in Nat /\ FlashOffset(lba) = RmwAddr(lba) + RmwOffset(lba)
         /\ RmwOffset(lba) + size <= RmwSize(lba, size)
         /\ \E n \in Nat : /\ RmwSize(lba, size) = n * SectorSize
                           /\ n * SectorSize <= RmwOffset(lba) + size + SectorSize - 1
<1> DEFINE g == lba \div GroupSize
           y == RmwOffset(lba) + size + SectorSize - 1
           n == y \div SectorSize
<1>1. lba \in Nat /\ size \in Nat \ {0} /\ SectorSize \in Nat \ {0} /\ BlockSize \in Nat \ {0}
  BY AcceptedFacts, GroupFacts
<1>2. g \in Nat /\ \E x \in 0 .. SectorSize - 1 : FlashOffset(lba) + 0 = (g + k) * SectorSize + x
  BY <1>1, SectorOfCell
<1> HIDE DEF g
<1>3. PICK x \in 0 .. SectorSize - 1 : FlashOffset(lba) + 0 = (g + k) * SectorSize + x
  BY <1>2
<1>4. FlashOffset(lba) = (g + k) * SectorSize + x /\ g + k \in Nat
      /\ (g + k) * SectorSize \in Nat
  <2>1. FlashOffset(lba) \in Int
    BY <1>1, BlkAssumption DEF FlashOffset
  <2> QED BY <1>1, <1>2, <1>3, <2>1
<1>5. FlashOffset(lba) \div SectorSize = g + k
  BY <1>1, <1>4, DivisionUnique
<1>6. RmwAddr(lba) = (g + k) * SectorSize
  BY <1>5 DEF RmwAddr
<1>7. RmwOffset(lba) = x
  BY <1>4, <1>6 DEF RmwOffset
<1>8. y \in Nat
  BY <1>1, <1>7
<1>9. n \in Nat /\ y = n * SectorSize + (y % SectorSize) /\ y % SectorSize \in 0 .. SectorSize - 1
  BY <1>1, <1>8, Division
<1>10. RmwSize(lba, size) = n * SectorSize
  BY DEF RmwSize
<1>11. n * SectorSize \in Nat
  BY <1>1, <1>9
<1> HIDE DEF n
<1>12. n * SectorSize <= y /\ RmwOffset(lba) + size <= n * SectorSize
  BY <1>1, <1>7, <1>8, <1>9, <1>11
<1> QED BY <1>4, <1>6, <1>7, <1>9, <1>10, <1>12 DEF g

\* A block with a cell in the sectors of a request shares its group with a
\* block of the request.
LEMMA CellInSectors ==
  ASSUME NEW lba, NEW size, Accepted(lba, size), NEW b \in Block, NEW i \in 0 .. BlockSize - 1,
         RmwAddr(lba) <= FlashOffset(b) + i,
         FlashOffset(b) + i < RmwAddr(lba) + RmwSize(lba, size)
  PROVE  \E a \in lba .. lba + size \div BlockSize - 1 :
           a \div GroupSize = b \div GroupSize
<1> DEFINE g   == b \div GroupSize
           h   == lba \div GroupSize
           len == size \div BlockSize
<1>1. /\ lba \in Nat /\ len \in Nat \ {0} /\ size = len * BlockSize /\ b \in Nat
      /\ SectorSize \in Nat \ {0} /\ BlockSize \in Nat \ {0} /\ GroupSize \in Nat \ {0}
      /\ SectorSize = GroupSize * BlockSize
  BY AcceptedFacts, GroupFacts, DeviceGeometry DEF Block
<1>2. PICK k \in Nat : MapBlock = k * SectorSize
  BY GroupFacts
<1>3. g \in Nat /\ \E x \in 0 .. SectorSize - 1 : FlashOffset(b) + i = (g + k) * SectorSize + x
  <2>1. b \in Nat
    BY <1>1
  <2> QED BY <1>2, <2>1, SectorOfCell
<1>4. RmwAddr(lba) = (h + k) * SectorSize /\ RmwOffset(lba) \in Nat
      /\ FlashOffset(lba) = RmwAddr(lba) + RmwOffset(lba)
  BY <1>2, SectorsOfRequest
<1>5. PICK n \in Nat : /\ RmwSize(lba, size) = n * SectorSize
                       /\ n * SectorSize <= RmwOffset(lba) + size + SectorSize - 1
  BY <1>2, SectorsOfRequest
<1>6. h \in Nat /\ lba = h * GroupSize + (lba % GroupSize) /\ lba % GroupSize \in 0 .. GroupSize - 1
  BY <1>1, Division
<1> HIDE DEF g, h, len
<1>7. PICK x \in 0 .. SectorSize - 1 : FlashOffset(b) + i = (g + k) * SectorSize + x
  BY <1>3
<1>8. /\ (g + k) * SectorSize \in Nat /\ (h + k) * SectorSize \in Nat /\ n * SectorSize \in Nat
      /\ (g + k + 1) * SectorSize = (g + k) * SectorSize + SectorSize
      /\ (h + k + n) * SectorSize = (h + k) * SectorSize + n * SectorSize
  BY <1>1, <1>3, <1>6
<1>9. h <= g
  <2>1. (h + k) * SectorSize < (g + k + 1) * SectorSize
    BY <1>1, <1>4, <1>7, <1>8
  <2>2. h + k \in Nat /\ g + k + 1 \in Nat
    BY <1>3, <1>6
  <2>3. h + k + 1 <= g + k + 1
    BY <1>1, <2>1, <2>2, TimesReflects
  <2> QED BY <1>3, <1>6, <2>3
<1>10. g + k + 1 <= h + k + n
  <2>1. (g + k) * SectorSize < (h + k + n) * SectorSize
    BY <1>1, <1>4, <1>5, <1>7, <1>8
  <2>2. g + k \in Nat /\ h + k + n \in Nat
    BY <1>3, <1>6
  <2> QED BY <1>1, <2>1, <2>2, TimesReflects
<1>11. (g + k) * SectorSize < FlashOffset(lba) + size
  <2>1. (g + k + 1) * SectorSize <= (h + k + n) * SectorSize
    BY <1>1, <1>3, <1>6, <1>10, TimesMonotone
  <2> QED BY <1>1, <1>4, <1>5, <1>8, <2>1
<1>12. g * GroupSize + 1 <= lba + len
  <2>1. /\ (g + k) * SectorSize = (g * GroupSize) * BlockSize + k * SectorSize
        /\ (lba + len) * BlockSize = lba * BlockSize + size
        /\ g * GroupSize \in Nat /\ lba + len \in Nat /\ k * SectorSize \in Nat
        /\ (g * GroupSize) * BlockSize \in Nat /\ lba * BlockSize \in Nat
    <3>1. (g + k) * SectorSize = g * SectorSize + k * SectorSize
      BY <1>1, <1>3
    <3>2. g * SectorSize = (g * GroupSize) * BlockSize
      BY <1>1, <1>3
    <3> QED BY <1>1, <1>3, <3>1, <3>2
  <2>2. (g * GroupSize) * BlockSize < (lba + len) * BlockSize
    BY <1>1, <1>2, <1>11, <2>1 DEF FlashOffset
  <2> QED BY <1>1, <2>1, <2>2, TimesReflects
<1>13. CASE g = h
  <2>1. lba \in lba .. lba + len - 1
    BY <1>1
  <2> QED BY <1>13, <2>1 DEF g, h, len
<1>14. CASE h + 1 <= g
  <2> DEFINE a == g * GroupSize
  <2>1. a \in Nat /\ lba <= a
    <3>1. (h + 1) * GroupSize <= g * GroupSize
      BY <1>1, <1>3, <1>6, <1>14, TimesMonotone
    <3>2. (h + 1) * GroupSize = h * GroupSize + GroupSize /\ h * GroupSize \in Nat
      BY <1>1, <1>6
    <3>3. a \in Nat
      BY <1>1, <1>3
    <3> QED BY <1>1, <1>6, <3>1, <3>2, <3>3
  <2>2. a \div GroupSize = g
    <3>1. (g * GroupSize + 0) \div GroupSize = g
      BY <1>1, <1>3, DivisionUnique
    <3>2. g * GroupSize + 0 = a
      BY <2>1
    <3> QED BY <3>1, <3>2
  <2> HIDE DEF a
  <2>3. a + 1 <= lba + len
    BY <1>12 DEF a
  <2>4. a \in lba .. lba + len - 1
    BY <1>1, <2>1, <2>3
  <2> QED BY <2>2, <2>4 DEF g, len
<1> QED BY <1>3, <1>6, <1>9, <1>13, <1>14

\* Which cells of the caller's data belong to which block.
LEMMA CellOfRequest ==
  ASSUME NEW lba, NEW size, Accepted(lba, size), NEW b \in Block, NEW i \in 0 .. BlockSize - 1
  PROVE  /\ FlashOffset(b) + i = FlashOffset(lba) + ((b - lba) * BlockSize + i)
         /\ (b - lba) * BlockSize \in Int
         /\ (b - lba) * BlockSize + i \in 0 .. size - 1
              <=> b \in lba .. lba + size \div BlockSize - 1
<1> DEFINE len == size \div BlockSize
<1>1. /\ lba \in Nat /\ len \in Nat /\ size = len * BlockSize /\ b \in Nat
      /\ BlockSize \in Nat \ {0} /\ MapBlock \in Nat
  BY AcceptedFacts, GroupFacts, DeviceGeometry, BlkAssumption DEF Block
<1> HIDE DEF len
<1>2. /\ b * BlockSize \in Nat /\ lba * BlockSize \in Nat
      /\ (b - lba) * BlockSize = b * BlockSize - lba * BlockSize
      /\ (lba + len) * BlockSize = lba * BlockSize + size
      /\ (b + 1) * BlockSize = b * BlockSize + BlockSize
  BY <1>1
<1>3. FlashOffset(b) + i = FlashOffset(lba) + ((b - lba) * BlockSize + i)
  BY <1>1, <1>2 DEF FlashOffset
<1>4. ASSUME b \in lba .. lba + len - 1
      PROVE  (b - lba) * BlockSize + i \in 0 .. size - 1
  <2>1. lba <= b /\ b + 1 <= lba + len
    BY <1>1, <1>4
  <2>2. lba * BlockSize <= b * BlockSize
    BY <1>1, <2>1, TimesMonotone
  <2>3. (b + 1) * BlockSize <= (lba + len) * BlockSize
    BY <1>1, <2>1, TimesMonotone
  <2> QED BY <1>1, <1>2, <2>2, <2>3
<1>5. ASSUME (b - lba) * BlockSize + i \in 0 .. size - 1
      PROVE  b \in lba .. lba + len - 1
  <2>1. lba * BlockSize < (b + 1) * BlockSize /\ b * BlockSize < (lba + len) * BlockSize
    BY <1>1, <1>2, <1>5
  <2>2. lba + 1 <= b + 1
    BY <1>1, <2>1, TimesReflects
  <2>3. lba + len \in Nat
    BY <1>1
  <2>4. b + 1 <= lba + len
    BY <1>1, <2>1, <2>3, TimesReflects
  <2> QED BY <1>1, <2>2, <2>4
<1> QED BY <1>2, <1>3, <1>4, <1>5 DEF len

\* Every block of the device lies in the flash.
LEMMA BlockInFlash ==
  ASSUME NEW b \in Block, NEW i \in 0 .. BlockSize - 1
  PROVE  FlashOffset(b) + i \in Addr
<1>1. /\ b \in Nat /\ b + 1 <= LastBlock + 1 /\ LastBlock + 1 \in Int
      /\ BlockSize \in Nat \ {0} /\ MapBlock \in Nat /\ FlashSize \in Nat
  BY DeviceGeometry, GroupFacts, BlkAssumption, FlashSizeAssumption DEF Block
<1>2. (b + 1) * BlockSize <= (LastBlock + 1) * BlockSize
  BY <1>1, TimesMonotone
<1>3. (b + 1) * BlockSize = b * BlockSize + BlockSize /\ b * BlockSize \in Nat
  BY <1>1
<1>4. (LastBlock + 1) * BlockSize = FlashSize - MapBlock
  BY DeviceGeometry
<1> QED BY <1>1, <1>2, <1>3, <1>4 DEF FlashOffset, Addr

----------------------------------------------------------------------------
(***************************************************************************)
(* The invariant on contents: a request that passed the checks keeps the   *)
(* range it began with, its transfers do what SmcFlashLib_proofs says of   *)
(* them, and while the sectors are written back no bit is needed that the  *)
(* flash no longer has.                                                    *)
(***************************************************************************)

\* The transfer in progress is the one the code makes in this state.
BlkTransfer ==
  LET j == call[Blk] IN
  /\ blk.pc \in Serving => TransferOK(Blk)
  /\ blk.pc = "read" => j.op = "read"
  /\ blk.pc = "rmwerase" => j.op = "erase"
  /\ blk.pc = "rmwwrite" => j.op = "write" /\ j.buf = blk.buf

BlkRange ==
  LET j == call[Blk] IN
  /\ blk.pc = "read" => Accepted(blk.lba, j.size) /\ j.addr = FlashOffset(blk.lba)
  /\ blk.pc \in Rewriting =>
       /\ Accepted(blk.lba, blk.size)
       /\ blk.adr = RmwAddr(blk.lba) /\ j.size = RmwSize(blk.lba, blk.size)

BlkErrors ==
  /\ blk.pc \notin Serving => call[Blk].err = 0
  /\ blk.pc \notin {"rmwerase", "rmwwrite"} => blk.err = 0

\* After an erase without an error every bit of the buffer can be programmed.
BlkWritable ==
  blk.pc = "rmwwrite" /\ blk.err = 0 =>
    \A i \in 0 .. call[Blk].size - 1 : blk.buf[i] \subseteq flash[blk.adr + i]

BlkContents == BlkTransfer /\ BlkRange /\ BlkErrors /\ BlkWritable

\* A call the driver makes, as the library sees it.
LEMMA BlkCallMade ==
  ASSUME LibTypeOK, NEW op \in {"erase", "read", "write"}, NEW addr \in Nat,
         NEW size \in Nat \ {0}, NEW buf, op # "erase" => buf \in Memory(size),
         Enter(Blk, op, addr, size, buf) \/ Chain(Blk, op, addr, size, buf)
  PROVE  /\ NewCallOf(Blk, op, addr, size) /\ TransferOK(Blk)'
         /\ call'[Blk].buf = buf /\ call'[Blk].err = 0
<1>1. Blk \in Client /\ DOMAIN call = Client /\ size \in Nat
  BY BlkAssumption DEF LibTypeOK
<1>2. call' = [call EXCEPT ![Blk] = NewCall(op, addr, size, buf)]
  BY DEF Enter, Chain
<1>3. NewCallOf(Blk, op, addr, size)
  BY <1>1, NewCallMade
<1>4. NewTransfer(Blk, buf)
  BY <1>1, <1>2, NewTransferMade
<1>5. call'[Blk].err = 0
  BY <1>1, <1>2 DEF NewCall
<1> QED BY <1>3, <1>4, <1>5 DEF NewTransfer

\* What each step of a request makes of the driver's variables.
LEMMA BlkReadFields ==
  ASSUME BlkInv, NEW lba \in Block, NEW size \in 1 .. MaxBuffer, NEW junk \in Junk,
         BlkRead(lba, size, junk)
  PROVE  /\ blk.pc = "ready" /\ Accepted(lba, size)
         /\ TransferOK(Blk)' /\ call'[Blk].op = "read" /\ call'[Blk].addr = FlashOffset(lba)
         /\ call'[Blk].size = size /\ call'[Blk].err = 0
         /\ blk'.pc = "read" /\ blk'.lba = lba /\ blk'.err = 0
         /\ flash' = flash /\ blkData' = blkData
<1> DEFINE buf == [i \in 0 .. size - 1 |-> junk]
<1>1. LibTypeOK /\ size \in Nat \ {0} /\ lba \in Nat
  BY BlkAssumption, DeviceGeometry DEF BlkInv, BlkTypeOK, Block
<1>2. blk.pc = "ready" /\ Accepted(lba, size)
  BY <1>1 DEF BlkRead, Accepted
<1>3. FlashOffset(lba) \in Nat
  BY <1>1, <1>2, RequestInArea DEF Accepted
<1>4. buf \in Memory(size)
  BY <1>1, BlkAssumption DEF Memory
<1>5. Enter(Blk, "read", FlashOffset(lba), size, buf)
  BY DEF BlkRead
<1> HIDE DEF buf
<1>6. NewCallOf(Blk, "read", FlashOffset(lba), size) /\ TransferOK(Blk)' /\ call'[Blk].err = 0
  BY <1>1, <1>3, <1>4, <1>5, BlkCallMade
<1>7. blk'.pc = "read" /\ blk'.lba = lba /\ blk'.err = 0
  BY DEF BlkRead, BlkQuiet
<1> QED BY <1>2, <1>6, <1>7 DEF NewCallOf, BlkRead

LEMMA BlkWriteFields ==
  ASSUME BlkInv, NEW lba \in Block, NEW size \in 1 .. MaxBuffer, NEW junk \in Junk,
         NEW data \in [0 .. size - 1 -> BlkData], BlkWrite(lba, size, data, junk)
  PROVE  /\ blk.pc = "ready" /\ Accepted(lba, size)
         /\ TransferOK(Blk)' /\ call'[Blk].op = "read"
         /\ call'[Blk].size = RmwSize(lba, size) /\ call'[Blk].err = 0
         /\ blk'.pc = "rmwread" /\ blk'.lba = lba /\ blk'.err = 0
         /\ blk'.size = size /\ blk'.data = data /\ blk'.adr = RmwAddr(lba)
         /\ flash' = flash /\ blkData' = blkData
<1> DEFINE total == RmwSize(lba, size)
           buf   == [i \in 0 .. total - 1 |-> junk]
<1>1. LibTypeOK /\ size \in Nat \ {0} /\ lba \in Nat
  BY BlkAssumption, DeviceGeometry DEF BlkInv, BlkTypeOK, Block
<1>2. blk.pc = "ready" /\ Accepted(lba, size)
  BY <1>1 DEF BlkWrite, Accepted
<1>3. RmwAddr(lba) \in Nat /\ total \in Nat
  BY <1>1, <1>2, SectorsInArea DEF Accepted
<1>4. total # 0
  <2>1. RmwOffset(lba) \in Nat /\ RmwOffset(lba) + size <= total
    BY <1>2, GroupFacts, SectorsOfRequest
  <2> HIDE DEF total
  <2> QED BY <1>1, <1>3, <2>1
<1>5. Enter(Blk, "read", RmwAddr(lba), total, buf)
  BY DEF BlkWrite
<1> HIDE DEF total
<1>6. buf \in Memory(total)
  BY <1>3, BlkAssumption DEF Memory
<1> HIDE DEF buf
<1>7. NewCallOf(Blk, "read", RmwAddr(lba), total) /\ TransferOK(Blk)' /\ call'[Blk].err = 0
  BY <1>1, <1>3, <1>4, <1>5, <1>6, BlkCallMade
<1>8. /\ blk'.pc = "rmwread" /\ blk'.lba = lba /\ blk'.err = 0
      /\ blk'.size = size /\ blk'.data = data /\ blk'.adr = RmwAddr(lba)
  BY DEF BlkWrite, BlkQuiet
<1> QED BY <1>2, <1>7, <1>8 DEF NewCallOf, BlkWrite, total

\* The sectors of a request that is served are not empty and lie in the flash.
LEMMA RewriteRange ==
  ASSUME BlkInv, BlkRange, blk.pc \in Rewriting
  PROVE  /\ Accepted(blk.lba, blk.size) /\ blk.data \in Memory(blk.size)
         /\ blk.adr = RmwAddr(blk.lba) /\ blk.adr \in Nat
         /\ call[Blk].size = RmwSize(blk.lba, blk.size) /\ call[Blk].size \in Nat \ {0}
         /\ call[Blk].addr = blk.adr
         /\ \A i \in 0 .. call[Blk].size - 1 : blk.adr + i \in Addr
         /\ RmwOffset(blk.lba) \in Nat /\ blk.size \in Nat
         /\ RmwOffset(blk.lba) + blk.size <= call[Blk].size
<1>1. /\ Accepted(blk.lba, blk.size) /\ blk.data \in Memory(blk.size)
      /\ blk.adr = RmwAddr(blk.lba) /\ blk.adr \in Nat
      /\ call[Blk].size = RmwSize(blk.lba, blk.size)
      /\ call[Blk].addr = blk.adr
      /\ call[Blk].addr + call[Blk].size <= FlashSize
  BY DEF BlkInv, BlkTypeOK, BlkRange, InArea, Serving
<1>2. blk.lba \in Nat /\ blk.size \in Nat \ {0}
  BY <1>1, AcceptedFacts
<1>3. RmwSize(blk.lba, blk.size) \in Nat
  BY <1>1, <1>2, SectorsInArea DEF Accepted
<1>4. RmwOffset(blk.lba) \in Nat
      /\ RmwOffset(blk.lba) + blk.size <= RmwSize(blk.lba, blk.size)
  BY <1>1, GroupFacts, SectorsOfRequest
<1>5. call[Blk].size \in Nat \ {0}
  BY <1>1, <1>2, <1>3, <1>4
<1>6. \A i \in 0 .. call[Blk].size - 1 : blk.adr + i \in Addr
  BY <1>1, <1>5, FlashSizeAssumption DEF Addr
<1> QED BY <1>1, <1>2, <1>4, <1>5, <1>6

LEMMA BlkSectorsReadFields ==
  ASSUME BlkInv, BlkContents, BlkSectorsRead
  PROVE  /\ blk.pc = "rmwread" /\ Returned(Blk)
         /\ TransferOK(Blk)' /\ call'[Blk].op = "erase"
         /\ call'[Blk].size = call[Blk].size /\ call'[Blk].err = 0
         /\ blk'.pc = "rmwerase" /\ blk'.lba = blk.lba /\ blk'.size = blk.size
         /\ blk'.adr = blk.adr /\ blk'.err = call[Blk].err
         /\ blk'.buf = Overlay(call[Blk].buf, RmwOffset(blk.lba), blk.data)
         /\ flash' = flash /\ blkData' = blkData
<1>1. blk.pc = "rmwread" /\ Returned(Blk) /\ LibTypeOK /\ DOMAIN blk = DOMAIN BlkQuiet("off")
  BY DEF BlkSectorsRead, Chain, BlkInv, BlkTypeOK
<1>2. blk.adr \in Nat /\ call[Blk].size \in Nat \ {0} /\ blk.err = 0
  BY <1>1, RewriteRange DEF BlkContents, BlkErrors, Rewriting
<1>3. Chain(Blk, "erase", blk.adr, call[Blk].size, NoBuf)
  BY DEF BlkSectorsRead
<1>4. NewCallOf(Blk, "erase", blk.adr, call[Blk].size) /\ TransferOK(Blk)' /\ call'[Blk].err = 0
  BY <1>1, <1>2, <1>3, BlkCallMade
<1>5. /\ blk'.pc = "rmwerase" /\ blk'.lba = blk.lba /\ blk'.size = blk.size
      /\ blk'.adr = blk.adr /\ blk'.err = BlkError
      /\ blk'.buf = Overlay(call[Blk].buf, RmwOffset(blk.lba), blk.data)
  BY <1>1 DEF BlkSectorsRead, BlkQuiet
<1>6. BlkError = call[Blk].err
  BY <1>2 DEF BlkError
<1> QED BY <1>1, <1>4, <1>5, <1>6 DEF NewCallOf, BlkSectorsRead

LEMMA BlkSectorsErasedFields ==
  ASSUME BlkInv, BlkContents, BlkSectorsErased
  PROVE  /\ blk.pc = "rmwerase" /\ Returned(Blk)
         /\ TransferOK(Blk)' /\ call'[Blk].op = "write"
         /\ call'[Blk].size = call[Blk].size /\ call'[Blk].err = 0
         /\ call'[Blk].buf = blk.buf
         /\ blk'.pc = "rmwwrite" /\ blk'.lba = blk.lba /\ blk'.size = blk.size
         /\ blk'.adr = blk.adr /\ blk'.err = BlkError /\ blk'.buf = blk.buf
         /\ flash' = flash /\ blkData' = blkData
<1>1. blk.pc = "rmwerase" /\ Returned(Blk) /\ LibTypeOK /\ DOMAIN blk = DOMAIN BlkQuiet("off")
      /\ blk.buf \in Memory(call[Blk].size)
  BY DEF BlkSectorsErased, Chain, BlkInv, BlkTypeOK
<1>2. blk.adr \in Nat /\ call[Blk].size \in Nat \ {0}
  BY <1>1, RewriteRange DEF BlkContents, Rewriting
<1>3. Chain(Blk, "write", blk.adr, call[Blk].size, blk.buf)
  BY DEF BlkSectorsErased
<1>4. /\ NewCallOf(Blk, "write", blk.adr, call[Blk].size) /\ TransferOK(Blk)'
      /\ call'[Blk].err = 0 /\ call'[Blk].buf = blk.buf
  BY <1>1, <1>2, <1>3, BlkCallMade
<1>5. /\ blk'.pc = "rmwwrite" /\ blk'.lba = blk.lba /\ blk'.size = blk.size
      /\ blk'.adr = blk.adr /\ blk'.err = BlkError /\ blk'.buf = blk.buf
  BY <1>1 DEF BlkSectorsErased, BlkQuiet
<1> QED BY <1>1, <1>4, <1>5 DEF NewCallOf, BlkSectorsErased

LEMMA BlkDoneFields ==
  ASSUME BlkInv, BlkReadDone \/ BlkSectorsWritten
  PROVE  /\ blk'.pc = "ready" /\ blk'.err = 0 /\ call'[Blk].err = 0 /\ flash' = flash
<1>1. Blk \in Client /\ LibTypeOK /\ Leave(Blk) /\ blk' = BlkQuiet("ready") /\ flash' = flash
  BY BlkAssumption DEF BlkInv, BlkTypeOK, BlkReadDone, BlkSectorsWritten
<1>2. call'[Blk] = NoCall
  BY <1>1, CallLeft
<1> QED BY <1>1, <1>2, QuietFields DEF NoCall

LEMMA BlkLossFields ==
  ASSUME BlkInv, BlkPowerLoss
  PROVE  blk'.pc = "off" /\ blk'.err = 0 /\ call'[Blk].err = 0 /\ blkData' = NoBuf
<1>1. Blk \in Client /\ LibTypeOK /\ LibPowerLoss /\ blk' = BlkQuiet("off") /\ blkData' = NoBuf
  BY BlkAssumption DEF BlkInv, BlkTypeOK, BlkPowerLoss, BlkReset
<1>2. call' = [c \in Client |-> NoCall]
  BY <1>1, LibPowerLossOK
<1> QED BY <1>1, <1>2, QuietFields DEF NoCall

\* A monitor call of the driver: the call goes on, an error is recorded at
\* most once, and the flash changes only where the driver holds a buffer.
LEMMA BlkLibFields ==
  ASSUME BlkInv, BlkContents, LibStep(Blk), UNCHANGED blkVars
  PROVE  /\ blk.pc \in Serving /\ blk' = blk /\ blkData' = blkData
         /\ TransferOK(Blk)' /\ call'[Blk].op = call[Blk].op
         /\ call'[Blk].size = call[Blk].size /\ call'[Blk].addr = call[Blk].addr
         /\ call[Blk].err = 0
         /\ \A a \in Addr : flash'[a] # flash[a] =>
              blk.pc \in {"rmwerase", "rmwwrite"} /\ a \in Footprint(Blk)
         /\ blk.pc = "rmwwrite" => call'[Blk].buf = call[Blk].buf /\ ProgramsOnly(Blk)
<1>1. Blk \in Client /\ LibTypeOK /\ CallOK(call[Blk])
  BY BlkAssumption DEF BlkInv, BlkTypeOK, LibTypeOK
<1>2. ~Idle(Blk) /\ ~Returned(Blk)
  BY DEF LibStep, SmcErase, SmcReadBuf, SmcPosition, SmcPull, SmcPush, SmcWriteBuf, Idle, Returned
<1>3. blk.pc \in Serving /\ TransferOK(Blk)
  BY <1>2 DEF BlkInv, BlkContents, BlkTransfer
<1>4. TransferOK(Blk)' /\ FlashEffect(Blk)
  BY <1>1, <1>3, LibStepTransfer
<1>5. /\ Advances(Blk)
      /\ \A a \in Addr : flash'[a] # flash[a] => a \in Footprint(Blk) /\ Changing(Blk)
  BY <1>1, LibStepOK
<1>6. call[Blk].err = 0
  BY <1>2, <1>3 DEF TransferOK, Returned
<1>7. Changing(Blk) => blk.pc \in {"rmwerase", "rmwwrite"}
  BY <1>1, <1>3 DEF Changing, CallOK, BlkInv, BlkContents, BlkTransfer, Serving, Rewriting
<1>8. blk.pc = "rmwwrite" => call'[Blk].buf = call[Blk].buf /\ ProgramsOnly(Blk)
  BY <1>4 DEF FlashEffect, BlkContents, BlkTransfer
<1> QED BY <1>3, <1>4, <1>5, <1>6, <1>7, <1>8 DEF Advances, blkVars

----------------------------------------------------------------------------
LEMMA BlkLibContents ==
  ASSUME BlkInv, BlkContents, LibStep(Blk), UNCHANGED blkVars
  PROVE  BlkContents'
<1>1. /\ blk.pc \in Serving /\ blk' = blk
      /\ TransferOK(Blk)' /\ call'[Blk].op = call[Blk].op
      /\ call'[Blk].size = call[Blk].size /\ call'[Blk].addr = call[Blk].addr
      /\ blk.pc = "rmwwrite" => call'[Blk].buf = call[Blk].buf /\ ProgramsOnly(Blk)
  BY BlkLibFields
<1>2. BlkTransfer' /\ BlkErrors'
  BY <1>1 DEF BlkContents, BlkTransfer, BlkErrors
<1>3. BlkRange'
  BY <1>1 DEF BlkContents, BlkRange
<1>4. BlkWritable'
  <2>1. SUFFICES ASSUME blk.pc = "rmwwrite", blk.err = 0,
                        NEW i \in 0 .. call[Blk].size - 1
                 PROVE  blk.buf[i] \subseteq flash'[blk.adr + i]
    BY <1>1 DEF BlkWritable
  <2>2. blk.buf[i] \subseteq flash[blk.adr + i]
    BY <2>1 DEF BlkContents, BlkWritable
  <2>3. blk.adr + i \in Addr /\ call[Blk].addr = blk.adr /\ blk.adr \in Nat
    BY <2>1, RewriteRange DEF BlkContents, Rewriting
  <2>4. call[Blk].buf = blk.buf
    BY <2>1 DEF BlkContents, BlkTransfer
  <2>5. \/ flash'[blk.adr + i] = flash[blk.adr + i]
        \/ flash'[blk.adr + i] = flash[blk.adr + i] \cap blk.buf[blk.adr + i - blk.adr]
    BY <1>1, <2>1, <2>3, <2>4 DEF ProgramsOnly, Program
  <2>6. blk.adr + i - blk.adr = i
    <3>1. i \in Int
      BY <2>1
    <3> QED BY <2>3, <3>1
  <2> QED BY <2>2, <2>5, <2>6
<1> QED BY <1>2, <1>3, <1>4 DEF BlkContents

LEMMA BlkStepContents ==
  ASSUME BlkInv, BlkContents, [BlkNext]_<<libVars, blkVars>>
  PROVE  BlkContents'
<1> USE DEF Serving, Rewriting
<1>1. CASE BlkEntry
  <2>1. PICK pc \in {"ready", "absent"} : blk' = BlkQuiet(pc)
    BY <1>1 DEF BlkEntry
  <2>2. blk.pc = "off" /\ call' = call
    BY <1>1 DEF BlkEntry, libVars
  <2> QED BY <2>1, <2>2, QuietFields
          DEF BlkContents, BlkTransfer, BlkRange, BlkErrors, BlkWritable
<1>2. CASE BlkReadDone \/ BlkSectorsWritten
  BY <1>2, BlkDoneFields DEF BlkContents, BlkTransfer, BlkRange, BlkErrors, BlkWritable
<1>3. CASE BlkSectorsRead
  <2>1. blk.pc = "rmwread"
    BY <1>3 DEF BlkSectorsRead
  <2> QED BY <1>3, <2>1, BlkSectorsReadFields
          DEF BlkContents, BlkTransfer, BlkRange, BlkErrors, BlkWritable
<1>4. CASE BlkSectorsErased
  <2>1. /\ blk.pc = "rmwerase" /\ Returned(Blk)
        /\ TransferOK(Blk)' /\ call'[Blk].op = "write"
        /\ call'[Blk].size = call[Blk].size /\ call'[Blk].err = 0
        /\ call'[Blk].buf = blk.buf
        /\ blk'.pc = "rmwwrite" /\ blk'.lba = blk.lba /\ blk'.size = blk.size
        /\ blk'.adr = blk.adr /\ blk'.err = BlkError /\ blk'.buf = blk.buf
        /\ flash' = flash
    BY <1>4, BlkSectorsErasedFields
  <2>2. BlkTransfer' /\ BlkErrors' /\ BlkRange'
    BY <2>1 DEF BlkContents, BlkTransfer, BlkErrors, BlkRange
  <2>3. BlkWritable'
    <3>1. SUFFICES ASSUME BlkError = 0, NEW i \in 0 .. call[Blk].size - 1
                   PROVE  blk.buf[i] \subseteq flash[blk.adr + i]
      BY <2>1 DEF BlkWritable
    <3>2. call[Blk].err = 0 /\ call[Blk].op = "erase" /\ TransferOK(Blk)
          /\ call[Blk].addr = blk.adr /\ blk.buf \in Memory(call[Blk].size)
      BY <2>1, <3>1 DEF BlkError, BlkContents, BlkTransfer, BlkInv, BlkTypeOK
    <3>3. flash[blk.adr + i] = Erased
      BY <2>1, <3>1, <3>2 DEF TransferOK, Stored, Returned
    <3>4. blk.buf[i] \in Cell
      BY <3>1, <3>2 DEF Memory
    <3> QED BY <3>3, <3>4 DEF Cell, Erased
  <2> QED BY <2>2, <2>3 DEF BlkContents
<1>5. CASE LibStep(Blk) /\ UNCHANGED blkVars
  BY <1>5, BlkLibContents
<1>6. ASSUME NEW lba \in Block, NEW size \in 1 .. MaxBuffer, NEW junk \in Junk,
             BlkRead(lba, size, junk)
      PROVE  BlkContents'
  BY <1>6, BlkReadFields DEF BlkContents, BlkTransfer, BlkRange, BlkErrors, BlkWritable
<1>7. ASSUME NEW lba \in Block, NEW size \in 1 .. MaxBuffer, NEW junk \in Junk,
             NEW data \in [0 .. size - 1 -> BlkData], BlkWrite(lba, size, data, junk)
      PROVE  BlkContents'
  BY <1>7, BlkWriteFields DEF BlkContents, BlkTransfer, BlkRange, BlkErrors, BlkWritable
<1>8. CASE UNCHANGED <<libVars, blk>>
  <2>1. UNCHANGED <<flash, bounce, position, call, blk>>
    BY <1>8 DEF libVars
  <2>2. TransferOK(Blk)' <=> TransferOK(Blk)
    BY <2>1 DEF TransferOK, PartAddr
  <2> QED BY <2>1, <2>2 DEF BlkContents, BlkTransfer, BlkRange, BlkErrors, BlkWritable
<1>9. CASE BlkRequest
  BY <1>6, <1>7, <1>8, <1>9 DEF BlkRequest, BlkRefuse, BlkNoMemory
<1>10. CASE BlkPowerLoss
  BY <1>10, BlkLossFields DEF BlkContents, BlkTransfer, BlkRange, BlkErrors, BlkWritable
<1> QED BY <1>1, <1>2, <1>3, <1>4, <1>5, <1>8, <1>9, <1>10 DEF BlkNext, BlkRun, blkVars

----------------------------------------------------------------------------
(***************************************************************************)
(* The refinement mapping, piece by piece.                                 *)
(***************************************************************************)

\* The request of BlockDevice by the state of the driver, before and after a step.
LEMMA RequestMapped ==
  /\ blk.pc \notin Serving => AbstractRequest = Device!None
  /\ blk.pc = "read" => AbstractRequest =
       [op |-> "read", lba |-> blk.lba, len |-> call[Blk].size \div BlockSize, data |-> <<>>]
  /\ blk.pc = "rmwread" => AbstractRequest =
       [op |-> "write", lba |-> blk.lba, len |-> blk.size \div BlockSize,
        data |-> BlocksOf(blk.data)]
  /\ blk.pc \in {"rmwerase", "rmwwrite"} => AbstractRequest =
       [op |-> "written", lba |-> blk.lba, len |-> blk.size \div BlockSize, data |-> <<>>]
  BY DEF AbstractRequest, Device!None, Serving, Rewriting

LEMMA RequestMappedNext ==
  /\ blk'.pc \notin Serving => AbstractRequest' = Device!None
  /\ blk'.pc = "read" => AbstractRequest' =
       [op |-> "read", lba |-> blk'.lba, len |-> call'[Blk].size \div BlockSize, data |-> <<>>]
  /\ blk'.pc = "rmwread" => AbstractRequest' =
       [op |-> "write", lba |-> blk'.lba, len |-> blk'.size \div BlockSize,
        data |-> BlocksOf(blk'.data)]
  /\ blk'.pc \in {"rmwerase", "rmwwrite"} => AbstractRequest' =
       [op |-> "written", lba |-> blk'.lba, len |-> blk'.size \div BlockSize, data |-> <<>>]
  BY DEF AbstractRequest, Device!None, Serving, Rewriting

\* Between requests, and until a rewrite begins to erase, the device holds
\* what the flash holds; from then on the buffer covers the sectors.
LEMMA CellMapped ==
  ASSUME BlkInv, NEW a
  PROVE  /\ blk.pc \notin {"rmwerase", "rmwwrite"} => AbstractCell(a) = flash[a]
         /\ blk.pc \in {"rmwerase", "rmwwrite"} => AbstractCell(a) =
              IF a - blk.adr \in 0 .. call[Blk].size - 1 THEN blk.buf[a - blk.adr] ELSE flash[a]
  BY DEF AbstractCell, BlkInv, BlkTypeOK, Memory

LEMMA CellMappedNext ==
  ASSUME BlkInv', NEW a
  PROVE  /\ blk'.pc \notin {"rmwerase", "rmwwrite"} => AbstractCell(a)' = flash'[a]
         /\ blk'.pc \in {"rmwerase", "rmwwrite"} => AbstractCell(a)' =
              IF a - blk'.adr \in 0 .. call'[Blk].size - 1 THEN blk'.buf[a - blk'.adr] ELSE flash'[a]
  BY DEF AbstractCell, BlkInv, BlkTypeOK, Memory

LEMMA BlockMapped ==
  ASSUME NEW b \in Block
  PROVE  /\ AbstractDisk[b] = [i \in 0 .. BlockSize - 1 |-> AbstractCell(FlashOffset(b) + i)]
         /\ AbstractDisk'[b] = [i \in 0 .. BlockSize - 1 |-> AbstractCell(FlashOffset(b) + i)']
  BY DEF AbstractDisk

LEMMA BlockKept ==
  ASSUME NEW b \in Block,
         \A i \in 0 .. BlockSize - 1 :
           AbstractCell(FlashOffset(b) + i)' = AbstractCell(FlashOffset(b) + i)
  PROVE  AbstractDisk'[b] = AbstractDisk[b]
  BY BlockMapped

LEMMA DiskKept ==
  ASSUME \A b \in Block : \A i \in 0 .. BlockSize - 1 :
           AbstractCell(FlashOffset(b) + i)' = AbstractCell(FlashOffset(b) + i)
  PROVE  AbstractDisk' = AbstractDisk
  BY DEF AbstractDisk

\* Without a rewrite before and after, only the flash matters.
LEMMA DiskIsFlash ==
  ASSUME BlkInv, BlkInv', blk.pc \notin {"rmwerase", "rmwwrite"},
         blk'.pc \notin {"rmwerase", "rmwwrite"}, flash' = flash
  PROVE  AbstractDisk' = AbstractDisk
<1>1. ASSUME NEW b \in Block, NEW i \in 0 .. BlockSize - 1
      PROVE  AbstractCell(FlashOffset(b) + i)' = AbstractCell(FlashOffset(b) + i)
  BY CellMapped, CellMappedNext
<1> QED BY <1>1, DiskKept

\* A buffer in blocks.
LEMMA BlocksOfMemory ==
  ASSUME NEW size \in Nat, NEW buf \in Memory(size)
  PROVE  BlocksOf(buf) = [k \in 0 .. (size \div BlockSize) - 1 |-> Slice(buf, k * BlockSize, BlockSize)]
<1>1. DOMAIN buf = 0 .. size - 1
  BY DEF Memory
<1>2. Cardinality(0 .. size - 1) = size
  BY FS_Interval
<1> QED BY <1>1, <1>2 DEF BlocksOf

LEMMA NoBlocks == BlocksOf(NoBuf) = <<>>
<1>1. BlocksOf(NoBuf) = [k \in 0 .. (0 \div BlockSize) - 1 |-> Slice(NoBuf, k * BlockSize, BlockSize)]
  BY NoBufOK, BlocksOfMemory
<1>2. 0 \div BlockSize = 0
  BY GroupFacts
<1> QED BY <1>1, <1>2

\* The cells of a block that shares no group with the request are outside the
\* sectors that the driver rewrites.
LEMMA UntouchedCells ==
  ASSUME NEW lba, NEW size, Accepted(lba, size), NEW r,
         r.lba = lba, r.len = size \div BlockSize,
         NEW b \in Block \ Device!Touched(r), NEW i \in 0 .. BlockSize - 1,
         NEW a \in Addr, a = FlashOffset(b) + i
  PROVE  a - RmwAddr(lba) \notin 0 .. RmwSize(lba, size) - 1
<1>1. a \in Nat /\ RmwAddr(lba) \in Nat /\ RmwSize(lba, size) \in Nat
  <2>1. a \in Nat
    BY FlashSizeAssumption DEF Addr
  <2>2. RmwAddr(lba) \in Nat /\ RmwSize(lba, size) \in Nat
    BY SectorsInArea, AcceptedFacts DEF Accepted
  <2> QED BY <2>1, <2>2
<1>2. SUFFICES ASSUME a - RmwAddr(lba) \in 0 .. RmwSize(lba, size) - 1
               PROVE  FALSE
  OBVIOUS
<1>3. RmwAddr(lba) <= a /\ a < RmwAddr(lba) + RmwSize(lba, size)
  BY <1>1, <1>2
<1>4. \E x \in lba .. lba + size \div BlockSize - 1 : x \div GroupSize = b \div GroupSize
  BY <1>3, CellInSectors
<1>5. b \in Device!Touched(r)
  BY <1>4 DEF Device!Touched, Device!Addressed, GroupSize
<1> QED BY <1>5

----------------------------------------------------------------------------
(***************************************************************************)
(* Each step of the driver is a step of the device or none.                *)
(***************************************************************************)
LEMMA BlkStutters ==
  ASSUME BlkInv, BlkInv', BlkContents, BlkEntry \/ UNCHANGED <<libVars, blk, blkData>>
  PROVE  UNCHANGED Device!vars
<1>1. CASE UNCHANGED <<libVars, blk, blkData>>
  <2>1. UNCHANGED <<flash, bounce, position, call, blk, blkData>>
    BY <1>1 DEF libVars
  <2>2. AbstractDisk' = AbstractDisk /\ AbstractRequest' = AbstractRequest
        /\ BlkError' = BlkError /\ BlocksOf(blkData)' = BlocksOf(blkData)
    BY <2>1 DEF AbstractDisk, AbstractCell, AbstractRequest, BlkError
  <2> QED BY <2>2 DEF Device!vars
<1>2. CASE BlkEntry
  <2>1. PICK pc \in {"ready", "absent"} : blk' = BlkQuiet(pc)
    BY <1>2 DEF BlkEntry
  <2>2. blk.pc = "off" /\ UNCHANGED <<flash, call, blkData>>
    BY <1>2 DEF BlkEntry, libVars
  <2>3. blk'.pc \in {"ready", "absent"} /\ blk'.err = 0
    BY <2>1, QuietFields
  <2>4. AbstractDisk' = AbstractDisk
    BY <2>2, <2>3, DiskIsFlash
  <2>5. AbstractRequest' = AbstractRequest
    BY <2>2, <2>3, RequestMapped, RequestMappedNext DEF Serving, Rewriting
  <2>6. BlkError' = BlkError
    BY <2>2, <2>3 DEF BlkError, BlkContents, BlkErrors
  <2> QED BY <2>2, <2>4, <2>5, <2>6 DEF Device!vars
<1> QED BY <1>1, <1>2

\* ReadBlocks and WriteBlocks with parameters that pass the checks.
LEMMA BlkSubmits ==
  ASSUME BlkInv, BlkInv', BlkContents, NEW lba, NEW size, Accepted(lba, size),
         blk.pc = "ready", blk'.lba = lba, blk'.err = 0, call'[Blk].err = 0,
         \/ blk'.pc = "read" /\ call'[Blk].size = size
         \/ blk'.pc = "rmwread" /\ blk'.size = size,
         flash' = flash, blkData' = blkData
  PROVE  Device!Submit
<1>1. AbstractDisk' = AbstractDisk
  BY DiskIsFlash
<1>2. AbstractRequest = Device!None
  BY RequestMapped DEF Serving, Rewriting
<1>3. /\ AbstractRequest'.op \in {"read", "write"}
      /\ AbstractRequest'.lba = lba /\ AbstractRequest'.len = size \div BlockSize
  BY RequestMappedNext
<1>4. AbstractRequest' # Device!None
  BY <1>3 DEF Device!None
<1>5. \A a \in lba .. lba + size \div BlockSize - 1 : a \in Block
  BY AcceptedFacts
<1>6. Device!Addressed(AbstractRequest') \subseteq Block
  BY <1>3, <1>5 DEF Device!Addressed
<1>7. BlkError' = 0 /\ BlkError = 0
  BY DEF BlkError, BlkContents, BlkErrors, Serving, Rewriting
<1>8. BlocksOf(blkData)' = BlocksOf(blkData)
  OBVIOUS
<1> QED BY <1>1, <1>2, <1>3, <1>4, <1>6, <1>7, <1>8 DEF Device!Submit

\* A monitor call: what it changes in the flash lies under the buffer, and
\* an error it reports is a failure of the medium.
LEMMA BlkLibStutters ==
  ASSUME BlkInv, BlkInv', BlkContents, LibStep(Blk), UNCHANGED blkVars
  PROVE  Device!Fail \/ UNCHANGED Device!vars
<1>1. /\ blk.pc \in Serving /\ blk' = blk /\ blkData' = blkData
      /\ call'[Blk].size = call[Blk].size /\ call[Blk].err = 0
      /\ \A a \in Addr : flash'[a] # flash[a] =>
           blk.pc \in {"rmwerase", "rmwwrite"} /\ a \in Footprint(Blk)
  BY BlkLibFields
<1>2. ASSUME NEW b \in Block, NEW i \in 0 .. BlockSize - 1
      PROVE  AbstractCell(FlashOffset(b) + i)' = AbstractCell(FlashOffset(b) + i)
  <2>1. PICK a \in Addr : a = FlashOffset(b) + i
    BY BlockInFlash
  <2>2. AbstractCell(a)' = AbstractCell(a)
    <3>1. CASE flash'[a] = flash[a]
      BY <1>1, <3>1, CellMapped, CellMappedNext
    <3>2. CASE flash'[a] # flash[a]
      <4>1. blk.pc \in {"rmwerase", "rmwwrite"} /\ a \in Footprint(Blk)
        BY <1>1, <3>2
      <4>2. call[Blk].addr = blk.adr /\ blk.adr \in Nat /\ call[Blk].size \in Nat
        BY <4>1, RewriteRange DEF BlkContents, Rewriting
      <4>3. a - blk.adr \in 0 .. call[Blk].size - 1
        BY <4>1, <4>2 DEF Footprint, Addr
      <4> QED BY <1>1, <4>1, <4>3, CellMapped, CellMappedNext
    <3> QED BY <3>1, <3>2
  <2> QED BY <2>1, <2>2
<1>3. AbstractDisk' = AbstractDisk
  BY <1>2, DiskKept
<1>4. AbstractRequest' = AbstractRequest
  BY <1>1, RequestMapped, RequestMappedNext DEF Serving, Rewriting
<1>5. AbstractRequest # Device!None
  <2>1. AbstractRequest.op \in {"read", "write", "written"}
    BY <1>1, RequestMapped DEF Serving, Rewriting
  <2> QED BY <2>1 DEF Device!None
<1>6. BlkError' = BlkError \/ BlkError' # 0
  BY <1>1 DEF BlkError
<1>7. BlocksOf(blkData)' = BlocksOf(blkData)
  BY <1>1
<1> QED BY <1>3, <1>4, <1>5, <1>6, <1>7 DEF Device!Fail, Device!vars

\* ReadBlocks returns: without an error, what the device holds.
LEMMA BlkReturnsRead ==
  ASSUME BlkInv, BlkInv', BlkContents, BlkReadDone
  PROVE  Device!ReadReturns
<1> DEFINE j   == call[Blk]
           len == j.size \div BlockSize
<1>1. blk.pc = "read" /\ j.pc = "return" /\ blkData' = j.buf
  BY DEF BlkReadDone, Returned
<1>2. blk'.pc = "ready" /\ blk'.err = 0 /\ call'[Blk].err = 0 /\ flash' = flash
  BY BlkDoneFields
<1>3. /\ Accepted(blk.lba, j.size) /\ j.addr = FlashOffset(blk.lba)
      /\ j.op = "read" /\ TransferOK(Blk) /\ blk.err = 0 /\ CallOK(j)
  BY <1>1, BlkAssumption
     DEF BlkContents, BlkTransfer, BlkRange, BlkErrors, Serving, BlkInv, BlkTypeOK, LibTypeOK
<1>4. /\ blk.lba \in Nat /\ j.size \in Nat /\ len \in Nat
      /\ \A a \in blk.lba .. blk.lba + len - 1 : a \in Block
  BY <1>3, AcceptedFacts
<1>5. j.buf \in Memory(j.size)
  BY <1>3 DEF CallOK
<1>6. BlocksOf(blkData)' = [k \in 0 .. len - 1 |-> Slice(j.buf, k * BlockSize, BlockSize)]
  BY <1>1, <1>4, <1>5, BlocksOfMemory
<1>7. ASSUME NEW k \in 0 .. len - 1, NEW i \in 0 .. BlockSize - 1
      PROVE  /\ blk.lba + k \in Block
             /\ k * BlockSize + i \in 0 .. j.size - 1
             /\ FlashOffset(blk.lba + k) + i = j.addr + (k * BlockSize + i)
  <2>1. blk.lba + k \in blk.lba .. blk.lba + len - 1 /\ blk.lba + k - blk.lba = k
    BY <1>4
  <2>2. PICK b \in Block : b = blk.lba + k
    BY <1>4, <2>1
  <2>3. /\ FlashOffset(b) + i = FlashOffset(blk.lba) + ((b - blk.lba) * BlockSize + i)
        /\ (b - blk.lba) * BlockSize + i \in 0 .. j.size - 1
    <3>1. b \in blk.lba .. blk.lba + j.size \div BlockSize - 1
      BY <2>1, <2>2
    <3>2. Accepted(blk.lba, j.size)
      BY <1>3
    <3> QED BY <3>1, <3>2, CellOfRequest, Zenon
  <2>4. b - blk.lba = k
    <3>1. k \in Int /\ blk.lba \in Int
      BY <1>4
    <3> QED BY <2>2, <3>1
  <2>5. /\ FlashOffset(b) + i = FlashOffset(blk.lba) + (k * BlockSize + i)
        /\ k * BlockSize + i \in 0 .. j.size - 1
    BY <2>3, <2>4, Zenon
  <2> QED BY <1>3, <2>2, <2>5, Zenon
<1>8. ASSUME NEW k \in 0 .. len - 1
      PROVE  Slice(j.buf, k * BlockSize, BlockSize) \in [0 .. BlockSize - 1 -> Cell]
  BY <1>5, <1>7 DEF Slice, Memory
<1>9. ASSUME j.err = 0, NEW k \in 0 .. len - 1
      PROVE  Slice(j.buf, k * BlockSize, BlockSize) = AbstractDisk[blk.lba + k]
  <2>1. blk.lba + k \in Block
    BY <1>4
  <2>2. AbstractDisk[blk.lba + k] =
          [i \in 0 .. BlockSize - 1 |-> AbstractCell(FlashOffset(blk.lba + k) + i)]
    BY <2>1, BlockMapped
  <2>3. ASSUME NEW i \in 0 .. BlockSize - 1
        PROVE  AbstractCell(FlashOffset(blk.lba + k) + i) = j.buf[k * BlockSize + i]
    <3>1. AbstractCell(FlashOffset(blk.lba + k) + i) = flash[FlashOffset(blk.lba + k) + i]
      BY <1>1, CellMapped
    <3>2. k * BlockSize + i \in 0 .. Pulled(j) - 1
      BY <1>1, <1>7 DEF Pulled
    <3>3. j.buf[k * BlockSize + i] = flash[j.addr + (k * BlockSize + i)]
      BY <1>3, <1>9, <3>2 DEF TransferOK
    <3> QED BY <1>7, <3>1, <3>3
  <2> QED BY <2>2, <2>3 DEF Slice
<1>10. AbstractDisk' = AbstractDisk
  BY <1>1, <1>2, DiskIsFlash
<1>11. /\ AbstractRequest.op = "read" /\ AbstractRequest.lba = blk.lba
       /\ AbstractRequest.len = len
  BY <1>1, RequestMapped
<1>12. AbstractRequest' = Device!None
  BY <1>2, RequestMappedNext DEF Serving, Rewriting
<1>13. BlkError' = 0 /\ BlkError = j.err
  BY <1>2, <1>3 DEF BlkError
<1> HIDE DEF len, j
<1> DEFINE answer == [k \in 0 .. len - 1 |-> Slice(j.buf, k * BlockSize, BlockSize)]
<1>14. answer \in [0 .. len - 1 -> [0 .. BlockSize - 1 -> Cell]]
  BY <1>8
<1>15. j.err = 0 => \A k \in 0 .. len - 1 : answer[k] = AbstractDisk[blk.lba + k]
  BY <1>9
<1> HIDE DEF answer
<1>16. BlocksOf(blkData)' = answer
  BY <1>6 DEF answer
<1> QED BY <1>10, <1>11, <1>12, <1>13, <1>14, <1>15, <1>16 DEF Device!ReadReturns

\* The erase begins: from here on the device holds the data.
LEMMA BlkTakesEffect ==
  ASSUME BlkInv, BlkInv', BlkContents, BlkSectorsRead
  PROVE  Device!WriteTakesEffect
<1> DEFINE j   == call[Blk]
           len == blk.size \div BlockSize
           off == RmwOffset(blk.lba)
           req == AbstractRequest
<1>1. /\ blk.pc = "rmwread" /\ j.pc = "return"
      /\ call'[Blk].size = j.size /\ call'[Blk].err = 0
      /\ blk'.pc = "rmwerase" /\ blk'.lba = blk.lba /\ blk'.size = blk.size
      /\ blk'.adr = blk.adr /\ blk'.err = j.err
      /\ blk'.buf = Overlay(j.buf, off, blk.data)
      /\ flash' = flash /\ blkData' = blkData
  BY BlkSectorsReadFields DEF Returned
<1>2. /\ Accepted(blk.lba, blk.size) /\ blk.data \in Memory(blk.size)
      /\ blk.adr = RmwAddr(blk.lba) /\ blk.adr \in Nat
      /\ j.size = RmwSize(blk.lba, blk.size) /\ j.size \in Nat \ {0} /\ j.addr = blk.adr
      /\ off \in Nat /\ blk.size \in Nat /\ off + blk.size <= j.size
  BY <1>1, RewriteRange DEF BlkContents, Rewriting
<1>3. j.op = "read" /\ TransferOK(Blk) /\ blk.err = 0 /\ CallOK(j) /\ blk.lba \in Nat
  BY <1>1, BlkAssumption
     DEF BlkContents, BlkTransfer, BlkErrors, Serving, Rewriting, BlkInv, BlkTypeOK, LibTypeOK
<1>4. j.buf \in Memory(j.size) /\ DOMAIN j.buf = 0 .. j.size - 1 /\ DOMAIN blk.data = 0 .. blk.size - 1
  BY <1>2, <1>3 DEF CallOK, Memory
<1>5. FlashOffset(blk.lba) = blk.adr + off
  BY <1>2, GroupFacts, SectorsOfRequest
<1>6. /\ req.op = "write" /\ req.lba = blk.lba /\ req.len = len /\ req.data = BlocksOf(blk.data)
  BY <1>1, RequestMapped
<1>7. AbstractRequest' = [op |-> "written", lba |-> req.lba, len |-> req.len, data |-> <<>>]
  BY <1>1, <1>6, RequestMappedNext
<1>8. BlkError = j.err /\ BlkError' = j.err
  BY <1>1, <1>3 DEF BlkError
<1>9. len \in Nat /\ \A a \in blk.lba .. blk.lba + len - 1 : a \in Block
  BY <1>2, AcceptedFacts
<1>10. req.data = [k \in 0 .. len - 1 |-> Slice(blk.data, k * BlockSize, BlockSize)]
  BY <1>2, <1>6, BlocksOfMemory
\* a cell of the device by its distance x from the first cell of the request
<1>11. ASSUME NEW b \in Block, NEW i \in 0 .. BlockSize - 1,
              NEW x \in Int, x = (b - blk.lba) * BlockSize + i
       PROVE  AbstractCell(FlashOffset(b) + i)' =
                IF x \in 0 .. blk.size - 1 THEN blk.data[x]
                ELSE IF off + x \in 0 .. j.size - 1 THEN j.buf[off + x]
                ELSE flash[FlashOffset(b) + i]
  <2>1. FlashOffset(b) + i = blk.adr + off + x
    BY <1>2, <1>5, <1>11, CellOfRequest
  <2>2. PICK a \in Addr : a = FlashOffset(b) + i
    BY BlockInFlash
  <2>3. a - blk.adr = off + x /\ off + x - off = x
    BY <1>2, <2>1, <2>2 DEF Addr
  <2>4. AbstractCell(a)' = IF off + x \in 0 .. j.size - 1 THEN blk'.buf[off + x] ELSE flash[a]
    BY <1>1, <2>3, CellMappedNext
  <2>5. off + x \in 0 .. j.size - 1 =>
          blk'.buf[off + x] = IF x \in 0 .. blk.size - 1 THEN blk.data[x] ELSE j.buf[off + x]
    <3>1. PICK y \in Int : y = off + x /\ y - off = x
      BY <1>2, <2>3
    <3>2. y \in DOMAIN j.buf =>
            blk'.buf[y] = IF y - off \in DOMAIN blk.data THEN blk.data[y - off] ELSE j.buf[y]
      BY <1>1 DEF Overlay
    <3> QED BY <1>4, <3>1, <3>2
  <2>6. x \in 0 .. blk.size - 1 => off + x \in 0 .. j.size - 1
    BY <1>2
  <2> QED BY <2>2, <2>4, <2>5, <2>6
<1> HIDE DEF j, len, off, req
<1>12. ASSUME NEW b \in blk.lba .. blk.lba + len - 1
       PROVE  AbstractDisk'[b] = req.data[b - blk.lba]
  <2>1. b \in Block /\ b - blk.lba \in 0 .. len - 1
    BY <1>3, <1>9
  <2>2. req.data[b - blk.lba] = Slice(blk.data, (b - blk.lba) * BlockSize, BlockSize)
    BY <1>10, <2>1
  <2>3. AbstractDisk'[b] = [i \in 0 .. BlockSize - 1 |-> AbstractCell(FlashOffset(b) + i)']
    BY <2>1, BlockMapped
  <2>4. ASSUME NEW i \in 0 .. BlockSize - 1
        PROVE  AbstractCell(FlashOffset(b) + i)' = blk.data[(b - blk.lba) * BlockSize + i]
    <3>1. (b - blk.lba) * BlockSize + i \in 0 .. blk.size - 1
      BY <1>2, <2>1, CellOfRequest DEF len
    <3>2. (b - blk.lba) * BlockSize + i \in Int
      BY <3>1
    <3> QED BY <1>11, <2>1, <3>1, <3>2
  <2> QED BY <2>2, <2>3, <2>4 DEF Slice
<1>13. ASSUME NEW b \in Block, b \notin blk.lba .. blk.lba + len - 1, j.err = 0
       PROVE  AbstractDisk'[b] = AbstractDisk[b]
  <2>1. ASSUME NEW i \in 0 .. BlockSize - 1
        PROVE  AbstractCell(FlashOffset(b) + i)' = AbstractCell(FlashOffset(b) + i)
    <3> DEFINE x == (b - blk.lba) * BlockSize + i
    <3>1. x \in Int /\ x \notin 0 .. blk.size - 1
          /\ FlashOffset(b) + i = FlashOffset(blk.lba) + x
      BY <1>2, <1>13, GroupFacts, CellOfRequest DEF len
    <3>2. AbstractCell(FlashOffset(b) + i) = flash[FlashOffset(b) + i]
      BY <1>1, CellMapped
    <3>3. AbstractCell(FlashOffset(b) + i)' =
            IF off + x \in 0 .. j.size - 1 THEN j.buf[off + x] ELSE flash[FlashOffset(b) + i]
      BY <1>11, <3>1
    <3> HIDE DEF x
    <3>4. CASE off + x \in 0 .. j.size - 1
      <4>1. j.buf[off + x] = flash[j.addr + (off + x)]
        BY <1>1, <1>3, <1>13, <3>4 DEF TransferOK, Pulled, j
      <4>2. j.addr + (off + x) = FlashOffset(b) + i
        BY <1>2, <1>5, <3>1
      <4> QED BY <3>2, <3>3, <3>4, <4>1, <4>2
    <3> QED BY <3>2, <3>3, <3>4
  <2> QED BY <2>1, BlockKept
<1>14. ASSUME NEW b \in Block \ Device!Touched(req)
       PROVE  AbstractDisk'[b] = AbstractDisk[b]
  <2>1. ASSUME NEW i \in 0 .. BlockSize - 1
        PROVE  AbstractCell(FlashOffset(b) + i)' = AbstractCell(FlashOffset(b) + i)
    <3>1. PICK a \in Addr : a = FlashOffset(b) + i
      BY BlockInFlash
    <3>2. a - blk.adr \notin 0 .. j.size - 1
      BY <1>2, <1>6, <3>1, UntouchedCells DEF len
    <3>3. a - blk'.adr \notin 0 .. call'[Blk].size - 1
      <4>1. blk'.adr = blk.adr /\ call'[Blk].size = j.size
        BY <1>1
      <4> QED BY <3>2, <4>1
    <3>4. AbstractCell(a)' = flash'[a] /\ AbstractCell(a) = flash[a]
      BY <1>1, <3>3, CellMapped, CellMappedNext
    <3> QED BY <1>1, <3>1, <3>4
  <2> QED BY <2>1, BlockKept
<1>15. BlocksOf(blkData)' = BlocksOf(blkData)
  BY <1>1
<1>16. /\ \A b \in Device!Addressed(req) : AbstractDisk'[b] = req.data[b - req.lba]
       /\ \A b \in Block \ Device!Addressed(req) :
            AbstractDisk'[b] = AbstractDisk[b] \/ (BlkError # 0 /\ b \in Device!Touched(req))
  BY <1>6, <1>8, <1>12, <1>13, <1>14 DEF Device!Addressed
<1> QED BY <1>6, <1>7, <1>8, <1>15, <1>16 DEF Device!WriteTakesEffect, req

\* The device does not see the step from the erase to the write.
LEMMA BlkErasedStutters ==
  ASSUME BlkInv, BlkInv', BlkContents, BlkSectorsErased
  PROVE  UNCHANGED Device!vars
<1>1. /\ blk.pc = "rmwerase" /\ blk'.pc = "rmwwrite"
      /\ call'[Blk].size = call[Blk].size /\ call'[Blk].err = 0
      /\ blk'.lba = blk.lba /\ blk'.size = blk.size /\ blk'.adr = blk.adr
      /\ blk'.err = BlkError /\ blk'.buf = blk.buf
      /\ flash' = flash /\ blkData' = blkData
  BY BlkSectorsErasedFields
<1>2. ASSUME NEW b \in Block, NEW i \in 0 .. BlockSize - 1
      PROVE  AbstractCell(FlashOffset(b) + i)' = AbstractCell(FlashOffset(b) + i)
  <2>1. PICK a \in Addr : a = FlashOffset(b) + i
    BY BlockInFlash
  <2>2. AbstractCell(a)' = AbstractCell(a)
    BY <1>1, CellMapped, CellMappedNext
  <2> QED BY <2>1, <2>2
<1>3. AbstractDisk' = AbstractDisk
  BY <1>2, DiskKept
<1>4. AbstractRequest' = AbstractRequest
  BY <1>1, RequestMapped, RequestMappedNext
<1>5. BlkError' = BlkError
  BY <1>1 DEF BlkError
<1>6. BlocksOf(blkData)' = BlocksOf(blkData)
  BY <1>1
<1> QED BY <1>3, <1>4, <1>5, <1>6 DEF Device!vars

\* A cell outside the sectors of a rewrite is what the flash holds.
LEMMA SameElsewhereOf ==
  ASSUME BlkInv, BlkInv', BlkContents, blk.pc \in {"rmwerase", "rmwwrite"},
         blk'.pc \notin Serving,
         \A a \in Addr : a - blk.adr \notin 0 .. call[Blk].size - 1 => flash'[a] = flash[a]
  PROVE  Device!SameElsewhere(AbstractDisk', AbstractDisk, AbstractRequest)
<1>1. Accepted(blk.lba, blk.size) /\ blk.adr = RmwAddr(blk.lba)
      /\ call[Blk].size = RmwSize(blk.lba, blk.size)
  BY RewriteRange DEF BlkContents, Rewriting
<1>2. AbstractRequest.lba = blk.lba /\ AbstractRequest.len = blk.size \div BlockSize
  BY RequestMapped
<1>3. ASSUME NEW b \in Block \ Device!Touched(AbstractRequest)
      PROVE  AbstractDisk'[b] = AbstractDisk[b]
  <2>1. ASSUME NEW i \in 0 .. BlockSize - 1
        PROVE  AbstractCell(FlashOffset(b) + i)' = AbstractCell(FlashOffset(b) + i)
    <3>1. PICK a \in Addr : a = FlashOffset(b) + i
      BY BlockInFlash
    <3>2. a - blk.adr \notin 0 .. call[Blk].size - 1
      BY <1>1, <1>2, <3>1, UntouchedCells
    <3>3. AbstractCell(a)' = flash'[a] /\ AbstractCell(a) = flash[a]
      BY <3>2, CellMapped, CellMappedNext DEF Serving, Rewriting
    <3> QED BY <3>1, <3>2, <3>3
  <2> QED BY <2>1, BlockKept
<1> QED BY <1>3 DEF Device!SameElsewhere

\* WriteBlocks returns: the flash holds what the device promised.
LEMMA BlkReturnsWrite ==
  ASSUME BlkInv, BlkInv', BlkContents, BlkSectorsWritten
  PROVE  Device!WriteReturns
<1> DEFINE j == call[Blk]
<1>1. blk.pc = "rmwwrite" /\ j.pc = "return" /\ blkData' = blkData
  BY DEF BlkSectorsWritten, Returned
<1>2. blk'.pc = "ready" /\ blk'.err = 0 /\ call'[Blk].err = 0 /\ flash' = flash
  BY BlkDoneFields
<1>3. AbstractRequest.op = "written" /\ AbstractRequest' = Device!None
  BY <1>1, <1>2, RequestMapped, RequestMappedNext DEF Serving, Rewriting
<1>4. BlkError' = 0
  BY <1>2 DEF BlkError
<1>5. BlocksOf(blkData)' = BlocksOf(blkData)
  BY <1>1
<1>6. CASE BlkError # 0
  <2>1. Device!SameElsewhere(AbstractDisk', AbstractDisk, AbstractRequest)
    BY <1>1, <1>2, SameElsewhereOf DEF Serving, Rewriting
  <2> QED BY <1>3, <1>4, <1>5, <1>6, <2>1 DEF Device!WriteReturns
<1>7. CASE BlkError = 0
  <2>1. j.err = 0 /\ blk.err = 0 /\ j.op = "write" /\ j.buf = blk.buf /\ TransferOK(Blk)
    BY <1>1, <1>7 DEF BlkError, BlkContents, BlkTransfer, Serving, Rewriting
  <2>2. j.addr = blk.adr /\ blk.adr \in Nat
    BY <1>1, RewriteRange DEF BlkContents, Rewriting
  <2>3. ASSUME NEW x \in 0 .. j.size - 1
        PROVE  flash[blk.adr + x] = blk.buf[x]
    <3>1. flash[blk.adr + x] \subseteq blk.buf[x]
      BY <1>1, <2>1, <2>2 DEF TransferOK, Stored
    <3>2. blk.buf[x] \subseteq flash[blk.adr + x]
      BY <1>1, <2>1 DEF BlkContents, BlkWritable
    <3> QED BY <3>1, <3>2
  <2>4. ASSUME NEW b \in Block, NEW i \in 0 .. BlockSize - 1
        PROVE  AbstractCell(FlashOffset(b) + i)' = AbstractCell(FlashOffset(b) + i)
    <3>1. PICK a \in Addr : a = FlashOffset(b) + i
      BY BlockInFlash
    <3>2. AbstractCell(a)' = flash[a]
      BY <1>2, CellMappedNext
    <3>3. CASE a - blk.adr \in 0 .. j.size - 1
      <4>1. blk.adr + (a - blk.adr) = a
        BY <2>2, FlashSizeAssumption DEF Addr
      <4>2. flash[blk.adr + (a - blk.adr)] = blk.buf[a - blk.adr]
        BY <2>3, <3>3
      <4>3. AbstractCell(a) = blk.buf[a - blk.adr]
        BY <1>1, <3>3, CellMapped
      <4> QED BY <3>1, <3>2, <4>1, <4>2, <4>3
    <3>4. CASE a - blk.adr \notin 0 .. j.size - 1
      <4>1. AbstractCell(a) = flash[a]
        BY <1>1, <3>4, CellMapped
      <4> QED BY <3>1, <3>2, <4>1
    <3> QED BY <3>3, <3>4
  <2>5. AbstractDisk' = AbstractDisk
    BY <2>4, DiskKept
  <2> QED BY <1>3, <1>4, <1>5, <2>5 DEF Device!WriteReturns
<1> QED BY <1>6, <1>7

\* A power loss: harm only under a rewrite, and only to its sectors.
LEMMA BlkLosesPower ==
  ASSUME BlkInv, BlkInv', BlkAlone, BlkContents, BlkPowerLoss
  PROVE  Device!PowerLoss
<1>1. blk'.pc = "off" /\ blk'.err = 0 /\ call'[Blk].err = 0 /\ blkData' = NoBuf
  BY BlkLossFields
<1>2. AbstractRequest' = Device!None
  BY <1>1, RequestMappedNext DEF Serving, Rewriting
<1>3. BlkError' = 0
  BY <1>1 DEF BlkError
<1>4. BlocksOf(blkData)' = <<>>
  BY <1>1, NoBlocks
<1>5. ASSUME NEW a \in Addr, flash'[a] # flash[a]
      PROVE  a \in Footprint(Blk) /\ Changing(Blk)
  <2>1. PICK c \in Client : a \in Footprint(c) /\ Changing(c)
    BY <1>5, LibPowerLossOK DEF BlkPowerLoss, BlkInv, BlkTypeOK
  <2>2. c = Blk
    BY <2>1 DEF BlkAlone, Changing, Idle
  <2> QED BY <2>1, <2>2
<1>6. Changing(Blk) => blk.pc \in {"rmwerase", "rmwwrite"}
  <2>1. CallOK(call[Blk])
    BY BlkAssumption DEF BlkInv, BlkTypeOK, LibTypeOK
  <2>2. Changing(Blk) => blk.pc \in Serving /\ call[Blk].op \in {"erase", "write"}
    BY <2>1 DEF Changing, CallOK, BlkInv, Idle
  <2> QED BY <2>2 DEF BlkInv, BlkContents, BlkTransfer, Serving, Rewriting
<1>7. CASE blk.pc \in {"rmwerase", "rmwwrite"}
  <2>1. call[Blk].addr = blk.adr /\ blk.adr \in Nat /\ call[Blk].size \in Nat
    BY <1>7, RewriteRange DEF BlkContents, Rewriting
  <2>2. \A a \in Footprint(Blk) : a - blk.adr \in 0 .. call[Blk].size - 1
    BY <2>1 DEF Footprint
  <2>3. Device!SameElsewhere(AbstractDisk', AbstractDisk, AbstractRequest)
    BY <1>1, <1>5, <1>7, <2>2, SameElsewhereOf DEF Serving, Rewriting
  <2>4. AbstractRequest.op = "written"
    BY <1>7, RequestMapped
  <2> QED BY <1>2, <1>3, <1>4, <2>3, <2>4 DEF Device!PowerLoss
<1>8. CASE blk.pc \notin {"rmwerase", "rmwwrite"}
  <2>1. ASSUME NEW b \in Block, NEW i \in 0 .. BlockSize - 1
        PROVE  AbstractCell(FlashOffset(b) + i)' = AbstractCell(FlashOffset(b) + i)
    <3>1. PICK a \in Addr : a = FlashOffset(b) + i
      BY BlockInFlash
    <3>2. flash'[a] = flash[a]
      BY <1>5, <1>6, <1>8
    <3> QED BY <1>1, <1>8, <3>1, <3>2, CellMapped, CellMappedNext
  <2>2. AbstractDisk' = AbstractDisk
    BY <2>1, DiskKept
  <2> QED BY <1>2, <1>3, <1>4, <2>2 DEF Device!PowerLoss
<1> QED BY <1>7, <1>8

\* Every step of the driver is a step of the device, or none that it sees.
LEMMA BlkStepMapped ==
  ASSUME BlkInv, BlkInv', BlkAlone, BlkContents, [BlkNext]_<<libVars, blkVars>>
  PROVE  [\/ Device!Submit \/ Device!Fail \/ Device!ReadReturns \/ Device!WriteTakesEffect
          \/ Device!WriteReturns \/ Device!PowerLoss]_Device!vars
<1>1. CASE BlkEntry \/ UNCHANGED <<libVars, blk, blkData>>
  BY <1>1, BlkStutters
<1>2. CASE BlkReadDone
  BY <1>2, BlkReturnsRead
<1>3. CASE BlkSectorsRead
  BY <1>3, BlkTakesEffect
<1>4. CASE BlkSectorsErased
  BY <1>4, BlkErasedStutters
<1>5. CASE BlkSectorsWritten
  BY <1>5, BlkReturnsWrite
<1>6. CASE LibStep(Blk) /\ UNCHANGED blkVars
  BY <1>6, BlkLibStutters
<1>7. ASSUME NEW lba \in Block, NEW size \in 1 .. MaxBuffer, NEW junk \in Junk,
             BlkRead(lba, size, junk)
      PROVE  Device!Submit
  BY <1>7, BlkReadFields, BlkSubmits
<1>8. ASSUME NEW lba \in Block, NEW size \in 1 .. MaxBuffer, NEW junk \in Junk,
             NEW data \in [0 .. size - 1 -> BlkData], BlkWrite(lba, size, data, junk)
      PROVE  Device!Submit
  BY <1>8, BlkWriteFields, BlkSubmits
<1>9. CASE BlkRequest
  BY <1>1, <1>7, <1>8, <1>9 DEF BlkRequest, BlkRefuse, BlkNoMemory
<1>10. CASE BlkPowerLoss
  BY <1>10, BlkLosesPower
<1> QED BY <1>1, <1>2, <1>3, <1>4, <1>5, <1>6, <1>9, <1>10 DEF BlkNext, BlkRun, blkVars

LEMMA BlkInitMapped ==
  ASSUME \E f \in [Addr -> Cell] : LibInit(f), BlkInit
  PROVE  Device!Init /\ BlkContents
<1>1. call[Blk] = NoCall
  BY BlkAssumption DEF LibInit
<1>2. blk.pc = "off" /\ blk.err = 0 /\ call[Blk].err = 0 /\ blkData = NoBuf
  BY <1>1, QuietFields DEF BlkInit, NoCall
<1>3. BlkContents
  BY <1>2 DEF BlkContents, BlkTransfer, BlkRange, BlkErrors, BlkWritable, Serving, Rewriting
<1>4. AbstractRequest = Device!None
  BY <1>2, RequestMapped DEF Serving, Rewriting
<1>5. BlkError = 0 /\ BlocksOf(blkData) = <<>>
  BY <1>2, NoBlocks DEF BlkError
<1> QED BY <1>3, <1>4, <1>5 DEF Device!Init

\* The invariant on contents holds in every state of the driver.
THEOREM BlkContentsInvariant == BlkSpec => []BlkContents
<1>1. (\E f \in [Addr -> Cell] : LibInit(f)) /\ BlkInit => BlkContents
  BY BlkInitMapped
<1>2. BlkInv /\ BlkAlone /\ BlkContents /\ [BlkNext]_<<libVars, blkVars>> => BlkContents'
  BY BlkStepContents
<1> QED BY <1>1, <1>2, BlkInvariant, PTL DEF BlkSpec

\* The driver implements the block device: a write takes effect at once, a
\* read returns what the device holds, and only an error or a power loss under
\* a request does harm, to the blocks it reads or the sectors it rewrites
\* (SmcFlashBlockIoReadBlocks, SmcFlashBlockIoWriteBlocks).
THEOREM BlkImplementsDevice == BlkSpec => DeviceSpec
<1>1. (\E f \in [Addr -> Cell] : LibInit(f)) /\ BlkInit => Device!Init
  BY BlkInitMapped
<1>2. BlkInv /\ BlkInv' /\ BlkAlone /\ BlkContents /\ [BlkNext]_<<libVars, blkVars>> =>
        [\/ Device!Submit \/ Device!Fail \/ Device!ReadReturns \/ Device!WriteTakesEffect
         \/ Device!WriteReturns \/ Device!PowerLoss]_Device!vars
  BY BlkStepMapped
<1> QED BY <1>1, <1>2, BlkInvariant, BlkContentsInvariant, PTL
        DEF BlkSpec, DeviceSpec, Device!Spec
=============================================================================
