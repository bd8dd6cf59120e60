---------------------------- MODULE SmcFlashLib ----------------------------
(***************************************************************************)
(* The SPI flash behind TF-A and the library that reaches it               *)
(* (Platform/Baikal/Library/SmcFlashLib).                                  *)
(*                                                                         *)
(* TF-A owns the flash and ONE bounce buffer with ONE position, shared by  *)
(* every caller.  A cell stands for the 32 bytes that one PULL or PUSH     *)
(* moves.  Reads and writes are cut in parts of BounceSize cells.  Every   *)
(* action below is one secure monitor call, because a caller at a higher   *)
(* task priority may run between any two of them.                          *)
(*                                                                         *)
(* A cell is the set of its bits that are 1.  Erasing sets every bit;      *)
(* programming can only clear bits (NOR flash, EFI_FVB2_STICKY_WRITE).     *)
(***************************************************************************)
EXTENDS Integers, FiniteSets

CONSTANTS
  Client,      \* the drivers that call the library
  FlashSize,   \* cells of the flash
  BounceSize,  \* cells of TF-A's buffer (BAIKAL_SMC_FLASH_DATA_SIZE)
  SectorSize,  \* cells of an erase sector, as SmcFlashInfo reports it
  Bit,         \* the bits of a cell that are told apart
  SmcMayFail   \* whether TF-A may answer a call with an error

ASSUME FlashSizeAssumption  == FlashSize \in Nat \ {0}
ASSUME BounceSizeAssumption == BounceSize \in Nat \ {0}
ASSUME SectorSizeAssumption == SectorSize \in Nat \ {0}
ASSUME SmcMayFailAssumption == SmcMayFail \in BOOLEAN

VARIABLES
  flash,       \* [Addr -> Cell]
  bounce,      \* [0 .. BounceSize - 1 -> Cell]
  position,    \* next cell of bounce that PULL or PUSH touches
  call         \* [Client -> the library call it is in]

libVars == <<flash, bounce, position, call>>

Addr   == 0 .. FlashSize - 1
Slot   == 0 .. BounceSize - 1
Cell   == SUBSET Bit
Erased == Bit
Program(old, new) == old \cap new

SmallerOf(a, b) == IF a <= b THEN a ELSE b

(***************************************************************************)
(* A call in progress.  buf is the caller's memory, indexed from 0; base   *)
(* counts the cells of the finished parts, moved the cells of this part    *)
(* already pulled or pushed.                                               *)
(***************************************************************************)
NoBuf == [i \in 0 .. -1 |-> {}]

NoCall == [op |-> "none", pc |-> "idle", addr |-> 0, size |-> 0,
           buf |-> NoBuf, base |-> 0, moved |-> 0, err |-> 0]

FirstStep == [erase |-> "erase", read |-> "readbuf", write |-> "position"]

\* A null size is refused with -1 before any call to TF-A.
NewCall(op, addr, size, buf) ==
  [op |-> op, pc |-> IF size = 0 THEN "return" ELSE FirstStep[op],
   addr |-> addr, size |-> size, buf |-> buf, base |-> 0, moved |-> 0,
   err |-> IF size = 0 THEN -1 ELSE 0]

Idle(c)     == call[c].pc = "idle"
Returned(c) == call[c].pc = "return"

Enter(c, op, addr, size, buf) ==
  /\ Idle(c)
  /\ call' = [call EXCEPT ![c] = NewCall(op, addr, size, buf)]

\* The caller takes the result (call[c].err, call[c].buf) and goes on.
Leave(c) == call' = [call EXCEPT ![c] = NoCall]

\* The next call starts as soon as the last one has returned.
Chain(c, op, addr, size, buf) ==
  /\ Returned(c)
  /\ call' = [call EXCEPT ![c] = NewCall(op, addr, size, buf)]

\* Memory m with the cells of buf copied in from index at on, and a copy of
\* n cells of m (CopyMem).
Overlay(m, at, buf) ==
  [i \in DOMAIN m |-> IF i - at \in DOMAIN buf THEN buf[i - at] ELSE m[i]]
Slice(m, at, n) == [i \in 0 .. n - 1 |-> m[at + i]]

GoTo(c, step) == call' = [call EXCEPT ![c].pc = step]
Return(c, e)  == call' = [call EXCEPT ![c] = [@ EXCEPT !.pc = "return", !.err = e]]

PartSize(j) == SmallerOf(j.size - j.base, BounceSize)
PartAddr(j) == j.addr + j.base

InFlash(addr, size) == addr + size <= FlashSize

(***************************************************************************)
(* What TF-A may do with a request on n cells from addr: everything, or,   *)
(* if calls may fail, report an error after any number of them.  A request *)
(* that leaves the flash is refused.                                       *)
(***************************************************************************)
Outcome(addr, n) ==
  IF ~InFlash(addr, n)
    THEN {[cells |-> 0, err |-> -1]}
    ELSE {[cells |-> n, err |-> 0]} \cup
         (IF SmcMayFail THEN [cells : 0 .. n, err : {-1}] ELSE {})

ErasedFlash(addr, n) ==
  [a \in Addr |-> IF a \in addr .. addr + n - 1 THEN Erased ELSE flash[a]]

ProgrammedFlash(addr, n) ==
  [a \in Addr |-> IF a \in addr .. addr + n - 1
                    THEN Program(flash[a], bounce[a - addr]) ELSE flash[a]]

----------------------------------------------------------------------------
(* One action per secure monitor call.                                     *)

\* SmcFlashErase
SmcErase(c) ==
  /\ call[c].pc = "erase"
  /\ \E o \in Outcome(call[c].addr, call[c].size) :
       /\ flash' = ErasedFlash(call[c].addr, o.cells)
       /\ Return(c, o.err)
  /\ UNCHANGED <<bounce, position>>

\* SmcFlashReadBuf: flash to bounce, one part
SmcReadBuf(c) ==
  LET j == call[c] IN
  /\ j.pc = "readbuf"
  /\ \E o \in Outcome(PartAddr(j), PartSize(j)) :
       /\ bounce' = [i \in Slot |-> IF i < o.cells THEN flash[PartAddr(j) + i]
                                                   ELSE bounce[i]]
       /\ IF o.err # 0 THEN Return(c, o.err) ELSE GoTo(c, "position")
  /\ UNCHANGED <<flash, position>>

\* Mutant: the position is left where the last transfer stopped.
SmcPositionKept(c) ==
  /\ call[c].pc = "position"
  /\ GoTo(c, IF call[c].op = "read" THEN "pull" ELSE "push")
  /\ UNCHANGED <<flash, bounce, position>>

\* SmcFlashPosition (0), before the words of a part are pulled or pushed
SmcPosition(c) ==
  /\ call[c].pc = "position"
  /\ \/ /\ position' = 0
        /\ GoTo(c, IF call[c].op = "read" THEN "pull" ELSE "push")
     \/ /\ SmcMayFail
        /\ position' = position
        /\ Return(c, -1)
  /\ UNCHANGED <<flash, bounce>>

\* SmcFlashPull4Words.  The result registers are the data, so the call has no
\* way to report an error; past the end of the buffer the words are arbitrary.
SmcPull(c) ==
  LET j    == call[c]
      at   == j.base + j.moved
      last == j.moved + 1 = PartSize(j)
      word == IF position \in Slot THEN {bounce[position]} ELSE Cell
  IN
  /\ j.pc = "pull"
  /\ \E w \in word :
       call' = [call EXCEPT ![c] =
                 [j EXCEPT !.buf[at] = w,
                           !.moved = IF last THEN 0 ELSE @ + 1,
                           !.base  = IF last THEN @ + PartSize(j) ELSE @,
                           !.pc    = IF ~last THEN "pull"
                                     ELSE IF at + 1 = j.size THEN "return"
                                     ELSE "readbuf"]]
  /\ position' = SmallerOf(position + 1, BounceSize)
  /\ UNCHANGED <<flash, bounce>>

\* SmcFlashPush4Words.  TF-A refuses words past the end of its buffer.
SmcPush(c) ==
  LET j    == call[c]
      last == j.moved + 1 = PartSize(j)
  IN
  /\ j.pc = "push"
  /\ \/ /\ position \in Slot
        /\ bounce' = [bounce EXCEPT ![position] = j.buf[j.base + j.moved]]
        /\ position' = position + 1
        /\ call' = [call EXCEPT ![c] =
                     [j EXCEPT !.moved = IF last THEN 0 ELSE @ + 1,
                               !.pc = IF last THEN "writebuf" ELSE "push"]]
     \/ /\ SmcMayFail \/ position \notin Slot
        /\ UNCHANGED <<bounce, position>>
        /\ Return(c, -1)
  /\ UNCHANGED flash

\* SmcFlashWriteBuf: bounce to flash, one part
SmcWriteBuf(c) ==
  LET j    == call[c]
      part == PartSize(j)
  IN
  /\ j.pc = "writebuf"
  /\ \E o \in Outcome(PartAddr(j), part) :
       /\ flash' = ProgrammedFlash(PartAddr(j), o.cells)
       /\ IF o.err # 0 \/ j.base + part = j.size
            THEN Return(c, o.err)
            ELSE call' = [call EXCEPT ![c] = [j EXCEPT !.base = @ + part,
                                                       !.pc = "position"]]
  /\ UNCHANGED <<bounce, position>>

LibStep(c) ==
  \/ SmcErase(c)
  \/ SmcReadBuf(c)
  \/ SmcPosition(c)
  \/ SmcPull(c)
  \/ SmcPush(c)
  \/ SmcWriteBuf(c)

(***************************************************************************)
(* The power fails, perhaps while TF-A erases or programs for c: the cells *)
(* it had reached are changed.  Nothing but the flash survives.            *)
(***************************************************************************)
TornFlash ==
  {flash} \cup
  (UNION {{ErasedFlash(call[c].addr, n) : n \in 0 .. call[c].size}
            : c \in {d \in Client : /\ call[d].pc = "erase"
                                    /\ InFlash(call[d].addr, call[d].size)}})
  \cup
  (UNION {{ProgrammedFlash(PartAddr(call[c]), n) : n \in 0 .. PartSize(call[c])}
            : c \in {d \in Client :
                       /\ call[d].pc = "writebuf"
                       /\ InFlash(PartAddr(call[d]), PartSize(call[d]))}})

LibReset ==
  /\ bounce' = [i \in Slot |-> {}]
  /\ position' = 0
  /\ call' = [c \in Client |-> NoCall]

LibPowerLoss == flash' \in TornFlash /\ LibReset

LibInit(f) ==
  /\ flash = f
  /\ bounce = [i \in Slot |-> {}]
  /\ position = 0
  /\ call = [c \in Client |-> NoCall]

----------------------------------------------------------------------------
\* A call is well formed: its buffer is as long as the call says, the parts
\* done fit in it, and it is in the middle of a part only while it moves words.
Memory(n) == [0 .. n - 1 -> Cell]

CallOK(j) ==
  /\ DOMAIN j = DOMAIN NoCall
  /\ j.op \in {"none", "erase", "read", "write"}
  /\ j.pc \in {"idle", "erase", "readbuf", "position", "pull", "push",
              "writebuf", "return"}
  /\ j.addr \in Nat /\ j.size \in Nat /\ j.err \in {0, -1}
  /\ j.base \in 0 .. j.size /\ j.moved \in Nat
  /\ j.op \in {"read", "write"} => j.buf \in Memory(j.size)
  /\ j.pc = "erase" => j.op = "erase"
  /\ j.pc \in {"readbuf", "pull"} => j.op = "read"
  /\ j.pc \in {"push", "writebuf"} => j.op = "write"
  /\ j.pc = "position" => j.op \in {"read", "write"}
  /\ j.pc \in {"readbuf", "position", "pull", "push", "writebuf"} => j.base < j.size
  /\ j.pc \in {"pull", "push"} => j.moved < PartSize(j)
  /\ j.pc \in {"readbuf", "position", "writebuf"} => j.moved = 0

\* TF-A is about to change the flash for c.
Changing(c) == call[c].pc \in {"erase", "writebuf"}

LibTypeOK ==
  /\ flash \in [Addr -> Cell]
  /\ bounce \in [Slot -> Cell]
  /\ position \in 0 .. BounceSize
  /\ DOMAIN call = Client
  /\ \A c \in Client : CallOK(call[c])
=============================================================================
